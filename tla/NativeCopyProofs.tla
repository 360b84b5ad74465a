------------------------- MODULE NativeCopyProofs -------------------------
(***************************************************************************)
(* Proofs about NativeCopy, for every set of threads, every mapping, every *)
(* set of requests and every bound: the inductive invariant, and that the  *)
(* native and PMDK operations implement DurableWrite.                      *)
(***************************************************************************)
EXTENDS NativeCopyInv, TLAPS

GoodOp(o) ==
    /\ o.fill \in {"none", "cpy", "set", "words"}
    /\ o.lines \in BOOLEAN
    /\ o.then \in {"nothing", "extent", "fence", "pmdk"}
    /\ o.lines => o.fill \in {"cpy", "set"} /\ o.then \in {"nothing", "fence"}
    /\ o.then = "fence" => o.lines
    /\ o.then = "pmdk" => o.fill \in {"cpy", "set"}

\* A fence comes after line-wise write-backs or after clwb_extent, and PMDK
\* persists what PMDK has copied.
LEMMA OpsGood == \A o \in Ops : GoodOp(o)
<1>1. \A o \in Ops : o \in {Op("none", FALSE, "nothing"), Op("cpy", FALSE, "nothing"),
                            Op("cpy", TRUE, "nothing"), Op("cpy", FALSE, "extent"),
                            Op("cpy", TRUE, "fence"), Op("words", FALSE, "extent"),
                            Op("set", FALSE, "extent"), Op("set", TRUE, "fence"),
                            Op("cpy", FALSE, "pmdk"), Op("set", FALSE, "pmdk")}
  BY DEF Ops, CopyOps, SetOps, aep_baseline, cpy_native_noflush, cpy_native_flush,
         aep_native_cpy_to_dram, aep_pmem2_cpy_to_dram, aep_native_cpy_dram_by_all,
         aep_native_cpy_dram_by_cacheline, aep_native_store_dram, aep_cpy_native_by_all,
         aep_cpy_native_by_cacheline, aep_memset_native_by_all,
         aep_memset_native_by_cacheline, aep_pmem2_cpy_dram, aep_cpy_pmem2_memcpy,
         aep_memset_pmem2
<1>2. /\ GoodOp(Op("none", FALSE, "nothing")) /\ GoodOp(Op("cpy", FALSE, "nothing"))
      /\ GoodOp(Op("cpy", TRUE, "nothing")) /\ GoodOp(Op("cpy", FALSE, "extent"))
      /\ GoodOp(Op("cpy", TRUE, "fence")) /\ GoodOp(Op("words", FALSE, "extent"))
      /\ GoodOp(Op("set", FALSE, "extent")) /\ GoodOp(Op("set", TRUE, "fence"))
      /\ GoodOp(Op("cpy", FALSE, "pmdk")) /\ GoodOp(Op("set", FALSE, "pmdk"))
  BY DEF Op, GoodOp
<1> QED
  BY <1>1, <1>2

LEMMA LineBaseFacts ==
  ASSUME NEW x \in Nat
  PROVE  LineBase(x) \in Nat /\ LineBase(x) % 64 = 0 /\ LineBase(x) <= x /\ x < LineBase(x) + 64
BY DEF LineBase, CACHELINE_SIZE

-----------------------------------------------------------------------------
(***************************************************************************)
(* Control: types, cursors, the call in progress.                          *)
(***************************************************************************)
LocalOK(t) == CursorOK(t) /\ OpOK(t) /\ CallOK(t)

LocalInv ==
    /\ TypeOK
    /\ \A t \in Thread : LocalOK(t)

LEMMA RequestFacts ==
  ASSUME LocalInv, NEW t \in Thread
  PROVE  /\ GoodOp(req[t].op)
         /\ req[t].d \in Nat /\ req[t].s \in Nat /\ req[t].n \in Nat
         /\ dest[t] \in Nat /\ src[t] \in Nat /\ len[t] \in Nat /\ cnt[t] \in Nat
         /\ i[t] \in Nat /\ uptr[t] \in Nat
         /\ busy(t) => /\ req[t] \in Requests
                       /\ req[t].d <= dest[t] /\ dest[t] + len[t] = req[t].d + req[t].n
                       /\ src[t] - dest[t] = req[t].s - req[t].d
BY OpsGood DEF LocalInv, LocalOK, CursorOK, TypeOK

LEMMA RequestShape ==
  ASSUME NEW r \in Requests
  PROVE  /\ r \in [op : Ops, d : Nat, s : Nat, n : Nat] /\ GoodOp(r.op)
         /\ Range(r) \subseteq Addr /\ Target(r) \subseteq Addr
         /\ \A a \in Target(r) : a \in Nat
         /\ r.op.fill \in {"cpy", "set"} => Target(r) = Range(r)
<1>1. r \in [op : Ops, d : Nat, s : Nat, n : Nat] /\ Range(r) \subseteq Addr /\ Target(r) \subseteq Addr
  BY RequestsAssumption
<1> QED
  BY <1>1, OpsGood, AddrAssumption DEF Target

\* The parts of the state that a step of another thread leaves alone.
SameLocals(u) == /\ pc'[u] = pc[u] /\ req'[u] = req[u] /\ dest'[u] = dest[u]
                 /\ src'[u] = src[u] /\ len'[u] = len[u] /\ cnt'[u] = cnt[u]
                 /\ todo'[u] = todo[u] /\ after'[u] = after[u] /\ i'[u] = i[u]
                 /\ uptr'[u] = uptr[u]

LEMMA OthersLocals ==
  ASSUME TypeOK, NEW t \in Thread, NEW u \in Thread, u # t, Step(t) \/ Call(t)
  PROVE  SameLocals(u)
<1> USE DEF TypeOK, SameLocals, Goto, local, Memcpy
<1>1. CASE Call(t)
  BY <1>1 DEF Call, Begin
<1>2. CASE Whole(t) \/ Head(t) \/ Loop(t) \/ Tail(t)
  BY <1>2 DEF Whole, Head, Loop, Tail
<1>3. CASE Fill(t) \/ FillEnd(t)
  BY <1>3 DEF Fill, FillEnd
<1>4. CASE HeadSkip(t) \/ LoopEnd(t) \/ LineClwb(t)
  BY <1>4 DEF HeadSkip, LoopEnd, LineClwb
<1>5. CASE StoreWord(t) \/ WordEnd(t)
  BY <1>5 DEF StoreWord, WordEnd
<1>6. CASE Return(t) \/ clwb_extent(t)
  BY <1>6 DEF Return, clwb_extent
<1>7. CASE Fence(t) \/ PmdkPersist(t)
  BY <1>7 DEF Fence, PmdkPersist
<1> QED
  BY <1>1, <1>2, <1>3, <1>4, <1>5, <1>6, <1>7 DEF Step

LEMMA LocalFrame ==
  ASSUME NEW u \in Thread, LocalOK(u), SameLocals(u)
  PROVE  LocalOK(u)'
BY DEF LocalOK, CursorOK, OpOK, CallOK, SameLocals, busy, InLines, Filling

HwType == mem \in [Addr -> Int] /\ pm \in [Addr -> Int] /\ pend \in [Thread -> SUBSET Addr]

LEMMA HwStepType ==
  ASSUME HwType, NEW t \in Thread, NEW W, NEW v \in [Addr -> Int], NEW x,
         Store(W, v) \/ NtStore(t, W, v) \/ Clwb(t, x) \/ Sfence(t) \/ LosePower
            \/ Evict(x) \/ UNCHANGED hw
  PROVE  HwType'
BY DEF HwType, Store, NtStore, Clwb, Sfence, LosePower, Evict, hw

LEMMA DataType ==
  ASSUME TypeOK, NEW t \in Thread
  PROVE  Data(t) \in [Addr -> Int]
<1>1. \A a \in Addr : a \in Int
  BY AddrAssumption
<1>2. src[t] \in Int /\ dest[t] \in Int /\ C \in Int
  BY DEF TypeOK, C
<1> QED
  BY <1>1, <1>2 DEF Data

LEMMA LocalInit == Init => LocalInv
<1> SUFFICES ASSUME Init PROVE LocalInv
  OBVIOUS
<1>1. aep_baseline \in Ops /\ Old \in Int
  BY DEF Ops, Old
<1>2. TypeOK
  BY <1>1, BoundsAssumption DEF Init, TypeOK
<1>3. \A t \in Thread : LocalOK(t)
  BY DEF Init, LocalOK, CursorOK, OpOK, CallOK, busy, InLines, Filling
<1> QED
  BY <1>2, <1>3 DEF LocalInv

LEMMA LocalCall ==
  ASSUME LocalInv, NEW t \in Thread, Call(t)
  PROVE  TypeOK' /\ LocalOK(t)'
<1>1. PICK r \in Workloads[load].requests : Begin(t, r)
  BY DEF Call
<1>2. r \in Requests
  BY DEF Requests, LocalInv, TypeOK
<1>3. /\ r \in [op : Ops, d : Nat, s : Nat, n : Nat] /\ GoodOp(r.op)
      /\ r.d \in Nat /\ r.s \in Nat /\ r.n \in Nat
  BY <1>2, RequestShape
<1>4. TypeOK
  BY DEF LocalInv
<1> DEFINE to == IF r.op.fill = "none" THEN "ret" ELSE IF r.op.fill = "words" THEN "word"
                 ELSE IF r.op.lines THEN "head" ELSE "whole"
<1>5. /\ pc'[t] = to /\ req'[t] = r /\ dest'[t] = r.d /\ src'[t] = r.s /\ len'[t] = r.n
      /\ i'[t] = 0
  BY <1>1, <1>4 DEF Begin, Goto, TypeOK
<1>6. TypeOK'
  <2>1. HwType'
    BY <1>1, <1>4 DEF Begin, HwType, TypeOK, hw
  <2>2. \A a \in Addr : New(r, a) \subseteq Int
    BY <1>3, AddrAssumption DEF New, C
  <2>3. may' \in [Addr -> SUBSET Int]
    BY <1>1, <1>4, <2>2 DEF Begin, TypeOK
  <2>4. left' \in 0 .. Workloads[load].max_calls
    BY <1>1, <1>4, BoundsAssumption DEF Begin, Call, TypeOK
  <2>5. /\ pc' \in [Thread -> {"idle", "whole", "fill", "head", "loop", "tail", "clwb", "word",
                          "ret", "extent", "fence", "pmdk"}]
        /\ req' \in [Thread -> [op : Ops, d : Nat, s : Nat, n : Nat]]
        /\ dest' \in [Thread -> Nat] /\ src' \in [Thread -> Nat] /\ len' \in [Thread -> Nat]
        /\ i' \in [Thread -> Nat]
    BY <1>1, <1>3, <1>4 DEF Begin, TypeOK, Goto
  <2> QED
    BY <1>1, <1>4, <2>1, <2>3, <2>4, <2>5 DEF Begin, TypeOK, HwType
<1>7. to \in {"ret", "word", "head", "whole"}
  OBVIOUS
<1>8. CursorOK(t)'
  <2>1. r.d + r.n = r.d + r.n /\ r.d <= r.d /\ r.s - r.d = r.s - r.d
    BY <1>3
  <2> QED
    BY <1>2, <1>5, <1>7, <2>1 DEF CursorOK
<1>9. OpOK(t)'
  <2>1. 0 % 8 = 0
    OBVIOUS
  <2> QED
    BY <1>3, <1>5, <2>1 DEF OpOK, InLines, GoodOp
<1>10. CallOK(t)'
  BY <1>5, <1>7 DEF CallOK, Filling
<1> QED
  BY <1>6, <1>8, <1>9, <1>10 DEF LocalOK

\* One memcpy or memset begins.
LEMMA LocalMemcpy ==
  ASSUME LocalInv, NEW t \in Thread, NEW n \in Nat, NEW next \in {"loop", "ret"},
         Memcpy(t, n, next), busy(t), n <= len[t], req[t].op.fill \in {"cpy", "set"},
         next = "ret" => n = len[t],
         req[t].op.lines => /\ dest[t] + n <= LineBase(dest[t]) + 64
                            /\ n < len[t] => dest[t] + n = LineBase(dest[t]) + 64,
         ~req[t].op.lines => next = "ret" /\ dest[t] = req[t].d
  PROVE  TypeOK' /\ LocalOK(t)'
<1>1. TypeOK
  BY DEF LocalInv
<1>2. /\ req[t] \in Requests /\ req[t].d \in Nat /\ req[t].n \in Nat /\ dest[t] \in Nat
      /\ len[t] \in Nat /\ req[t].d <= dest[t] /\ dest[t] + len[t] = req[t].d + req[t].n
  BY RequestFacts
<1>3. dest[t] .. (dest[t] + n - 1) \subseteq Addr
  <2>1. Range(req[t]) \subseteq Addr
    BY <1>2, RequestShape
  <2> QED
    BY <1>2, <2>1 DEF Range
<1>4. TypeOK'
  BY <1>1, <1>3 DEF Memcpy, TypeOK, Goto, hw, bounds
<1>5. /\ pc'[t] = "fill" /\ cnt'[t] = n /\ todo'[t] = dest[t] .. (dest[t] + n - 1)
      /\ after'[t] = next /\ req'[t] = req[t] /\ dest'[t] = dest[t] /\ src'[t] = src[t]
      /\ len'[t] = len[t]
  BY <1>1 DEF Memcpy, Goto, TypeOK
<1>6. CursorOK(t)' /\ OpOK(t)'
  BY <1>5, RequestFacts DEF CursorOK, OpOK, busy, InLines
<1>7. CallOK(t)'
  BY <1>5 DEF CallOK, Filling, CACHELINE_SIZE, LineBase
<1> QED
  BY <1>4, <1>6, <1>7 DEF LocalOK

LEMMA LocalBegins ==
  ASSUME LocalInv, NEW t \in Thread, Whole(t) \/ Head(t) \/ Loop(t) \/ Tail(t)
  PROVE  TypeOK' /\ LocalOK(t)'
<1>1. LocalOK(t) /\ dest[t] \in Nat /\ len[t] \in Nat
  BY RequestFacts DEF LocalInv
<1>2. LineBase(dest[t]) \in Nat /\ LineBase(dest[t]) <= dest[t] /\ dest[t] < LineBase(dest[t]) + 64
  BY <1>1, LineBaseFacts
<1>3. CASE Whole(t)
  <2>1. /\ busy(t) /\ ~req[t].op.lines /\ req[t].op.fill \in {"cpy", "set"} /\ dest[t] = req[t].d
    BY <1>1, <1>3 DEF Whole, LocalOK, CursorOK, OpOK, busy
  <2> QED
    BY <1>1, <1>3, <2>1, LocalMemcpy DEF Whole
<1>4. CASE Head(t)
  <2>1. /\ busy(t) /\ req[t].op.lines /\ req[t].op.fill \in {"cpy", "set"}
    BY <1>1, <1>4 DEF Head, LocalOK, OpOK, InLines, busy
  <2>2. /\ HeadCount(t) \in Nat /\ HeadCount(t) <= len[t]
        /\ dest[t] + HeadCount(t) <= LineBase(dest[t]) + 64
        /\ HeadCount(t) < len[t] => dest[t] + HeadCount(t) = LineBase(dest[t]) + 64
    BY <1>1 DEF HeadCount, LineBase, CACHELINE_SIZE
  <2> QED
    BY <1>4, <2>1, <2>2, LocalMemcpy DEF Head
<1>5. CASE Loop(t)
  <2>1. /\ busy(t) /\ req[t].op.lines /\ req[t].op.fill \in {"cpy", "set"}
        /\ len[t] > 0 => dest[t] % 64 = 0
    BY <1>1, <1>5 DEF Loop, LocalOK, CursorOK, OpOK, InLines, busy, CACHELINE_SIZE
  <2>2. 64 <= len[t] /\ Memcpy(t, 64, "loop")
    BY <1>1, <1>5 DEF Loop, CACHELINE_SIZE
  <2>3. LineBase(dest[t]) = dest[t]
    BY <1>1, <2>1, <2>2 DEF LineBase, CACHELINE_SIZE
  <2>4. dest[t] + 64 <= LineBase(dest[t]) + 64 /\ dest[t] + 64 = LineBase(dest[t]) + 64
    BY <1>1, <2>3
  <2> QED
    BY <2>1, <2>2, <2>4, LocalMemcpy
<1>6. CASE Tail(t)
  <2>1. /\ busy(t) /\ req[t].op.lines /\ req[t].op.fill \in {"cpy", "set"}
        /\ len[t] > 0 => dest[t] % 64 = 0
        /\ len[t] < 64
    BY <1>1, <1>6 DEF Tail, LocalOK, CursorOK, OpOK, InLines, busy, CACHELINE_SIZE
  <2>2. dest[t] + len[t] <= LineBase(dest[t]) + 64
    BY <1>1, <2>1 DEF LineBase, CACHELINE_SIZE
  <2> QED
    BY <1>1, <1>6, <2>1, <2>2, LocalMemcpy DEF Tail
<1> QED
  BY <1>3, <1>4, <1>5, <1>6

LEMMA LocalFill ==
  ASSUME LocalInv, NEW t \in Thread, Fill(t)
  PROVE  TypeOK' /\ LocalOK(t)'
<1>1. TypeOK /\ LocalOK(t)
  BY DEF LocalInv
<1>2. PICK W \in SUBSET todo[t] : /\ Store(W, Data(t)) \/ NtStore(t, W, Data(t))
                                  /\ todo' = [todo EXCEPT ![t] = @ \ W]
  BY DEF Fill
<1>3. HwType'
  <2>1. HwType
    BY <1>1 DEF TypeOK, HwType
  <2> QED
    BY <1>1, <1>2, <2>1, DataType, HwStepType
<1>4. TypeOK'
  BY <1>1, <1>2, <1>3 DEF Fill, TypeOK, HwType, bounds
<1>5. todo'[t] \subseteq todo[t]
  BY <1>1, <1>2 DEF TypeOK
<1>6. pc[t] = "fill"
  BY DEF Fill
<1>7. LocalOK(t)'
  BY <1>1, <1>5, <1>6 DEF Fill, LocalOK, CursorOK, OpOK, CallOK, busy, InLines, Filling
<1> QED
  BY <1>4, <1>7

LEMMA LocalGoes ==
  ASSUME LocalInv, NEW t \in Thread, FillEnd(t) \/ HeadSkip(t) \/ LoopEnd(t) \/ WordEnd(t)
  PROVE  TypeOK' /\ LocalOK(t)'
<1> USE DEF FillEnd, HeadSkip, LoopEnd, WordEnd
<1>1. TypeOK /\ LocalOK(t)
  BY DEF LocalInv
<1>2. TypeOK'
  BY <1>1 DEF TypeOK, Goto, hw, local, bounds
<1>3. /\ req'[t] = req[t] /\ dest'[t] = dest[t] /\ src'[t] = src[t] /\ len'[t] = len[t]
      /\ cnt'[t] = cnt[t] /\ todo'[t] = todo[t] /\ after'[t] = after[t] /\ i'[t] = i[t]
  BY DEF local
<1>4. dest[t] \in Nat /\ len[t] \in Nat
  BY <1>1 DEF TypeOK
<1>5. \/ pc[t] = "fill" /\ todo[t] = {} /\ pc'[t] = IF req[t].op.lines THEN "clwb" ELSE "ret"
      \/ pc[t] = "head" /\ dest[t] % CACHELINE_SIZE = 0 /\ pc'[t] = "loop"
      \/ pc[t] = "loop" /\ len[t] < CACHELINE_SIZE /\ pc'[t] = IF len[t] = 0 THEN "ret" ELSE "tail"
      \/ pc[t] = "word" /\ pc'[t] = "ret"
  BY <1>1 DEF Goto, TypeOK
<1>6. CursorOK(t)'
  BY <1>1, <1>3, <1>4, <1>5 DEF LocalOK, CursorOK, busy
<1>7. OpOK(t)'
  BY <1>1, <1>3, <1>5 DEF LocalOK, OpOK, InLines
<1>8. CallOK(t)'
  BY <1>1, <1>3, <1>5 DEF LocalOK, CallOK, Filling
<1> QED
  BY <1>2, <1>6, <1>7, <1>8 DEF LocalOK

LEMMA LocalLineClwb ==
  ASSUME LocalInv, NEW t \in Thread, LineClwb(t)
  PROVE  TypeOK' /\ LocalOK(t)'
<1>1. TypeOK /\ LocalOK(t) /\ pc[t] = "clwb" /\ busy(t)
  BY DEF LocalInv, LineClwb, busy
<1>2. HwType'
  <2>1. HwType /\ Clwb(t, dest[t])
    BY <1>1 DEF TypeOK, HwType, LineClwb
  <2> QED
    BY <1>1, <2>1, DataType, HwStepType
<1>3. /\ dest[t] \in Nat /\ src[t] \in Nat /\ len[t] \in Nat /\ cnt[t] \in Nat
      /\ cnt[t] <= len[t] /\ after[t] \in {"loop", "ret"} /\ req[t].op.lines
  BY <1>1 DEF TypeOK, LocalOK, CallOK, OpOK, Filling, InLines
<1>4. TypeOK'
  <2>1. len[t] - cnt[t] \in Nat /\ dest[t] + cnt[t] \in Nat /\ src[t] + cnt[t] \in Nat
    BY <1>3
  <2>2. /\ dest' \in [Thread -> Nat] /\ src' \in [Thread -> Nat] /\ len' \in [Thread -> Nat]
    BY <1>1, <2>1 DEF LineClwb, TypeOK
  <2>3. pc' \in [Thread -> {"idle", "whole", "fill", "head", "loop", "tail", "clwb", "word",
                          "ret", "extent", "fence", "pmdk"}]
    BY <1>1, <1>3 DEF LineClwb, TypeOK, Goto
  <2> QED
    BY <1>1, <1>2, <2>2, <2>3 DEF LineClwb, TypeOK, HwType, bounds
<1>5. /\ pc'[t] = after[t] /\ req'[t] = req[t]
      /\ after[t] = "ret" => dest'[t] = dest[t] /\ src'[t] = src[t] /\ len'[t] = len[t]
      /\ after[t] = "loop" => /\ dest'[t] = dest[t] + cnt[t] /\ src'[t] = src[t] + cnt[t]
                              /\ len'[t] = len[t] - cnt[t]
  BY <1>1 DEF LineClwb, TypeOK, Goto
<1>6. /\ req[t] \in Requests /\ req[t].d \in Nat /\ req[t].s \in Nat /\ req[t].n \in Nat
      /\ req[t].d <= dest[t] /\ dest[t] + len[t] = req[t].d + req[t].n
      /\ src[t] - dest[t] = req[t].s - req[t].d
  BY <1>1, RequestFacts
<1>7. CursorOK(t)'
  <2>1. CASE after[t] = "ret"
    BY <1>5, <1>6, <2>1 DEF CursorOK
  <2>2. CASE after[t] = "loop"
    <3>1. /\ req[t].d <= dest'[t] /\ dest'[t] + len'[t] = req[t].d + req[t].n
          /\ src'[t] - dest'[t] = req[t].s - req[t].d
      BY <1>3, <1>5, <1>6, <2>2
    <3>2. len'[t] > 0 => dest'[t] % 64 = 0
      <4>1. cnt[t] < len[t] => dest[t] + cnt[t] = LineBase(dest[t]) + 64
        BY <1>1, <1>3 DEF LocalOK, CallOK, Filling, CACHELINE_SIZE
      <4>2. LineBase(dest[t]) \in Nat /\ LineBase(dest[t]) % 64 = 0
        BY <1>3, LineBaseFacts
      <4>3. (LineBase(dest[t]) + 64) % 64 = 0
        BY <4>2
      <4> QED
        BY <1>3, <1>5, <2>2, <4>1, <4>3
    <3> QED
      BY <1>5, <1>6, <2>2, <3>1, <3>2 DEF CursorOK, CACHELINE_SIZE
  <2> QED
    BY <1>3, <2>1, <2>2
<1>8. OpOK(t)' /\ CallOK(t)'
  BY <1>1, <1>3, <1>5 DEF LocalOK, OpOK, CallOK, InLines, Filling
<1> QED
  BY <1>4, <1>7, <1>8 DEF LocalOK

LEMMA LocalStoreWord ==
  ASSUME LocalInv, NEW t \in Thread, StoreWord(t)
  PROVE  TypeOK' /\ LocalOK(t)'
<1>1. TypeOK /\ LocalOK(t) /\ pc[t] = "word"
  BY DEF LocalInv, StoreWord
<1>2. HwType'
  <2>1. HwType /\ Store((dest[t] + 8 * i[t]) .. (dest[t] + 8 * i[t] + 7), Data(t))
    BY <1>1 DEF TypeOK, HwType, StoreWord
  <2> QED
    BY <1>1, <2>1, DataType, HwStepType
<1>3. TypeOK'
  <2>1. i' \in [Thread -> Nat]
    BY <1>1 DEF StoreWord, TypeOK
  <2> QED
    BY <1>1, <1>2, <2>1 DEF StoreWord, TypeOK, HwType, bounds
<1>4. CursorOK(t)' /\ CallOK(t)'
  BY <1>1 DEF StoreWord, LocalOK, CursorOK, CallOK, Filling, busy
<1>5. i[t] \in Nat /\ i[t] % 8 = 0 /\ i'[t] = i[t] + 8
  BY <1>1 DEF StoreWord, LocalOK, OpOK, TypeOK
<1>6. i'[t] % 8 = 0
  BY <1>5
<1>7. OpOK(t)'
  BY <1>1, <1>6 DEF StoreWord, LocalOK, OpOK, InLines
<1> QED
  BY <1>3, <1>4, <1>7 DEF LocalOK

LEMMA LocalReturns ==
  ASSUME LocalInv, NEW t \in Thread, Return(t) \/ clwb_extent(t)
  PROVE  TypeOK' /\ LocalOK(t)'
<1>1. TypeOK /\ LocalOK(t) /\ GoodOp(req[t].op) /\ req[t].d \in Nat
  BY RequestFacts DEF LocalInv
<1>2. /\ req'[t] = req[t] /\ dest'[t] = dest[t] /\ src'[t] = src[t] /\ len'[t] = len[t]
      /\ \/ /\ pc[t] = "ret"
            /\ pc'[t] = (IF req[t].op.then = "nothing" THEN "idle" ELSE req[t].op.then)
         \/ pc[t] = "extent" /\ pc'[t] \in {"extent", "fence"}
  BY <1>1 DEF Return, clwb_extent, Goto, TypeOK
<1>3. pc'[t] \in {"idle", "extent", "fence", "pmdk"}
  BY <1>1, <1>2 DEF GoodOp
<1>4. HwType'
  <2>1. HwType /\ (Clwb(t, uptr[t]) \/ UNCHANGED hw)
    BY <1>1 DEF TypeOK, HwType, Return, clwb_extent
  <2> QED
    BY <1>1, <2>1, DataType, HwStepType
<1>5. TypeOK'
  <2>1. uptr' \in [Thread -> Nat]
    <3>1. LineBase(req[t].d) \in Nat
      BY <1>1, LineBaseFacts
    <3>4. uptr[t] + CACHELINE_SIZE \in Nat
      BY <1>1 DEF TypeOK, CACHELINE_SIZE
    <3>2. CASE Return(t)
      BY <1>1, <3>1, <3>2 DEF Return, TypeOK
    <3>3. CASE clwb_extent(t)
      BY <1>1, <3>3, <3>4 DEF clwb_extent, TypeOK
    <3> QED
      BY <3>2, <3>3
  <2>2. pc' \in [Thread -> {"idle", "whole", "fill", "head", "loop", "tail", "clwb", "word",
                          "ret", "extent", "fence", "pmdk"}]
    BY <1>1, <1>3 DEF Return, clwb_extent, TypeOK, Goto
  <2> QED
    BY <1>1, <1>4, <2>1, <2>2 DEF Return, clwb_extent, TypeOK, HwType, bounds
<1>6. CursorOK(t)'
  BY <1>1, <1>2, <1>3 DEF LocalOK, CursorOK, busy
<1>7. OpOK(t)'
  BY <1>1, <1>2, <1>3 DEF LocalOK, OpOK, InLines
<1>8. CallOK(t)'
  BY <1>3 DEF CallOK, Filling
<1> QED
  BY <1>5, <1>6, <1>7, <1>8 DEF LocalOK

\* The end of an operation, and of the machine.
LEMMA LocalIdle ==
  ASSUME NEW u \in Thread, pc'[u] = "idle"
  PROVE  LocalOK(u)'
BY DEF LocalOK, CursorOK, OpOK, CallOK, busy, InLines, Filling

LEMMA LocalEnds ==
  ASSUME LocalInv, NEW t \in Thread, Fence(t) \/ PmdkPersist(t)
  PROVE  TypeOK' /\ pc'[t] = "idle"
<1>1. TypeOK
  BY DEF LocalInv
<1>2. pc'[t] = "idle"
  BY <1>1 DEF Fence, PmdkPersist, Goto, TypeOK
<1>3. HwType'
  BY <1>1 DEF TypeOK, HwType, Fence, PmdkPersist, Sfence
<1>4. may' \in [Addr -> SUBSET Int]
  <2>1. \A a \in Addr : New(req[t], a) \subseteq Int
    BY <1>1, AddrAssumption DEF New, C, TypeOK
  <2> QED
    BY <1>1, <2>1 DEF Fence, PmdkPersist, Promised, TypeOK
<1>5. TypeOK'
  BY <1>1, <1>3, <1>4 DEF Fence, PmdkPersist, Goto, TypeOK, HwType, local, bounds
<1> QED
  BY <1>2, <1>5

LEMMA LocalStep == LocalInv /\ [Next]_vars => LocalInv'
<1> SUFFICES ASSUME LocalInv, [Next]_vars PROVE LocalInv'
  OBVIOUS
<1>1. TypeOK /\ \A u \in Thread : LocalOK(u)
  BY DEF LocalInv
<1>2. ASSUME NEW t \in Thread, Step(t) \/ Call(t) PROVE LocalInv'
  <2>1. TypeOK' /\ LocalOK(t)'
    BY <1>2, LocalCall, LocalBegins, LocalFill, LocalGoes, LocalLineClwb, LocalStoreWord,
       LocalReturns, LocalEnds, LocalIdle DEF Step
  <2>2. \A u \in Thread : u # t => LocalOK(u)'
    BY <1>1, <1>2, OthersLocals, LocalFrame
  <2> QED
    BY <2>1, <2>2 DEF LocalInv
<1>3. CASE PowerFailure
  <2>1. \A u \in Thread : LocalOK(u)'
    BY <1>3, LocalIdle DEF PowerFailure
  <2>2. fails' \in 0 .. Workloads[load].max_failures /\ load' = load /\ left' = left
    BY <1>1, <1>3, BoundsAssumption DEF PowerFailure, TypeOK
  <2>3. pm' = pm /\ mem' = pm /\ pend' = [u \in Thread |-> {}]
    BY <1>3 DEF PowerFailure, LosePower
  <2>4. pc' = [u \in Thread |-> "idle"] /\ up' = FALSE /\ UNCHANGED <<local, may>>
    BY <1>3 DEF PowerFailure
  <2>5. TypeOK'
    BY <1>1, <2>2, <2>3, <2>4 DEF TypeOK, local
  <2> QED
    BY <2>1, <2>5 DEF LocalInv
<1>4. CASE Restart \/ Eviction \/ Terminated \/ UNCHANGED vars
  <2>1. \A u \in Thread : SameLocals(u)
    BY <1>4 DEF Restart, Eviction, Terminated, vars, local, SameLocals
  <2>2. HwType'
    BY <1>1, <1>4 DEF Restart, Eviction, Evict, Terminated, vars, hw, HwType, TypeOK
  <2>3. TypeOK'
    BY <1>1, <1>4, <2>2 DEF Restart, Eviction, Terminated, vars, local, bounds, HwType, TypeOK
  <2> QED
    BY <1>1, <2>1, <2>3, LocalFrame DEF LocalInv
<1> QED
  BY <1>2, <1>3, <1>4 DEF Next

\* Types are kept: in particular len does not fall below 0 and no byte outside
\* the mapping is ever handed to memcpy.
THEOREM NativeTypeCorrect == Spec => []TypeOK
<1>1. LocalInv => TypeOK
  BY DEF LocalInv
<1> QED
  BY <1>1, LocalInit, LocalStep, PTL DEF Spec

-----------------------------------------------------------------------------
(***************************************************************************)
(* Memory: what is filled, and what of it is still in the cache alone.     *)
(***************************************************************************)
DestOK(t) == FilledOK(t) /\ (busy(t) => SentOK(t))

MemInv == LocalInv /\ CallsOK /\ \A t \in Thread : DestOK(t)

LEMMA MemInvIsInv == MemInv <=> NativeInv
BY DEF MemInv, LocalInv, LocalOK, DestOK, NativeInv

\* What a step of t before the end of its call may do to memory.
Moved(t) ==
    /\ pm' = pm
    /\ \A a \in Addr : mem'[a] # mem[a] => a \in Target(req[t]) /\ mem'[a] \in New(req[t], a)
    /\ \A u \in Thread, a \in Addr :
          u # t /\ a \notin Target(req[t]) /\ a \in pend[u] => a \in pend'[u]

\* A call whose bytes nobody else stores keeps what holds of it.
LEMMA DestFrame ==
  ASSUME NEW u \in Thread, DestOK(u), SameLocals(u),
         busy(u) => \A a \in Target(req[u]) : mem'[a] = mem[a] /\ (a \in pend[u] => a \in pend'[u])
  PROVE  DestOK(u)'
<1> SUFFICES ASSUME busy(u)' PROVE FilledOK(u)' /\ SentOK(u)'
  BY DEF DestOK, FilledOK
<1>1. busy(u) /\ FilledOK(u) /\ SentOK(u)
  BY DEF DestOK, busy, SameLocals
<1>2. \A a \in Target(req[u]) : Done(u, a)' = Done(u, a)
  BY DEF Done, SameLocals
<1>3. \A a \in Target(req[u]) : mem'[a] = mem[a] /\ (a \in pend[u] => a \in pend'[u])
  BY <1>1
<1>4. FilledOK(u)'
  BY <1>1, <1>2, <1>3 DEF FilledOK, SameLocals
<1>5. Unsent(u)' \subseteq Unsent(u)
  BY <1>2, <1>3 DEF Unsent, SameLocals
<1>6. SentOK(u)'
  BY <1>1, <1>5 DEF SentOK, SameLocals
<1> QED
  BY <1>4, <1>6

LEMMA NewIsData ==
  ASSUME LocalInv, NEW t \in Thread, busy(t), NEW a \in Addr, req[t].op.fill \in {"cpy", "set", "words"}
  PROVE  Data(t)[a] \in New(req[t], a)
<1>1. a \in Int
  BY AddrAssumption
<1> QED
  BY <1>1, RequestFacts DEF Data, New

\* A store of t's data inside its target.
LEMMA StoreMoves ==
  ASSUME LocalInv, NEW t \in Thread, busy(t), NEW W, W \subseteq Target(req[t]),
         req[t].op.fill \in {"cpy", "set", "words"},
         Store(W, Data(t)) \/ NtStore(t, W, Data(t))
  PROVE  /\ Moved(t)
         /\ \A a \in W : mem'[a] \in New(req[t], a)
         /\ \A a \in Addr : a \in pend[t] /\ a \notin W => a \in pend'[t]
<1>1. pend \in [Thread -> SUBSET Addr] /\ W \subseteq Addr
  BY RequestFacts, RequestShape DEF LocalInv, TypeOK
<1>2. \A a \in W : Data(t)[a] \in New(req[t], a)
  BY <1>1, NewIsData
<1>3. \A a \in Addr : mem'[a] = IF a \in W THEN Data(t)[a] ELSE mem[a]
  BY DEF Store, NtStore
<1>4. \A u \in Thread, a \in Addr : a \notin W /\ a \in pend[u] => a \in pend'[u]
  BY <1>1 DEF Store, NtStore
<1>5. pm' = pm
  BY DEF Store, NtStore
<1> QED
  BY <1>1, <1>2, <1>3, <1>4, <1>5 DEF Moved

LEMMA ClwbMoves ==
  ASSUME TypeOK, NEW t \in Thread, NEW x, Clwb(t, x)
  PROVE  /\ Moved(t) /\ mem' = mem
         /\ \A a \in Addr : a \in pend'[t] <=> a \in pend[t] \/ a \in Line(x)
BY DEF TypeOK, Clwb, Moved

LEMMA HwMoves ==
  ASSUME NEW t \in Thread, UNCHANGED hw
  PROVE  Moved(t) /\ mem' = mem /\ pend' = pend
BY DEF hw, Moved

LEMMA FilledStep ==
  ASSUME NEW t \in Thread, FilledOK(t), busy(t), req'[t] = req[t],
         Target(req[t]) \subseteq Addr, Moved(t),
         \A a \in Target(req[t]) : Done(t, a)' => Done(t, a) \/ mem'[a] \in New(req[t], a)
  PROVE  FilledOK(t)'
<1>1. \A a \in Target(req[t]) : mem'[a] = mem[a] \/ mem'[a] \in New(req[t], a)
  BY DEF Moved
<1>2. \A a \in Target(req[t]) : Done(t, a)' => mem'[a] \in New(req[t], a)
  BY <1>1 DEF FilledOK
<1> QED
  BY <1>2 DEF FilledOK

LEMMA RangeFacts ==
  ASSUME NEW r, r.d \in Nat, r.n \in Nat
  PROVE  \A a : a \in Range(r) <=> a \in Int /\ r.d <= a /\ a < r.d + r.n
BY DEF Range

\* What every action needs to know of its own call.
LEMMA OwnFacts ==
  ASSUME MemInv, NEW t \in Thread, busy(t)
  PROVE  /\ LocalInv /\ TypeOK /\ LocalOK(t) /\ FilledOK(t) /\ SentOK(t)
         /\ req[t] \in Requests /\ GoodOp(req[t].op)
         /\ Target(req[t]) \subseteq Addr /\ \A a \in Target(req[t]) : a \in Nat
         /\ req[t].op.fill \in {"cpy", "set"} => Target(req[t]) = Range(req[t])
         /\ req[t].d \in Nat /\ req[t].n \in Nat /\ dest[t] \in Nat /\ len[t] \in Nat
         /\ cnt[t] \in Nat /\ i[t] \in Nat /\ uptr[t] \in Nat
         /\ dest[t] + len[t] = req[t].d + req[t].n
<1>1. LocalInv /\ DestOK(t)
  BY DEF MemInv
<1>2. req[t] \in Requests
  BY <1>1, RequestFacts
<1> QED
  BY <1>1, <1>2, RequestFacts, RequestShape DEF DestOK, LocalInv

LEMMA UnsentShrinks ==
  ASSUME NEW t \in Thread, req'[t] = req[t],
         \A a \in Target(req[t]) : (Done(t, a)' => Done(t, a)) /\ (a \in pend[t] => a \in pend'[t])
  PROVE  Unsent(t)' \subseteq Unsent(t)
BY DEF Unsent

\* memcpy or memset begins: nothing of it is filled yet.
LEMMA MemBegins ==
  ASSUME MemInv, NEW t \in Thread, Whole(t) \/ Head(t) \/ Loop(t) \/ Tail(t)
  PROVE  Moved(t) /\ DestOK(t)'
<1>1. busy(t) /\ pc[t] \in {"whole", "head", "loop", "tail"}
  BY DEF Whole, Head, Loop, Tail, busy
<1>2. /\ TypeOK /\ LocalOK(t) /\ FilledOK(t) /\ SentOK(t) /\ Target(req[t]) \subseteq Addr
      /\ dest[t] \in Nat /\ len[t] \in Nat /\ \A a \in Target(req[t]) : a \in Nat
  BY <1>1, OwnFacts
<1>3. PICK n \in Nat : /\ pc'[t] = "fill" /\ cnt'[t] = n /\ todo'[t] = dest[t] .. (dest[t] + n - 1)
                       /\ req'[t] = req[t] /\ dest'[t] = dest[t] /\ UNCHANGED hw
  <2>1. HeadCount(t) \in Nat
    BY <1>2 DEF HeadCount, CACHELINE_SIZE
  <2> QED
    BY <1>2, <2>1 DEF Whole, Head, Loop, Tail, Memcpy, Goto, TypeOK, CACHELINE_SIZE
<1>4. Moved(t) /\ mem' = mem /\ pend' = pend
  BY <1>3, HwMoves
<1>5. \A a \in Target(req[t]) : Done(t, a)' => Done(t, a)
  BY <1>1, <1>2, <1>3 DEF Done, Filling, Returned
<1>6. FilledOK(t)'
  BY <1>1, <1>2, <1>3, <1>4, <1>5, FilledStep
<1>7. Unsent(t)' \subseteq Unsent(t)
  BY <1>3, <1>4, <1>5, UnsentShrinks
<1>8. req[t].op.lines => Unsent(t) = {}
  BY <1>1, <1>2 DEF SentOK, LocalOK, OpOK
<1>9. SentOK(t)'
  BY <1>3, <1>7, <1>8 DEF SentOK
<1> QED
  BY <1>4, <1>6, <1>9 DEF DestOK

\* memcpy or memset stores some of what is left of it.
LEMMA MemFill ==
  ASSUME MemInv, NEW t \in Thread, Fill(t)
  PROVE  Moved(t) /\ DestOK(t)'
<1>1. busy(t) /\ pc[t] = "fill" /\ pc' = pc
  BY DEF Fill, busy
<1>2. /\ LocalInv /\ TypeOK /\ LocalOK(t) /\ FilledOK(t) /\ SentOK(t) /\ Target(req[t]) \subseteq Addr
      /\ dest[t] \in Nat /\ len[t] \in Nat /\ cnt[t] \in Nat /\ req[t].d \in Nat /\ req[t].n \in Nat
      /\ dest[t] + len[t] = req[t].d + req[t].n /\ \A a \in Target(req[t]) : a \in Nat
      /\ req[t].op.fill \in {"cpy", "set"} => Target(req[t]) = Range(req[t])
  BY <1>1, OwnFacts
<1>3. /\ req[t].op.fill \in {"cpy", "set"} /\ req[t].d <= dest[t] /\ cnt[t] <= len[t]
      /\ todo[t] \subseteq dest[t] .. (dest[t] + cnt[t] - 1)
      /\ req[t].op.lines => dest[t] + cnt[t] <= LineBase(dest[t]) + CACHELINE_SIZE
  BY <1>1, <1>2 DEF LocalOK, CursorOK, OpOK, CallOK, Filling
<1>4. todo[t] \subseteq Target(req[t])
  <2>1. Target(req[t]) = Range(req[t])
    BY <1>2, <1>3
  <2>2. \A a \in todo[t] : a \in Int /\ dest[t] <= a /\ a < dest[t] + cnt[t]
    BY <1>2, <1>3
  <2>3. \A a \in todo[t] : a \in Int /\ req[t].d <= a /\ a < req[t].d + req[t].n
    BY <1>2, <1>3, <2>2
  <2> QED
    BY <1>2, <2>1, <2>3, RangeFacts
<1>5. PICK W \in SUBSET todo[t] : /\ Store(W, Data(t)) \/ NtStore(t, W, Data(t))
                                  /\ todo' = [todo EXCEPT ![t] = @ \ W]
  BY DEF Fill
<1>6. /\ Moved(t) /\ \A a \in W : mem'[a] \in New(req[t], a)
      /\ \A a \in Addr : a \in pend[t] /\ a \notin W => a \in pend'[t]
  BY <1>1, <1>2, <1>3, <1>4, <1>5, StoreMoves
<1>7. /\ todo'[t] = todo[t] \ W /\ req'[t] = req[t] /\ dest'[t] = dest[t] /\ cnt'[t] = cnt[t]
  BY <1>2, <1>5 DEF Fill, TypeOK
<1>8. \A a \in Target(req[t]) : Done(t, a)' => Done(t, a) \/ a \in W
  BY <1>1, <1>7 DEF Done, Filling
<1>9. FilledOK(t)'
  BY <1>1, <1>2, <1>6, <1>7, <1>8, FilledStep
<1>10. Unsent(t)' \subseteq Unsent(t) \cup W
  BY <1>2, <1>6, <1>7, <1>8 DEF Unsent
<1>11. req[t].op.lines => W \subseteq Line(dest[t])
  <2>1. LineBase(dest[t]) \in Nat /\ LineBase(dest[t]) <= dest[t]
    BY <1>2, LineBaseFacts
  <2> QED
    BY <1>2, <1>3, <2>1 DEF Line, CACHELINE_SIZE
<1>12. SentOK(t)'
  BY <1>1, <1>2, <1>7, <1>10, <1>11 DEF SentOK, Filling
<1> QED
  BY <1>6, <1>9, <1>12 DEF DestOK

\* The function goes on to its next part: what was to be filled is filled.
LEMMA MemGoes ==
  ASSUME MemInv, NEW t \in Thread, FillEnd(t) \/ HeadSkip(t) \/ LoopEnd(t)
  PROVE  Moved(t) /\ DestOK(t)'
<1> USE DEF FillEnd, HeadSkip, LoopEnd
<1>1. busy(t)
  BY DEF busy
<1>2. /\ TypeOK /\ LocalOK(t) /\ FilledOK(t) /\ SentOK(t) /\ Target(req[t]) \subseteq Addr
      /\ dest[t] \in Nat /\ len[t] \in Nat /\ cnt[t] \in Nat /\ req[t].d \in Nat /\ req[t].n \in Nat
      /\ dest[t] + len[t] = req[t].d + req[t].n /\ \A a \in Target(req[t]) : a \in Nat
      /\ req[t].op.fill \in {"cpy", "set"} => Target(req[t]) = Range(req[t])
  BY <1>1, OwnFacts
<1>3. /\ req'[t] = req[t] /\ dest'[t] = dest[t] /\ cnt'[t] = cnt[t] /\ todo'[t] = todo[t]
      /\ UNCHANGED hw
  BY DEF local
<1>4. \/ pc[t] = "fill" /\ todo[t] = {} /\ pc'[t] = IF req[t].op.lines THEN "clwb" ELSE "ret"
      \/ pc[t] = "head" /\ pc'[t] = "loop"
      \/ pc[t] = "loop" /\ pc'[t] = IF len[t] = 0 THEN "ret" ELSE "tail"
  BY <1>2 DEF Goto, TypeOK
<1>5. Moved(t) /\ mem' = mem /\ pend' = pend
  BY <1>3, HwMoves
<1>6. /\ req[t].op.fill \in {"cpy", "set"}
      /\ pc[t] # "fill" => req[t].op.lines
      /\ pc[t] = "fill" /\ ~req[t].op.lines => cnt[t] = len[t]
  BY <1>2, <1>4 DEF LocalOK, OpOK, CallOK, Filling, InLines
<1>7. \A a \in Target(req[t]) : a < req[t].d + req[t].n
  BY <1>2, <1>6, RangeFacts
<1>8. \A a \in Target(req[t]) : Done(t, a)' => Done(t, a)
  BY <1>2, <1>3, <1>4, <1>6, <1>7 DEF Done, Filling, Returned
<1>9. FilledOK(t)'
  BY <1>1, <1>2, <1>3, <1>5, <1>8, FilledStep
<1>10. Unsent(t)' \subseteq Unsent(t)
  BY <1>3, <1>5, <1>8, UnsentShrinks
<1>11. SentOK(t)'
  BY <1>2, <1>3, <1>4, <1>6, <1>10 DEF SentOK, Filling
<1> QED
  BY <1>5, <1>9, <1>11 DEF DestOK

\* clwb: the line of dest, the only one with filled bytes not yet sent, is
\* sent; the rest of the destination begins behind it.
LEMMA MemLineClwb ==
  ASSUME MemInv, NEW t \in Thread, LineClwb(t)
  PROVE  Moved(t) /\ DestOK(t)'
<1>1. busy(t) /\ pc[t] = "clwb" /\ Clwb(t, dest[t])
  BY DEF LineClwb, busy
<1>2. /\ TypeOK /\ LocalOK(t) /\ FilledOK(t) /\ SentOK(t) /\ Target(req[t]) \subseteq Addr
      /\ dest[t] \in Nat /\ len[t] \in Nat /\ cnt[t] \in Nat /\ req[t].d \in Nat /\ req[t].n \in Nat
      /\ dest[t] + len[t] = req[t].d + req[t].n /\ \A a \in Target(req[t]) : a \in Nat
      /\ req[t].op.fill \in {"cpy", "set"} => Target(req[t]) = Range(req[t])
  BY <1>1, OwnFacts
<1>3. /\ Moved(t) /\ mem' = mem
      /\ \A a \in Addr : a \in pend'[t] <=> a \in pend[t] \/ a \in Line(dest[t])
  BY <1>1, <1>2, ClwbMoves
<1>4. /\ req[t].op.fill \in {"cpy", "set"} /\ req[t].op.lines /\ todo[t] = {}
      /\ after[t] = "ret" => cnt[t] = len[t]
  BY <1>1, <1>2 DEF LocalOK, OpOK, CallOK, Filling, InLines
<1>5. /\ req'[t] = req[t] /\ pc'[t] = after[t] /\ after[t] \in {"loop", "ret"}
      /\ after[t] = "loop" => dest'[t] = dest[t] + cnt[t]
  BY <1>2 DEF LineClwb, Goto, TypeOK
<1>6. \A a \in Target(req[t]) : a < req[t].d + req[t].n
  BY <1>2, <1>4, RangeFacts
<1>7. \A a \in Target(req[t]) : Done(t, a)' => Done(t, a)
  BY <1>1, <1>2, <1>4, <1>5, <1>6 DEF Done, Filling, Returned
<1>8. FilledOK(t)'
  BY <1>1, <1>2, <1>3, <1>5, <1>7, FilledStep
<1>9. Unsent(t)' = {}
  <2>1. Unsent(t) \subseteq Line(dest[t])
    BY <1>1, <1>2, <1>4 DEF SentOK, Filling
  <2> QED
    BY <1>2, <1>3, <1>5, <1>7, <2>1 DEF Unsent
<1>10. SentOK(t)'
  BY <1>5, <1>9 DEF SentOK, Filling
<1> QED
  BY <1>3, <1>8, <1>10 DEF DestOK

\* A byte of aep_native_store_dram's target that is stored by now, or will
\* be by the next step of its loop.
LEMMA WordsFacts ==
  ASSUME NEW r, r.d \in Nat, r.n \in Nat, NEW k \in Nat, k % 8 = 0
  PROVE  /\ \A a \in Words(r) : a < r.d + 8 * (k + 8) =>
                a < r.d + 8 * k \/ a \in (r.d + 8 * k) .. (r.d + 8 * k + 7)
         /\ k < r.n => (r.d + 8 * k) .. (r.d + 8 * k + 7) \subseteq Words(r)
         /\ k >= r.n => \A a \in Words(r) : a < r.d + 8 * k
<1>1. PICK m \in Nat : k = 8 * m
  <2>1. k = 8 * (k \div 8) /\ k \div 8 \in Nat
    OBVIOUS
  <2> QED
    BY <2>1
<1> DEFINE N == (r.n + 7) \div 8
<1>2. N \in Nat /\ 8 * N <= r.n + 7 /\ r.n <= 8 * N
  OBVIOUS
<1> HIDE DEF N
<1>3. Words(r) = UNION {(r.d + 64 * j) .. (r.d + 64 * j + 7) : j \in 0 .. (N - 1)}
  BY DEF Words, N
<1>4. \A a \in Words(r) : \E j \in 0 .. (N - 1) : a \in (r.d + 64 * j) .. (r.d + 64 * j + 7)
  BY <1>3
<1>5. ASSUME NEW a \in Words(r), a < r.d + 8 * (k + 8)
      PROVE  a < r.d + 8 * k \/ a \in (r.d + 8 * k) .. (r.d + 8 * k + 7)
  <2>1. PICK j \in 0 .. (N - 1) : a \in (r.d + 64 * j) .. (r.d + 64 * j + 7)
    BY <1>4
  <2>2. j \in Int /\ a \in Int /\ a >= r.d + 64 * j /\ a <= r.d + 64 * j + 7
    BY <1>2, <2>1
  <2> QED
    BY <1>1, <1>5, <2>2
<1>6. ASSUME k < r.n PROVE (r.d + 8 * k) .. (r.d + 8 * k + 7) \subseteq Words(r)
  <2>1. m \in 0 .. (N - 1)
    BY <1>1, <1>2, <1>6
  <2>2. r.d + 8 * k = r.d + 64 * m
    BY <1>1
  <2> QED
    BY <1>3, <2>1, <2>2
<1>7. ASSUME k >= r.n, NEW a \in Words(r) PROVE a < r.d + 8 * k
  <2>1. PICK j \in 0 .. (N - 1) : a \in (r.d + 64 * j) .. (r.d + 64 * j + 7)
    BY <1>4
  <2>2. j \in Int /\ a \in Int /\ j < N /\ a <= r.d + 64 * j + 7
    BY <1>2, <2>1
  <2>3. N <= m
    BY <1>1, <1>2, <1>7
  <2> QED
    BY <1>1, <1>2, <2>2, <2>3
<1> QED
  BY <1>5, <1>6, <1>7

LEMMA MemWord ==
  ASSUME MemInv, NEW t \in Thread, StoreWord(t) \/ WordEnd(t)
  PROVE  Moved(t) /\ DestOK(t)'
<1>1. busy(t) /\ pc[t] = "word"
  BY DEF StoreWord, WordEnd, busy
<1>2. /\ LocalInv /\ TypeOK /\ LocalOK(t) /\ FilledOK(t) /\ Target(req[t]) \subseteq Addr
      /\ req[t].d \in Nat /\ req[t].n \in Nat /\ i[t] \in Nat /\ GoodOp(req[t].op)
      /\ dest[t] + len[t] = req[t].d + req[t].n /\ dest[t] \in Nat /\ len[t] \in Nat
  BY <1>1, OwnFacts
<1>3. /\ req[t].op.fill = "words" /\ dest[t] = req[t].d /\ len[t] = req[t].n /\ i[t] % 8 = 0
  BY <1>1, <1>2 DEF LocalOK, OpOK, CursorOK
<1>4. Target(req[t]) = Words(req[t]) /\ ~req[t].op.lines
  BY <1>2, <1>3 DEF Target, GoodOp
<1> DEFINE W == (dest[t] + 8 * i[t]) .. (dest[t] + 8 * i[t] + 7)
<1>5. req'[t] = req[t] /\ dest'[t] = dest[t]
  BY DEF StoreWord, WordEnd, local
<1>6. CASE StoreWord(t)
  <2>1. pc'[t] = "word" /\ i'[t] = i[t] + 8 /\ i[t] < req[t].n /\ Store(W, Data(t))
    BY <1>2, <1>3, <1>6 DEF StoreWord, TypeOK
  <2>2. W \subseteq Target(req[t])
    BY <1>2, <1>3, <1>4, <2>1, WordsFacts
  <2>3. Moved(t) /\ \A a \in W : mem'[a] \in New(req[t], a)
    BY <1>1, <1>2, <1>3, <2>1, <2>2, StoreMoves
  <2>4. \A a \in Target(req[t]) : Done(t, a)' => Done(t, a) \/ a \in W
    <3>1. \A a \in Target(req[t]) : a < dest[t] + 8 * (i[t] + 8) => a < dest[t] + 8 * i[t] \/ a \in W
      <4>1. \A a \in Words(req[t]) : a < req[t].d + 8 * (i[t] + 8) =>
                a < req[t].d + 8 * i[t] \/ a \in (req[t].d + 8 * i[t]) .. (req[t].d + 8 * i[t] + 7)
        BY <1>2, <1>3, WordsFacts
      <4> QED
        BY <1>3, <1>4, <4>1
    <3>2. \A a : Done(t, a)' => a < dest'[t] + 8 * i'[t]
      <4>1. pc'[t] = "word"
        BY <2>1
      <4> QED
        BY <4>1 DEF Done, Filling, Returned
    <3>3. \A a : a < dest[t] + 8 * i[t] => Done(t, a)
      BY <1>1 DEF Done, Filling
    <3> QED
      BY <1>5, <2>1, <3>1, <3>2, <3>3
  <2>5. FilledOK(t)'
    BY <1>1, <1>2, <1>5, <2>3, <2>4, FilledStep
  <2>6. SentOK(t)'
    BY <1>4, <1>5, <2>1 DEF SentOK
  <2> QED
    BY <2>3, <2>5, <2>6 DEF DestOK
<1>7. CASE WordEnd(t)
  <2>1. pc'[t] = "ret" /\ i[t] >= req[t].n /\ UNCHANGED hw
    BY <1>2, <1>3, <1>7 DEF WordEnd, Goto, TypeOK
  <2>2. Moved(t) /\ mem' = mem
    BY <2>1, HwMoves
  <2>3. \A a \in Target(req[t]) : Done(t, a)
    <3>1. \A a \in Target(req[t]) : a < dest[t] + 8 * i[t]
      BY <1>2, <1>3, <1>4, <2>1, WordsFacts
    <3> QED
      BY <1>1, <3>1 DEF Done, Filling
  <2>4. FilledOK(t)'
    BY <1>1, <1>2, <1>5, <2>2, <2>3, FilledStep
  <2>5. SentOK(t)'
    BY <1>4, <1>5, <2>1 DEF SentOK
  <2> QED
    BY <2>2, <2>4, <2>5 DEF DestOK
<1> QED
  BY <1>6, <1>7

\* The function has returned: clwb_extent begins at the line of dest, a fence
\* comes only when the lines have been written back one by one.
LEMMA MemReturn ==
  ASSUME MemInv, NEW t \in Thread, Return(t)
  PROVE  Moved(t) /\ DestOK(t)'
<1>1. busy(t) /\ pc[t] = "ret" /\ UNCHANGED hw
  BY DEF Return, busy
<1>2. /\ TypeOK /\ FilledOK(t) /\ SentOK(t) /\ Target(req[t]) \subseteq Addr
      /\ req[t].d \in Nat /\ req[t].n \in Nat /\ GoodOp(req[t].op)
  BY <1>1, OwnFacts
<1>3. Moved(t) /\ mem' = mem /\ pend' = pend
  BY <1>1, HwMoves
<1>4. /\ req'[t] = req[t] /\ uptr'[t] = LineBase(req[t].d)
      /\ pc'[t] = IF req[t].op.then = "nothing" THEN "idle" ELSE req[t].op.then
  BY <1>2 DEF Return, Goto, TypeOK
<1>5. \A a \in Target(req[t]) : Done(t, a)' => Done(t, a)
  BY <1>1 DEF Done, Returned, Filling
<1>6. FilledOK(t)'
  BY <1>1, <1>2, <1>3, <1>4, <1>5, FilledStep
<1>7. Unsent(t)' \subseteq Unsent(t)
  BY <1>3, <1>4, <1>5, UnsentShrinks
<1>8. pc'[t] = "fence" => Unsent(t)' = {}
  BY <1>1, <1>2, <1>4, <1>7 DEF SentOK, GoodOp
<1>9. pc'[t] \in {"idle", "extent", "fence", "pmdk"}
  BY <1>2, <1>4 DEF GoodOp
<1>10. uptr'[t] % CACHELINE_SIZE = 0 /\ \A a \in ExtentLines(req[t]) : a >= uptr'[t]
  <2>1. LineBase(req[t].d) \in Nat /\ LineBase(req[t].d) % 64 = 0
    BY <1>2, LineBaseFacts
  <2>2. LineBase(req[t].d + req[t].n - 1) \in Int
    BY <1>2 DEF LineBase, CACHELINE_SIZE
  <2> QED
    BY <1>4, <2>1, <2>2 DEF ExtentLines, CACHELINE_SIZE
<1>11. SentOK(t)'
  BY <1>4, <1>8, <1>9, <1>10 DEF SentOK, Filling
<1> QED
  BY <1>3, <1>6, <1>11 DEF DestOK

\* Behind the last line that clwb_extent visits there is nothing to save.
LEMMA ExtentEnd ==
  ASSUME NEW r, r.d \in Nat, r.n \in Nat, r.n # 0, NEW x \in Nat, x % 64 = 0, x >= r.d + r.n,
         NEW a \in ExtentLines(r)
  PROVE  a < x
<1>1. r.d + r.n - 1 \in Nat
  OBVIOUS
<1>2. LineBase(r.d + r.n - 1) \in Nat /\ LineBase(r.d + r.n - 1) % 64 = 0 /\ LineBase(r.d + r.n - 1) <= r.d + r.n - 1
  BY <1>1, LineBaseFacts
<1>3. a \in Int /\ a <= LineBase(r.d + r.n - 1) + 63
  <2>1. LineBase(r.d) \in Nat
    BY LineBaseFacts
  <2> QED
    BY <1>2, <2>1 DEF ExtentLines, CACHELINE_SIZE
<1> DEFINE b == LineBase(r.d + r.n - 1)
<1>4. b \in Nat /\ b % 64 = 0 /\ b < x /\ a <= b + 63
  BY <1>2, <1>3
<1> HIDE DEF b
<1>5. b + 64 <= x
  BY <1>4
<1> QED
  BY <1>3, <1>4, <1>5

LEMMA MemExtent ==
  ASSUME MemInv, NEW t \in Thread, clwb_extent(t)
  PROVE  Moved(t) /\ DestOK(t)'
<1>1. busy(t) /\ pc[t] = "extent"
  BY DEF clwb_extent, busy
<1>2. /\ TypeOK /\ LocalOK(t) /\ FilledOK(t) /\ SentOK(t) /\ Target(req[t]) \subseteq Addr
      /\ req[t].d \in Nat /\ req[t].n \in Nat /\ GoodOp(req[t].op) /\ uptr[t] \in Nat
      /\ \A a \in Target(req[t]) : a \in Nat
  BY <1>1, OwnFacts
<1>3. uptr[t] % 64 = 0 /\ \A a \in Unsent(t) \cap ExtentLines(req[t]) : a >= uptr[t]
  BY <1>1, <1>2 DEF SentOK, CACHELINE_SIZE
<1>4. req'[t] = req[t] /\ ~req[t].op.lines
  <2>1. req[t].op.then = "extent"
    BY <1>1, <1>2 DEF LocalOK, OpOK
  <2> QED
    BY <1>2, <2>1 DEF clwb_extent, GoodOp
<1>5. \A a : Done(t, a)
  BY <1>1 DEF Done, Returned, Filling
<1>6. CASE uptr[t] < req[t].d + req[t].n
  <2>1. Clwb(t, uptr[t]) /\ uptr'[t] = uptr[t] + 64 /\ pc'[t] = "extent"
    BY <1>1, <1>2, <1>6 DEF clwb_extent, TypeOK, CACHELINE_SIZE
  <2>2. /\ Moved(t) /\ mem' = mem
        /\ \A a \in Addr : a \in pend'[t] <=> a \in pend[t] \/ a \in Line(uptr[t])
    BY <1>2, <2>1, ClwbMoves
  <2>3. FilledOK(t)'
    BY <1>1, <1>2, <1>4, <1>5, <2>2, FilledStep
  <2>4. Unsent(t)' \subseteq Unsent(t)
    BY <1>2, <1>4, <1>5, <2>2, UnsentShrinks
  <2>5. \A a \in Unsent(t)' \cap ExtentLines(req[t]) : a >= uptr'[t]
    <3>1. Line(uptr[t]) = uptr[t] .. (uptr[t] + 63)
      BY <1>2, <1>3 DEF Line, LineBase, CACHELINE_SIZE
    <3>2. \A a \in Unsent(t)' : a \in Nat /\ a \notin Line(uptr[t])
      BY <1>2, <1>4, <2>2 DEF Unsent
    <3> QED
      BY <1>2, <1>3, <2>1, <2>4, <3>1, <3>2
  <2>6. uptr'[t] % CACHELINE_SIZE = 0
    BY <1>2, <1>3, <2>1 DEF CACHELINE_SIZE
  <2>7. SentOK(t)'
    BY <1>4, <2>1, <2>5, <2>6 DEF SentOK
  <2> QED
    BY <2>2, <2>3, <2>7 DEF DestOK
<1>7. CASE ~(uptr[t] < req[t].d + req[t].n)
  <2>1. pc'[t] = "fence" /\ UNCHANGED hw
    BY <1>2, <1>7 DEF clwb_extent, Goto, TypeOK
  <2>2. Moved(t) /\ mem' = mem /\ pend' = pend
    BY <2>1, HwMoves
  <2>3. FilledOK(t)'
    BY <1>1, <1>2, <1>4, <1>5, <2>2, FilledStep
  <2>4. Unsent(t)' \subseteq Unsent(t)
    BY <1>4, <1>5, <2>2, UnsentShrinks
  <2>5. Unsent(t)' \cap Saved(req[t]) = {}
    <3> SUFFICES ASSUME NEW a \in Unsent(t)', a \in Saved(req[t]) PROVE FALSE
      OBVIOUS
    <3>1. req[t].n # 0 /\ a \in ExtentLines(req[t]) /\ a \in Target(req[t])
      BY DEF Saved
    <3>2. a >= uptr[t] /\ a \in Nat
      BY <1>2, <1>3, <2>4, <3>1
    <3>3. a < uptr[t]
      BY <1>2, <1>3, <1>7, <3>1, ExtentEnd
    <3> QED
      BY <1>2, <3>2, <3>3
  <2>6. SentOK(t)'
    BY <1>4, <2>1, <2>5 DEF SentOK, Filling
  <2> QED
    BY <2>2, <2>3, <2>6 DEF DestOK
<1> QED
  BY <1>6, <1>7

\* All steps of a call but its last.
Ends(t) == Fence(t) \/ PmdkPersist(t)

LEMMA MemInstruction ==
  ASSUME MemInv, NEW t \in Thread, Step(t), ~Ends(t)
  PROVE  /\ busy(t) /\ up /\ up' = up /\ Moved(t) /\ DestOK(t)' /\ may' = may /\ req' = req
<1>1. busy(t) /\ up /\ up' = up /\ may' = may /\ req' = req
  BY DEF Step, Ends, Whole, Fill, FillEnd, Head, HeadSkip, Loop, LoopEnd, Tail, LineClwb,
     StoreWord, WordEnd, Return, clwb_extent, Memcpy, local, busy
<1> QED
  BY <1>1, MemBegins, MemFill, MemGoes, MemLineClwb, MemWord, MemReturn, MemExtent DEF Step, Ends

\* sfence and PMDK's drain leave alone what the other threads have sent.
LEMMA MemEnds ==
  ASSUME MemInv, NEW t \in Thread, Ends(t)
  PROVE  /\ busy(t) /\ up /\ up' = up /\ req' = req /\ pc'[t] = "idle" /\ mem' = mem
         /\ \A u \in Thread : u # t => pend'[u] = pend[u]
<1>1. TypeOK
  BY DEF MemInv, LocalInv
<1> QED
  BY <1>1 DEF Ends, Fence, PmdkPersist, Sfence, Goto, TypeOK, local, busy

LEMMA DestIdle ==
  ASSUME NEW u \in Thread, pc'[u] = "idle"
  PROVE  DestOK(u)'
BY DEF DestOK, FilledOK, busy

\* A call begins: none of its bytes are filled, and it shares none with a
\* running call.
LEMMA MemCall ==
  ASSUME MemInv, NEW t \in Thread, Call(t)
  PROVE  /\ UNCHANGED hw /\ up /\ up' = up /\ DestOK(t)'
         /\ \A u \in Thread : u # t /\ busy(u) => Target(req[u]) \cap Target(req'[t]) = {}
<1>1. PICK r \in Workloads[load].requests : Begin(t, r)
  BY DEF Call
<1>2. LocalInv /\ TypeOK /\ r \in Requests
  BY DEF Requests, MemInv, LocalInv, TypeOK
<1>3. /\ r.d \in Nat /\ r.n \in Nat /\ GoodOp(r.op) /\ \A a \in Target(r) : a \in Nat
      /\ r.op.fill \in {"cpy", "set"} => Target(r) = Range(r)
  BY <1>2, RequestShape
<1> DEFINE to == IF r.op.fill = "none" THEN "ret" ELSE IF r.op.fill = "words" THEN "word"
                 ELSE IF r.op.lines THEN "head" ELSE "whole"
<1>4. /\ pc'[t] = to /\ req'[t] = r /\ dest'[t] = r.d /\ i'[t] = 0 /\ UNCHANGED hw /\ up' = up
  BY <1>1, <1>2 DEF Begin, Goto, TypeOK
<1>5. \A a \in Target(r) : ~Done(t, a)'
  <2>1. CASE r.op.fill = "none"
    BY <2>1 DEF Target
  <2>2. CASE r.op.fill = "words"
    <3>1. \A a \in Target(r) : a >= r.d
      <4>1. Target(r) = Words(r)
        BY <2>2 DEF Target
      <4>2. \A a \in Words(r) : \E j \in 0 .. ((r.n + 7) \div 8 - 1) : a \in (r.d + 64 * j) .. (r.d + 64 * j + 7)
        BY DEF Words
      <4> QED
        BY <1>3, <4>1, <4>2
    <3>2. \A a : Done(t, a)' => a < dest'[t] + 8 * i'[t]
      <4>1. pc'[t] = "word"
        BY <1>4, <2>2
      <4> QED
        BY <4>1 DEF Done, Filling, Returned
    <3> QED
      BY <1>3, <1>4, <3>1, <3>2
  <2>3. CASE r.op.fill \in {"cpy", "set"}
    <3>1. \A a \in Target(r) : a >= r.d
      BY <1>3, <2>3, RangeFacts
    <3>2. pc'[t] \in {"head", "whole"}
      BY <1>4, <2>3
    <3>3. \A a : Done(t, a)' => a < dest'[t]
      BY <3>2 DEF Done, Filling, Returned
    <3> QED
      BY <1>3, <1>4, <3>1, <3>3
  <2> QED
    BY <1>3, <2>1, <2>2, <2>3 DEF GoodOp
<1>6. FilledOK(t)'
  BY <1>4, <1>5 DEF FilledOK
<1>7. Unsent(t)' = {}
  BY <1>4, <1>5 DEF Unsent
<1>8. SentOK(t)'
  BY <1>4, <1>7 DEF SentOK
<1>9. \A u \in Thread : u # t /\ busy(u) => Target(req[u]) \cap Target(r) = {}
  BY <1>1 DEF Begin, busy
<1> QED
  BY <1>4, <1>6, <1>8, <1>9 DEF DestOK, Call

LEMMA MemInit == Init => MemInv
<1> SUFFICES ASSUME Init PROVE MemInv
  OBVIOUS
<1>1. \A t \in Thread : ~busy(t)
  BY DEF Init, busy
<1>2. \A t \in Thread : DestOK(t)
  BY <1>1 DEF DestOK, FilledOK
<1>3. CallsOK
  BY <1>1 DEF CallsOK
<1> QED
  BY <1>2, <1>3, LocalInit DEF MemInv

LEMMA MemStep == MemInv /\ [Next]_vars => MemInv'
<1> SUFFICES ASSUME MemInv, [Next]_vars PROVE MemInv'
  OBVIOUS
<1>1. LocalInv /\ TypeOK /\ CallsOK /\ \A u \in Thread : DestOK(u)
  BY DEF MemInv, LocalInv
<1>2. LocalInv'
  BY <1>1, LocalStep
<1>3. \A u \in Thread : busy(u) => Target(req[u]) \subseteq Addr
  BY OwnFacts
<1>4. ASSUME NEW t \in Thread, Step(t) PROVE MemInv'
  <2>1. \A u \in Thread : u # t => SameLocals(u)
    BY <1>1, <1>4, OthersLocals
  <2>2. /\ busy(t) /\ up /\ up' = up /\ req' = req /\ DestOK(t)'
        /\ \A u \in Thread, a \in Addr : u # t /\ a \notin Target(req[t]) =>
              mem'[a] = mem[a] /\ (a \in pend[u] => a \in pend'[u])
    <3>1. CASE Ends(t)
      BY <3>1, MemEnds, DestIdle
    <3>2. CASE ~Ends(t)
      BY <1>4, <3>2, MemInstruction DEF Moved
    <3> QED
      BY <3>1, <3>2
  <2>3. \A u \in Thread : u # t => DestOK(u)'
    <3> SUFFICES ASSUME NEW u \in Thread, u # t PROVE DestOK(u)'
      OBVIOUS
    <3>1. busy(u) => Target(req[u]) \cap Target(req[t]) = {}
      BY <1>1, <2>2 DEF CallsOK
    <3>2. busy(u) => \A a \in Target(req[u]) : mem'[a] = mem[a] /\ (a \in pend[u] => a \in pend'[u])
      BY <1>3, <2>2, <3>1
    <3> QED
      BY <1>1, <2>1, <3>2, DestFrame
  <2>4. CallsOK'
    BY <1>1, <2>1, <2>2 DEF CallsOK, SameLocals, busy
  <2> QED
    BY <1>2, <2>2, <2>3, <2>4 DEF MemInv
<1>5. ASSUME NEW t \in Thread, Call(t) PROVE MemInv'
  <2>1. \A u \in Thread : u # t => SameLocals(u)
    BY <1>1, <1>5, OthersLocals
  <2>2. /\ mem' = mem /\ pend' = pend /\ up /\ up' = up /\ DestOK(t)'
        /\ \A u \in Thread : u # t /\ busy(u) => Target(req[u]) \cap Target(req'[t]) = {}
    BY <1>5, MemCall DEF hw
  <2>3. \A u \in Thread : u # t => DestOK(u)'
    BY <1>1, <2>1, <2>2, DestFrame
  <2>4. CallsOK'
    BY <1>1, <2>1, <2>2 DEF CallsOK, SameLocals, busy
  <2> QED
    BY <1>2, <2>2, <2>3, <2>4 DEF MemInv
<1>6. CASE PowerFailure
  <2>1. \A u \in Thread : pc'[u] = "idle"
    BY <1>6 DEF PowerFailure
  <2>2. CallsOK' /\ \A u \in Thread : DestOK(u)'
    BY <2>1, DestIdle DEF CallsOK, busy
  <2> QED
    BY <1>2, <2>2 DEF MemInv
<1>7. CASE Restart \/ Eviction \/ Terminated \/ UNCHANGED vars
  <2>1. mem' = mem /\ pend' = pend /\ req' = req /\ pc' = pc /\ \A u \in Thread : SameLocals(u)
    BY <1>7 DEF Restart, Eviction, Evict, Terminated, vars, hw, local, SameLocals
  <2>2. \A u \in Thread : DestOK(u)'
    BY <1>1, <2>1, DestFrame
  <2>3. ~up' => ~up
    BY <1>7 DEF Restart, Eviction, Terminated, vars
  <2>4. CallsOK'
    BY <1>1, <2>1, <2>3 DEF CallsOK, busy
  <2> QED
    BY <1>2, <2>2, <2>4 DEF MemInv
<1> QED
  BY <1>4, <1>5, <1>6, <1>7 DEF Next

\* The invariant, for every mapping, every set of requests and any number of
\* threads: cpy_native_flush and memset_native_flush leave no filled byte
\* behind that is neither in the line of dest nor sent, and clwb_extent comes
\* to every line that aep_native_store_dram or memcpy filled in the range.
THEOREM NativeInvariantHolds == Spec => []NativeInv
<1>1. MemInv => NativeInv
  BY MemInvIsInv
<1> QED
  BY <1>1, MemInit, MemStep, PTL DEF Spec

-----------------------------------------------------------------------------
(***************************************************************************)
(* NativeCopy implements DurableWrite.                                     *)
(***************************************************************************)
absvars == <<pm, mem, may, Running>>

LEMMA RefineInit == Init => Abs!Init
<1> SUFFICES ASSUME Init PROVE Abs!Init
  OBVIOUS
<1>1. Running = [t \in Thread |-> {}]
  BY DEF Running, Init
<1> QED
  BY <1>1 DEF Init, Abs!Init

\* Nobody starts or ends a call.
LEMMA RunningSame ==
  ASSUME \A u \in Thread : (pc'[u] = "idle" <=> pc[u] = "idle") /\ (busy(u) => req'[u] = req[u])
  PROVE  Running' = Running
BY DEF Running, busy

LEMMA RunningEnds ==
  ASSUME NEW t \in Thread, pc'[t] = "idle", busy(t),
         \A u \in Thread : u # t => pc'[u] = pc[u] /\ req'[u] = req[u]
  PROVE  Running[t] = {req[t]} /\ Running' = [Running EXCEPT ![t] = {}]
BY DEF Running, busy

LEMMA RunningStarts ==
  ASSUME NEW t \in Thread, NEW r, pc[t] = "idle", pc'[t] # "idle", req'[t] = r,
         \A u \in Thread : u # t => pc'[u] = pc[u] /\ req'[u] = req[u]
  PROVE  Running[t] = {} /\ Running' = [Running EXCEPT ![t] = {r}]
BY DEF Running

\* When the copy or fill is done the whole target has its new value, and at
\* the fence what is to be saved is on its way to the media.
LEMMA Returns ==
  ASSUME MemInv, NEW t \in Thread, pc[t] \in Returned
  PROVE  /\ \A a \in Target(req[t]) : a \in Addr /\ mem[a] \in New(req[t], a)
         /\ Saved(req[t]) \subseteq Target(req[t])
         /\ pc[t] = "fence" => Saved(req[t]) \subseteq pend[t]
<1>1. busy(t)
  BY DEF busy, Returned
<1>2. FilledOK(t) /\ SentOK(t) /\ Target(req[t]) \subseteq Addr
  BY <1>1, OwnFacts
<1>3. \A a : Done(t, a)
  BY DEF Done, Returned, Filling
<1>4. \A a \in Target(req[t]) : mem[a] \in New(req[t], a)
  BY <1>1, <1>2, <1>3 DEF FilledOK
<1>5. Saved(req[t]) \subseteq Target(req[t])
  BY DEF Saved
<1>6. pc[t] = "fence" => Saved(req[t]) \subseteq pend[t]
  BY <1>2, <1>3, <1>5 DEF SentOK, Unsent
<1> QED
  BY <1>2, <1>4, <1>5, <1>6

LEMMA RefineInstruction ==
  ASSUME MemInv, MemInv', NEW t \in Thread, Step(t), ~Ends(t), busy(t)'
  PROVE  Abs!Write(t)
<1>1. Moved(t) /\ busy(t) /\ may' = may /\ req' = req
  BY MemInstruction
<1>2. \A u \in Thread : u # t => pc'[u] = pc[u]
  BY OthersLocals DEF MemInv, LocalInv, SameLocals
<1>3. Running' = Running /\ Running[t] = {req[t]}
  BY <1>1, <1>2, RunningSame DEF busy, Running
<1>4. pm' = pm /\ \A a \in Addr : mem'[a] # mem[a] => a \in Target(req[t]) /\ mem'[a] \in New(req[t], a)
  BY <1>1 DEF Moved
<1>5. mem' = [a \in Addr |-> mem'[a]]
  BY DEF MemInv, LocalInv, TypeOK
<1> QED
  BY <1>1, <1>3, <1>4, <1>5 DEF Abs!Write

\* An operation that promises nothing ends where its function returns.
LEMMA OnlyReturn ==
  ASSUME MemInv, NEW t \in Thread, Step(t), ~Ends(t), ~busy(t)'
  PROVE  Return(t)
<1> USE DEF Goto, busy
<1>1. TypeOK
  BY DEF MemInv, LocalInv
<1>2. ~(Whole(t) \/ Fill(t) \/ FillEnd(t) \/ Head(t) \/ HeadSkip(t))
  BY <1>1 DEF Whole, Fill, FillEnd, Head, HeadSkip, Memcpy, TypeOK
<1>3. ~(Loop(t) \/ LoopEnd(t) \/ Tail(t) \/ LineClwb(t))
  BY <1>1 DEF Loop, LoopEnd, Tail, LineClwb, Memcpy, TypeOK
<1>4. ~(StoreWord(t) \/ WordEnd(t) \/ clwb_extent(t))
  BY <1>1 DEF StoreWord, WordEnd, clwb_extent, TypeOK
<1> QED
  BY <1>2, <1>3, <1>4 DEF Step, Ends

LEMMA RefineReturn ==
  ASSUME MemInv, NEW t \in Thread, Return(t), ~busy(t)'
  PROVE  Abs!Finish(t)
<1>1. TypeOK /\ GoodOp(req[t].op)
  BY RequestFacts DEF MemInv, LocalInv
<1>2. /\ busy(t) /\ pc[t] = "ret" /\ pc'[t] = "idle" /\ pm' = pm /\ mem' = mem /\ may' = may
      /\ \A u \in Thread : u # t => pc'[u] = pc[u] /\ req'[u] = req[u]
  BY <1>1 DEF Return, busy, Goto, hw, TypeOK
<1>3. req[t].op.then = "nothing"
  BY <1>1, <1>2 DEF Return, Goto, TypeOK, GoodOp
<1>4. \A a \in Target(req[t]) : mem[a] \in New(req[t], a)
  BY <1>2, Returns DEF Returned
<1>5. Running[t] = {req[t]} /\ Running' = [Running EXCEPT ![t] = {}]
  BY <1>2, RunningEnds
<1>6. pm' = [a \in Addr |-> pm'[a]] /\ may' = [a \in Addr |-> may[a]]
  BY <1>1, <1>2 DEF TypeOK
<1>7. Saved(req[t]) = {}
  BY <1>3 DEF Saved
<1> QED
  BY <1>2, <1>4, <1>5, <1>6, <1>7 DEF Abs!Finish, Abs!TakesOver

\* sfence and PMDK's drain: all that the operation saves is on the media.
LEMMA RefineEnds ==
  ASSUME MemInv, NEW t \in Thread, Ends(t)
  PROVE  Abs!Finish(t)
<1>1. TypeOK /\ LocalOK(t) /\ GoodOp(req[t].op)
  BY RequestFacts DEF MemInv, LocalInv
<1>2. busy(t) /\ req' = req /\ pc'[t] = "idle" /\ mem' = mem
  BY MemEnds
<1>3. /\ \A u \in Thread : u # t => pc'[u] = pc[u]
      /\ may' = [a \in Addr |-> IF a \in Saved(req[t]) THEN New(req[t], a) ELSE may[a]]
      /\ pm' = [a \in Addr |-> pm'[a]] /\ \A a \in Addr : pm'[a] \in {pm[a], mem[a]}
  BY <1>1 DEF Ends, Fence, PmdkPersist, Sfence, Promised, Goto, TypeOK
<1>4. pc[t] \in Returned
  BY DEF Ends, Fence, PmdkPersist, Returned
<1>5. \A a \in Target(req[t]) : a \in Addr /\ mem[a] \in New(req[t], a)
  BY <1>4, Returns
<1>6. \A a \in Saved(req[t]) : a \in Target(req[t]) /\ pm'[a] = mem[a]
  <2>1. Saved(req[t]) \subseteq Target(req[t])
    BY <1>4, Returns
  <2>2. CASE Fence(t)
    <3>1. Saved(req[t]) \subseteq pend[t] /\ pm' = [a \in Addr |-> IF a \in pend[t] THEN mem[a] ELSE pm[a]]
      BY <1>4, <2>2, Returns DEF Fence, Sfence
    <3> QED
      BY <1>5, <2>1, <3>1
  <2>3. CASE PmdkPersist(t)
    <3>1. req[t].op.fill \in {"cpy", "set"}
      BY <1>1, <2>3 DEF PmdkPersist, LocalOK, OpOK, GoodOp
    <3>2. Target(req[t]) = Range(req[t])
      BY <1>2, <3>1, OwnFacts
    <3> QED
      BY <1>5, <2>1, <2>3, <3>2 DEF PmdkPersist
  <2> QED
    BY <2>1, <2>2, <2>3 DEF Ends
<1>7. \A a \in Saved(req[t]) : pm'[a] \in New(req[t], a)
  BY <1>5, <1>6
<1>8. Running[t] = {req[t]} /\ Running' = [Running EXCEPT ![t] = {}]
  BY <1>2, <1>3, RunningEnds
<1> QED
  BY <1>2, <1>3, <1>5, <1>7, <1>8 DEF Abs!Finish, Abs!TakesOver

LEMMA RefineCall ==
  ASSUME MemInv, NEW t \in Thread, Call(t)
  PROVE  \E r \in Requests : Abs!Start(t, r)
<1>1. TypeOK
  BY DEF MemInv, LocalInv
<1>2. PICK r \in Requests : Begin(t, r)
  BY <1>1 DEF Call, Requests, TypeOK
<1>3. /\ pc[t] = "idle" /\ pc'[t] # "idle" /\ req'[t] = r /\ pm' = pm /\ mem' = mem
      /\ \A u \in Thread : u # t => pc'[u] = pc[u] /\ req'[u] = req[u]
      /\ \A u \in Thread \ {t} : pc[u] # "idle" => Target(req[u]) \cap Target(r) = {}
      /\ may' = [a \in Addr |-> IF a \in Target(r) THEN may[a] \cup New(r, a) ELSE may[a]]
  BY <1>1, <1>2 DEF Call, Begin, Goto, hw, TypeOK
<1>4. Running[t] = {} /\ Running' = [Running EXCEPT ![t] = {r}]
  BY <1>3, RunningStarts
<1>5. \A u \in Thread \ {t} : \A q \in Running[u] : Target(q) \cap Target(r) = {}
  BY <1>3 DEF Running
<1>6. Abs!Start(t, r)
  BY <1>3, <1>4, <1>5 DEF Abs!Start
<1> QED
  BY <1>2, <1>6

\* Every step of NativeCopy is a step of DurableWrite or one it does not see.
LEMMA RefineStep == MemInv /\ MemInv' /\ [Next]_vars => [Abs!Next]_(Abs!vars)
<1> SUFFICES ASSUME MemInv, MemInv', [Next]_vars
             PROVE  Abs!Next \/ UNCHANGED absvars
  BY DEF Abs!vars, absvars
<1>1. ASSUME NEW t \in Thread, Step(t) PROVE Abs!Next
  <2>1. CASE Ends(t)
    BY <2>1, RefineEnds DEF Abs!Next
  <2>2. CASE ~Ends(t) /\ busy(t)'
    BY <1>1, <2>2, RefineInstruction DEF Abs!Next
  <2>3. CASE ~Ends(t) /\ ~busy(t)'
    <3>1. Return(t)
      BY <1>1, <2>3, OnlyReturn
    <3> QED
      BY <2>3, <3>1, RefineReturn DEF Abs!Next
  <2> QED
    BY <2>1, <2>2, <2>3
<1>2. ASSUME NEW t \in Thread, Call(t) PROVE Abs!Next
  BY <1>2, RefineCall DEF Abs!Next
<1>3. CASE PowerFailure
  <2>1. Running' = [t \in Thread |-> {}]
    BY <1>3 DEF PowerFailure, Running
  <2>2. Abs!LosePower
    BY <1>3, <2>1 DEF PowerFailure, LosePower, Abs!LosePower
  <2> QED
    BY <2>2 DEF Abs!Next
<1>4. CASE Eviction
  <2>1. Running' = Running
    BY <1>4 DEF Eviction, Running, local
  <2>2. pm' = [a \in Addr |-> pm'[a]] /\ \A a \in Addr : pm'[a] \in {pm[a], mem[a]}
    BY <1>4 DEF Eviction, Evict
  <2>3. Abs!WriteBack
    BY <1>4, <2>1, <2>2 DEF Eviction, Evict, Abs!WriteBack, Abs!TakesOver
  <2> QED
    BY <2>3 DEF Abs!Next
<1>5. CASE Restart \/ Terminated \/ UNCHANGED vars
  BY <1>5 DEF Restart, Terminated, vars, hw, local, Running, absvars
<1> QED
  BY <1>1, <1>2, <1>3, <1>4, <1>5 DEF Next

\* Refinement: whatever is called, wherever the power fails and whatever the
\* cache evicts, the native and PMDK operations of aep_study.h store only in
\* their destination, and what an operation has fenced or drained is on the
\* media when it ends.
THEOREM NativeRefinement == Spec => NativeImplementsDurableWrite
BY RefineInit, MemInit, MemStep, RefineStep, PTL DEF Spec, NativeImplementsDurableWrite

\* aep_native_store_dram stores words eight words apart, so it fills the range
\* it is asked for only up to its first word; memcpy, memset and PMDK fill it.
THEOREM NativeFillsAccessSize ==
  (\A r \in Requests : r.op.fill = "words" => r.n <= 8) => (Spec => []FillsAccessSize)
<1> SUFFICES ASSUME \A r \in Requests : r.op.fill = "words" => r.n <= 8
             PROVE  Spec => []FillsAccessSize
  OBVIOUS
<1>1. MemInv => FillsAccessSize
  <2> SUFFICES ASSUME MemInv, NEW t \in Thread,
                      pc[t] \in {"ret", "extent", "fence", "pmdk"}, req[t].op.fill # "none",
                      NEW a \in Range(req[t])
               PROVE  mem[a] \in New(req[t], a)
    BY DEF FillsAccessSize
  <2>1. pc[t] \in Returned /\ busy(t)
    BY DEF Returned, busy
  <2>2. /\ req[t] \in Requests /\ req[t].d \in Nat /\ req[t].n \in Nat /\ GoodOp(req[t].op)
        /\ req[t].op.fill \in {"cpy", "set"} => Target(req[t]) = Range(req[t])
    BY <2>1, OwnFacts
  <2>3. a \in Target(req[t])
    <3>1. CASE req[t].op.fill = "words"
      <4>1. a \in Int /\ req[t].d <= a /\ a < req[t].d + req[t].n /\ req[t].n <= 8
        BY <2>2, <3>1, RangeFacts
      <4>2. a \in (req[t].d + 8 * 0) .. (req[t].d + 8 * 0 + 7) /\ 0 < req[t].n
        BY <2>2, <4>1
      <4>3. a \in Words(req[t])
        BY <2>2, <4>2, WordsFacts
      <4> QED
        BY <3>1, <4>3 DEF Target
    <3> QED
      BY <2>2, <3>1 DEF GoodOp
  <2> QED
    BY <2>1, <2>3, Returns
<1> QED
  BY <1>1, MemInit, MemStep, PTL DEF Spec
=============================================================================
