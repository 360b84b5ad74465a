------------------------ MODULE AepCopyRefinesProofs ------------------------
(***************************************************************************)
(* AepCopy implements DurableWrite, for every set of threads, addresses,   *)
(* requests and evictions.  Each instruction is one step of DurableWrite   *)
(* or leaves media, seen, promise and running alone.                       *)
(***************************************************************************)
EXTENDS AepCopyRefines, AepCopyDurable

absvars == <<pm, mem, may, Running>>

\* The initial contents of the mapping are blank and no call is running.
LEMMA RefineInit == Init => Abs!Init
<1> SUFFICES ASSUME Init PROVE Abs!Init
  OBVIOUS
<1>1. Running = [t \in Thread |-> {}]
  BY DEF Running, Init
<1> QED
  BY <1>1 DEF Init, Abs!Init

LEMMA RunningBusy ==
  ASSUME NEW t \in Thread, busy(t)
  PROVE  Running[t] = {req[t]}
BY DEF Running, busy

\* Nobody starts or ends a call.
LEMMA RunningSame ==
  ASSUME \A u \in Thread : (pc'[u] = "idle" <=> pc[u] = "idle") /\ (busy(u) => req'[u] = req[u])
  PROVE  Running' = Running
BY DEF Running, busy

LEMMA RunningEnds ==
  ASSUME NEW t \in Thread, pc'[t] = "idle",
         \A u \in Thread : u # t => pc'[u] = pc[u] /\ req'[u] = req[u]
  PROVE  Running' = [Running EXCEPT ![t] = {}]
BY DEF Running

LEMMA RunningStarts ==
  ASSUME NEW t \in Thread, NEW r, pc'[t] = "head", req'[t] = r,
         \A u \in Thread : u # t => pc'[u] = pc[u] /\ req'[u] = req[u]
  PROVE  Running' = [Running EXCEPT ![t] = {r}]
BY DEF Running

LEMMA RunningStops ==
  ASSUME \A u \in Thread : pc'[u] = "idle"
  PROVE  Running' = [t \in Thread |-> {}]
BY DEF Running

-----------------------------------------------------------------------------
\* Only an operation with a fence comes to it.
FencedOnly == \A t \in Thread : pc[t] = "fence" => req[t].op.then # "nothing"

LEMMA FencedStep == MemInv /\ FencedOnly /\ [Next]_vars => FencedOnly'
<1> SUFFICES ASSUME MemInv, FencedOnly, [Next]_vars, NEW u \in Thread, pc'[u] = "fence"
             PROVE  req'[u].op.then # "nothing"
  BY DEF FencedOnly
<1>1. TypeOK
  BY DEF MemInv, LocalInv, TypeInv
<1>2. CASE SameLocals(u)
  BY <1>2 DEF SameLocals, FencedOnly
<1>3. ASSUME NEW t \in Thread, Step(t) \/ Call(t) PROVE req'[u].op.then # "nothing"
  <2>1. ~Fault(t)
    BY DEF Fault
  <2>2. CASE u # t
    BY <1>1, <1>2, <1>3, <2>1, <2>2, OthersLocals
  <2>3. CASE u = t /\ Return(t)
    BY <1>1, <2>3 DEF Return, Goto, TypeOK
  <2>4. CASE u = t /\ clwb_extent(t)
    <3>1. pc[t] = "extent" /\ req' = req
      BY <2>4 DEF clwb_extent
    <3>2. req[t].op.then = "extent"
      BY <3>1 DEF MemInv, busy, SentOK
    <3> QED
      BY <2>4, <3>1, <3>2
  <2>5. CASE u = t /\ ~Return(t) /\ ~clwb_extent(t)
    <3>1. pc'[t] # "fence"
      <4> USE <1>1 DEF Goto, TypeOK
      <4>1. CASE Call(t)
        BY <4>1 DEF Call, Begin
      <4>2. CASE HeadSkip(t) \/ Head(t) \/ HeadNext(t) \/ FlushHead(t) \/ FlushEnd(t) \/ NeedFlush(t) \/ Tail(t)
        BY <4>2 DEF HeadSkip, Head, HeadNext, FlushHead, FlushEnd, NeedFlush, Tail
      <4>3. CASE A16(t) \/ A32(t) \/ T32(t) \/ T16(t)
        BY <4>3 DEF A16, A32, T32, T16, VecStep
      <4>4. CASE BlockEnter(t) \/ BlockSkip(t)
        BY <4>4 DEF BlockEnter, BlockSkip, SkipTo, Blocks
      <4>5. CASE BlockStore(t) \/ BlockClwb(t) \/ BlockEnd(t)
        BY <4>5 DEF BlockStore, BlockClwb, BlockEnd, After
      <4>6. CASE Fence(t)
        BY <4>6 DEF Fence
      <4> QED
        BY <1>3, <2>1, <2>5, <4>1, <4>2, <4>3, <4>4, <4>5, <4>6 DEF Step
    <3> QED
      BY <2>5, <3>1
  <2> QED
    BY <2>2, <2>3, <2>4, <2>5
<1>4. CASE PowerFailure
  BY <1>4 DEF PowerFailure
<1>5. CASE Restart \/ Eviction \/ Terminated \/ UNCHANGED vars
  BY <1>2, <1>5 DEF Restart, Eviction, Terminated, vars, local, cursor, SameLocals
<1> QED
  BY <1>3, <1>4, <1>5 DEF Next

\* What the invariant says when the function has returned and at the fence.
LEMMA Returns ==
  ASSUME MemInv, NEW t \in Thread, pc[t] \in Returned
  PROVE  \A a \in WriteRange(req[t]) :
            /\ a \in Addr /\ mem[a] \in New(req[t], a)
            /\ pc[t] = "fence" => a \in pend[t]
<1>1. busy(t) /\ FilledOK(t) /\ SentOK(t) /\ Filled(t) = req[t].d + req[t].n
  BY DEF MemInv, busy, Filled, InBlock, Returned
<1>2. \A a \in WriteRange(req[t]) : a \in Addr /\ a < req[t].d + req[t].n
  BY <1>1, WriteRangeFacts DEF MemInv
<1> QED
  BY <1>1, <1>2 DEF FilledOK, SentOK, Unsent

\* Without a fence a call ends where the function returns.
LEMMA OnlyReturn ==
  ASSUME MemInv, NEW t \in Thread, Step(t), ~Fault(t), ~Fence(t), ~busy(t)'
  PROVE  Return(t)
<1> USE DEF Goto, busy
<1>1. pc \in [Thread -> PCs] /\ blk \in [Thread -> {2, 4, 8, 16}]
  BY DEF MemInv, LocalInv, TypeInv, TypeOK
<1>2. ~(HeadSkip(t) \/ Head(t) \/ HeadNext(t) \/ FlushHead(t) \/ FlushEnd(t) \/ NeedFlush(t) \/ Tail(t))
  BY <1>1 DEF HeadSkip, Head, HeadNext, FlushHead, FlushEnd, NeedFlush, Tail
<1>3. ~(A16(t) \/ A32(t) \/ T32(t) \/ T16(t))
  BY <1>1 DEF A16, A32, T32, T16, VecStep
<1>4. ~(BlockEnter(t) \/ BlockSkip(t))
  BY <1>1 DEF BlockEnter, BlockSkip, SkipTo, Blocks
<1>5. ~(BlockStore(t) \/ BlockClwb(t) \/ BlockEnd(t))
  BY <1>1 DEF BlockStore, BlockClwb, BlockEnd, After
<1>6. ~clwb_extent(t)
  BY <1>1 DEF clwb_extent
<1> QED
  BY <1>2, <1>3, <1>4, <1>5, <1>6 DEF Step

-----------------------------------------------------------------------------
\* An instruction before the end of the call stores new values in the
\* destination, or nothing.
LEMMA RefineInstruction ==
  ASSUME MemInv, MemInv', NEW t \in Thread, Step(t), ~Fault(t), ~Fence(t), busy(t)'
  PROVE  Abs!Write(t)
<1>1. Moved(t) /\ busy(t)
  BY MemMoved DEF MemInv
<1>2. may' = may /\ req' = req
  BY DEF Step, HeadSkip, Head, HeadNext, A16, A32, T32, T16, VecStep, FlushHead, FlushEnd,
     NeedFlush, Tail, BlockEnter, BlockSkip, BlockStore, BlockClwb, BlockEnd, Return,
     clwb_extent, local, history
<1>3. \A u \in Thread : u # t => pc'[u] = pc[u]
  BY OthersLocals DEF MemInv, LocalInv, TypeInv, SameLocals
<1>4. Running' = Running
  BY <1>1, <1>2, <1>3, RunningSame DEF busy
<1>5. pm' = pm /\ \A a \in Addr : mem'[a] # mem[a] => a \in WriteRange(req[t]) /\ mem'[a] \in New(req[t], a)
  BY <1>1 DEF Moved, PutEffect, Quiet, Hit
<1>6. mem' = [a \in Addr |-> mem'[a]]
  BY DEF MemInv, LocalInv, TypeInv, TypeOK
<1>7. Running[t] = {req[t]}
  BY <1>1, RunningBusy
<1> QED
  BY <1>2, <1>4, <1>5, <1>6, <1>7 DEF Abs!Write

\* The end of an operation without a fence: the destination is filled and
\* nothing is promised about the media.
LEMMA RefineReturn ==
  ASSUME MemInv, MemInv', NEW t \in Thread, Return(t), ~busy(t)'
  PROVE  Abs!Finish(t)
<1>1. /\ busy(t) /\ pc[t] = "ret" /\ pc'[t] = "idle" /\ pm' = pm /\ mem' = mem /\ may' = may
      /\ \A u \in Thread : u # t => pc'[u] = pc[u] /\ req'[u] = req[u]
  BY DEF Return, busy, Goto, hw, history, MemInv, LocalInv, TypeInv, TypeOK
<1>2. req[t].op.then = "nothing"
  <2>1. req[t].op.then \in {"nothing", "fence", "extent"}
    BY FnType DEF MemInv, LocalInv, TypeInv, GoodOp
  <2> QED
    BY <1>1, <2>1 DEF Return, Goto, MemInv, LocalInv, TypeInv, TypeOK
<1>3. \A a \in WriteRange(req[t]) : mem[a] \in New(req[t], a)
  BY <1>1, Returns DEF Returned
<1>4. Running[t] = {req[t]} /\ Running' = [Running EXCEPT ![t] = {}]
  BY <1>1, RunningBusy, RunningEnds
<1>5. pm' = [a \in Addr |-> pm'[a]] /\ may' = [a \in Addr |-> may[a]]
  BY <1>1 DEF MemInv, LocalInv, TypeInv, TypeOK
<1>6. SavedRange(req[t]) = {}
  BY <1>2 DEF SavedRange
<1> QED
  BY <1>1, <1>3, <1>4, <1>5, <1>6 DEF Abs!Finish, Abs!TakesOver

\* sfence: all of the destination is on the media.
LEMMA RefineFence ==
  ASSUME MemInv, FencedOnly, NEW t \in Thread, Fence(t)
  PROVE  Abs!Finish(t)
<1>1. /\ busy(t) /\ pc[t] = "fence" /\ pc'[t] = "idle" /\ mem' = mem
      /\ \A u \in Thread : u # t => pc'[u] = pc[u] /\ req'[u] = req[u]
      /\ pm' = [a \in Addr |-> IF a \in pend[t] THEN mem[a] ELSE pm[a]]
      /\ may' = [a \in Addr |-> IF a \in WriteRange(req[t]) THEN New(req[t], a) ELSE may[a]]
  BY DEF Fence, Sfence, busy, Goto, local, MemInv, LocalInv, TypeInv, TypeOK
<1>2. \A a \in WriteRange(req[t]) : mem[a] \in New(req[t], a)
  BY <1>1, Returns DEF Returned
<1>3. \A a \in WriteRange(req[t]) : a \in Addr /\ a \in pend[t]
  BY <1>1, Returns DEF Returned
<1>4. Running[t] = {req[t]} /\ Running' = [Running EXCEPT ![t] = {}]
  BY <1>1, RunningBusy, RunningEnds
<1>5. req[t].op.then # "nothing"
  BY <1>1 DEF FencedOnly
<1>6. SavedRange(req[t]) = WriteRange(req[t])
  BY <1>5 DEF SavedRange
<1>7. \A a \in WriteRange(req[t]) : pm'[a] \in New(req[t], a)
  BY <1>1, <1>2, <1>3
<1>8. pm' = [a \in Addr |-> pm'[a]] /\ \A a \in Addr : pm'[a] \in {pm[a], mem[a]}
  BY <1>1
<1> QED
  BY <1>1, <1>2, <1>4, <1>6, <1>7, <1>8 DEF Abs!Finish, Abs!TakesOver

LEMMA RefineCall ==
  ASSUME MemInv, NEW t \in Thread, Call(t)
  PROVE  \E r \in Requests : Abs!Start(t, r)
<1>1. PICK r \in Requests : Begin(t, r)
  BY DEF Call
<1>2. /\ pc[t] = "idle" /\ pc'[t] = "head" /\ req'[t] = r /\ pm' = pm /\ mem' = mem
      /\ \A u \in Thread : u # t => pc'[u] = pc[u] /\ req'[u] = req[u]
      /\ \A u \in Thread \ {t} : pc[u] # "idle" => WriteRange(req[u]) \cap WriteRange(r) = {}
      /\ may' = [a \in Addr |-> IF a \in WriteRange(r) THEN may[a] \cup New(r, a) ELSE may[a]]
  BY <1>1 DEF Call, Begin, Goto, hw, MemInv, LocalInv, TypeInv, TypeOK
<1>3. Running[t] = {} /\ Running' = [Running EXCEPT ![t] = {r}]
  BY <1>2, RunningStarts DEF Running
<1>4. \A u \in Thread \ {t} : \A q \in Running[u] : WriteRange(q) \cap WriteRange(r) = {}
  BY <1>2 DEF Running
<1>5. Abs!Start(t, r)
  BY <1>2, <1>3, <1>4 DEF Abs!Start
<1> QED
  BY <1>1, <1>5

-----------------------------------------------------------------------------
\* Every step of AepCopy is a step of DurableWrite or one it does not see.
LEMMA RefineStep ==
  MemInv /\ MemInv' /\ FencedOnly /\ [Next]_vars => [Abs!Next]_(Abs!vars)
<1> SUFFICES ASSUME MemInv, MemInv', FencedOnly, [Next]_vars
             PROVE  Abs!Next \/ UNCHANGED absvars
  BY DEF Abs!vars, absvars
<1>1. ASSUME NEW t \in Thread, Step(t) PROVE Abs!Next
  <2>1. CASE Fault(t)
    <3>1. Abs!Die
      BY <2>1, RunningStops DEF Fault, Abs!Die
    <3> QED
      BY <3>1 DEF Abs!Next
  <2>2. CASE Fence(t)
    BY <2>2, RefineFence DEF Abs!Next
  <2>3. CASE ~Fault(t) /\ ~Fence(t) /\ busy(t)'
    BY <1>1, <2>3, RefineInstruction DEF Abs!Next
  <2>4. CASE ~Fault(t) /\ ~Fence(t) /\ ~busy(t)'
    <3>1. Return(t)
      BY <1>1, <2>4, OnlyReturn
    <3> QED
      BY <2>4, <3>1, RefineReturn DEF Abs!Next
  <2> QED
    BY <2>1, <2>2, <2>3, <2>4
<1>2. ASSUME NEW t \in Thread, Call(t) PROVE Abs!Next
  BY <1>2, RefineCall DEF Abs!Next
<1>3. CASE PowerFailure
  <2>1. Abs!LosePower
    BY <1>3, RunningStops DEF PowerFailure, LosePower, Abs!LosePower, history
  <2> QED
    BY <2>1 DEF Abs!Next
<1>4. CASE Eviction
  <2>1. Running' = Running
    BY <1>4 DEF Eviction, Running, local
  <2>2. pm' = [a \in Addr |-> pm'[a]] /\ \A a \in Addr : pm'[a] \in {pm[a], mem[a]}
    BY <1>4 DEF Eviction, Evict
  <2>3. Abs!WriteBack
    BY <1>4, <2>1, <2>2 DEF Eviction, Evict, history, Abs!WriteBack, Abs!TakesOver
  <2> QED
    BY <2>3 DEF Abs!Next
<1>5. CASE Restart \/ Terminated \/ UNCHANGED vars
  BY <1>5 DEF Restart, Terminated, vars, hw, local, history, Running, absvars
<1> QED
  BY <1>1, <1>2, <1>3, <1>4, <1>5 DEF Next

\* Refinement: for every set of threads, addresses, requests and evictions,
\* the instructions of the copy, store and load functions, of clwb_extent and
\* of the operations around them implement DurableWrite.
THEOREM Refinement == Spec => ImplementsDurableWrite
<1>1. Init => Abs!Init
  BY RefineInit
<1>2. Init => FencedOnly
  BY DEF Init, FencedOnly
<1> QED
  BY <1>1, <1>2, MemInit, MemStep, FencedStep, RefineStep, PTL
     DEF Spec, ImplementsDurableWrite, Abs!Spec
=============================================================================
