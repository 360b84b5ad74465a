-------------------------- MODULE AepCopyDurable --------------------------
(***************************************************************************)
(* The main results about AepCopy: the destination is filled, nothing else *)
(* is touched, and what an operation has fenced survives a power failure.  *)
(*                                                                         *)
(* The stores of all functions are summarised by PutEffect, their          *)
(* write-backs by WbEffect; the proofs about threads use only those.       *)
(***************************************************************************)
EXTENDS AepCopyProofs

MemInv ==
    /\ LocalInv
    /\ CallsOK
    /\ \A t \in Thread : FilledOK(t) /\ (busy(t) => SentOK(t))
    /\ Contained
    /\ Durable

\* The bytes lo .. hi-1 of t's destination get their new values; whatever
\* other bytes were on their way to the media still are.
Hit(t, lo, hi, a) == a \in WriteRange(req[t]) /\ lo <= a /\ a < hi

PutEffect(t, lo, hi) ==
    /\ pm' = pm
    /\ \A a \in Addr : mem'[a] = mem[a] \/ Hit(t, lo, hi, a)
    /\ \A a \in Addr : Hit(t, lo, hi, a) => mem'[a] \in New(req[t], a)
    /\ \A u \in Thread : \A a \in Addr : a \in pend[u] => a \in pend'[u] \/ Hit(t, lo, hi, a)

\* A step that stores nothing and cancels no write-back.
Quiet == /\ pm' = pm /\ mem' = mem
         /\ \A u \in Thread : \A a \in Addr : a \in pend[u] => a \in pend'[u]

\* A write-back of the line of x.
WbEffect(t, x) == Quiet /\ \A a \in Addr : a \in Line(x) => a \in pend'[t]

LEMMA WriteRangeFacts ==
  ASSUME LocalInv, NEW t \in Thread, busy(t)
  PROVE  /\ WriteRange(req[t]) \subseteq Addr
         /\ \A a \in WriteRange(req[t]) : a \in Nat /\ req[t].d <= a /\ a < req[t].d + req[t].n
<1>1. req[t].d .. (req[t].d + req[t].n - 1) \subseteq Addr /\ req[t].d \in Nat /\ req[t].n \in Nat
  BY RequestFacts, RequestsAssumption
<1> QED
  BY <1>1 DEF WriteRange

LEMMA DataGood ==
  ASSUME LocalInv, NEW t \in Thread, busy(t), NEW c \in {Ones, Junk}, NEW a \in Addr
  PROVE  Data(t, c)[a] \in New(req[t], a)
<1>1. a \in Nat
  BY AddrAssumption
<1>2. src[t] + (a - dest[t]) = req[t].s + (a - req[t].d)
  <2>1. /\ src[t] \in Nat /\ dest[t] \in Nat /\ req[t].s \in Nat /\ req[t].d \in Nat
        /\ src[t] - dest[t] = req[t].s - req[t].d
    BY RequestFacts
  <2> QED
    BY <1>1, <2>1
<1>3. Data(t, c)[a] = IF fn(t).one.load = "none" THEN c ELSE src[t] + (a - dest[t])
  BY DEF Data
<1>4. CASE fn(t).one.load = "none"
  BY <1>3, <1>4 DEF New, fn
<1>5. CASE fn(t).one.load # "none"
  BY <1>2, <1>3, <1>5 DEF New, fn
<1> QED
  BY <1>4, <1>5

\* Part of a range, as the range cut at both ends.
LEMMA SubInterval ==
  ASSUME NEW d \in Nat, NEW n \in Nat, NEW lo \in Nat, NEW hi \in Nat,
         d <= lo, hi <= d + n
  PROVE  \A a : a \in lo .. (hi - 1) <=> a \in d .. (d + n - 1) /\ lo <= a /\ a < hi
  OBVIOUS

LEMMA StorePut ==
  ASSUME LocalInv, NEW t \in Thread, busy(t), fn(t).one.store # "none",
         NEW lo \in Nat, NEW hi \in Nat, dest[t] <= lo, hi <= dest[t] + len[t],
         NEW c \in {Ones, Junk},
         Store(lo .. (hi - 1), Data(t, c)) \/ NtStore(t, lo .. (hi - 1), Data(t, c))
  PROVE  PutEffect(t, lo, hi)
<1>1. /\ req[t].d <= dest[t] /\ dest[t] + len[t] = req[t].d + req[t].n
      /\ dest[t] \in Nat /\ len[t] \in Nat /\ req[t].d \in Nat /\ req[t].n \in Nat
  BY RequestFacts
<1>2. \A a : a \in lo .. (hi - 1) <=> Hit(t, lo, hi, a)
  <2>1. WriteRange(req[t]) = req[t].d .. (req[t].d + req[t].n - 1)
    BY DEF WriteRange, fn
  <2>2. req[t].d <= lo /\ hi <= req[t].d + req[t].n
    BY <1>1
  <2>3. \A a : a \in lo .. (hi - 1)
                 <=> a \in req[t].d .. (req[t].d + req[t].n - 1) /\ lo <= a /\ a < hi
    BY <1>1, <2>2, SubInterval
  <2> QED
    BY <2>1, <2>3 DEF Hit
<1>3. \A a \in Addr : Data(t, c)[a] \in New(req[t], a)
  BY DataGood
<1>4. CASE Store(lo .. (hi - 1), Data(t, c))
  BY <1>2, <1>3, <1>4 DEF Store, PutEffect, LocalInv, TypeInv, TypeOK
<1>5. CASE NtStore(t, lo .. (hi - 1), Data(t, c))
  BY <1>2, <1>3, <1>5 DEF NtStore, PutEffect, LocalInv, TypeInv, TypeOK
<1> QED
  BY <1>4, <1>5

LEMMA NonePut ==
  ASSUME NEW t \in Thread, fn(t).one.store = "none", UNCHANGED hw, NEW lo, NEW hi
  PROVE  PutEffect(t, lo, hi)
BY DEF PutEffect, Hit, WriteRange, fn, hw

\* cpy_less_16b_noflush stores the n bytes at dest and no others.
LEMMA LessPut ==
  ASSUME LocalInv, NEW t \in Thread, busy(t), NEW n \in 0 .. 15, n <= len[t],
         cpy_less_16b_noflush(t, n)
  PROVE  PutEffect(t, dest[t], dest[t] + n)
<1>1. dest[t] \in Nat /\ len[t] \in Nat
  BY RequestFacts
<1>2. CASE fn(t).one.store = "none"
  BY <1>2, NonePut DEF cpy_less_16b_noflush
<1>3. CASE fn(t).one.store # "none"
  <2>1. Store(dest[t] .. (dest[t] + n - 1), Data(t, Ones))
    BY <1>1, <1>3, LessBytesAt DEF cpy_less_16b_noflush
  <2> QED
    BY <1>1, <1>3, <2>1, StorePut
<1> QED
  BY <1>2, <1>3

\* A vector store, cached or not; a non-temporal one is on its way at once.
LEMMA VecPut ==
  ASSUME LocalInv, NEW t \in Thread, busy(t), NEW k \in {fn(t).one, fn(t).block},
         NEW off \in Nat, NEW w \in Nat, off + w <= len[t], VecStore(t, k, off, w)
  PROVE  /\ PutEffect(t, dest[t] + off, dest[t] + off + w)
         /\ fn(t).edges = "always" =>
               \A a \in Addr : Hit(t, dest[t] + off, dest[t] + off + w, a) => a \in pend'[t]
<1> DEFINE lo == dest[t] + off
           hi == dest[t] + off + w
<1>1. dest[t] \in Nat /\ len[t] \in Nat /\ lo \in Nat /\ hi \in Nat
  BY RequestFacts
<1>2. GoodOp(req[t].op)
  BY FnType DEF LocalInv, TypeInv
<1>3. /\ k.store = fn(t).one.store /\ k.store \in {"none", "store", "ntstore"}
      /\ fn(t).edges = "always" => k.store = "ntstore"
  BY <1>2 DEF GoodOp, fn, KernelSet
<1> DEFINE W == (dest[t] + off) .. (dest[t] + off + w - 1)
<1>7. \/ k.store = "none" /\ UNCHANGED hw
      \/ k.store = "store" /\ Store(W, Data(t, Junk))
      \/ k.store = "ntstore" /\ NtStore(t, W, Data(t, Junk))
  BY DEF VecStore
<1>8. W = lo .. (hi - 1)
  <2>1. hi - 1 = dest[t] + off + w - 1
    BY <1>1
  <2> QED
    BY <2>1
<1> HIDE DEF W
<1>4. CASE k.store = "none"
  BY <1>3, <1>4, <1>7, NonePut
<1>5. CASE k.store = "store"
  <2>1. Store(lo .. (hi - 1), Data(t, Junk))
    BY <1>5, <1>7, <1>8
  <2> HIDE DEF lo, hi
  <2>2. dest[t] <= lo /\ hi <= dest[t] + len[t]
    BY <1>1 DEF lo, hi
  <2>3. PutEffect(t, lo, hi)
    BY <1>1, <1>3, <1>5, <2>1, <2>2, StorePut
  <2> QED
    BY <1>3, <1>5, <2>3 DEF lo, hi
<1>6. CASE k.store = "ntstore"
  <2>1. NtStore(t, lo .. (hi - 1), Data(t, Junk))
    BY <1>6, <1>7, <1>8
  <2> HIDE DEF lo, hi
  <2>2. dest[t] <= lo /\ hi <= dest[t] + len[t]
    BY <1>1 DEF lo, hi
  <2>3. PutEffect(t, lo, hi)
    BY <1>1, <1>3, <1>6, <2>1, <2>2, StorePut
  <2>4. \A a \in Addr : Hit(t, lo, hi, a) => a \in lo .. (hi - 1)
    BY <1>1, AddrAssumption DEF Hit
  <2>5. \A a \in Addr : Hit(t, lo, hi, a) => a \in pend'[t]
    BY <2>1, <2>4 DEF NtStore
  <2> QED
    BY <2>3, <2>5 DEF lo, hi
<1> QED
  BY <1>3, <1>4, <1>5, <1>6

LEMMA ClwbWb ==
  ASSUME TypeOK, NEW t \in Thread, NEW x, Clwb(t, x)
  PROVE  WbEffect(t, x)
BY DEF TypeOK, Clwb, WbEffect, Quiet

LEMMA HwQuiet == UNCHANGED hw => Quiet
BY DEF hw, Quiet

-----------------------------------------------------------------------------
(***************************************************************************)
(* The other threads.  A store of t is no store into u's destination.      *)
(***************************************************************************)
MemFrame(u) == \A a \in WriteRange(req[u]) :
                  mem'[a] = mem[a] /\ (a \in pend[u] => a \in pend'[u])

LEMMA FrameOK ==
  ASSUME MemInv, NEW u \in Thread, SameLocals(u), busy(u) => MemFrame(u)
  PROVE  FilledOK(u)' /\ (busy(u) => SentOK(u))'
<1>1. CASE ~busy(u)
  BY <1>1 DEF SameLocals, busy, FilledOK
<1>2. CASE busy(u)
  <2>1. FilledOK(u) /\ SentOK(u) /\ MemFrame(u)
    BY <1>2 DEF MemInv
  <2>2. Filled(u)' = Filled(u) /\ WriteRange(req[u])' = WriteRange(req[u]) /\ fn(u)' = fn(u)
    BY DEF SameLocals, Filled, HeadCount, WriteRange, fn
  <2>3. FilledOK(u)'
    BY <1>2, <2>1, <2>2 DEF FilledOK, MemFrame, SameLocals, New
  <2>4. Unsent(u)' \subseteq Unsent(u)
    BY <2>1, <2>2 DEF Unsent, MemFrame
  <2>5. SentOK(u)'
    BY <2>1, <2>2, <2>4 DEF SentOK, SameLocals
  <2> QED
    BY <2>3, <2>5
<1> QED
  BY <1>1, <1>2

LEMMA PutFrame ==
  ASSUME MemInv, NEW t \in Thread, busy(t), NEW u \in Thread, u # t, busy(u),
         NEW lo, NEW hi, PutEffect(t, lo, hi)
  PROVE  MemFrame(u)
<1>1. WriteRange(req[t]) \cap WriteRange(req[u]) = {}
  BY DEF MemInv, CallsOK
<1>2. WriteRange(req[u]) \subseteq Addr
  BY WriteRangeFacts DEF MemInv
<1> QED
  BY <1>1, <1>2 DEF PutEffect, Hit, MemFrame

LEMMA QuietFrame ==
  ASSUME MemInv, NEW u \in Thread, busy(u), Quiet
  PROVE  MemFrame(u)
<1>1. WriteRange(req[u]) \subseteq Addr
  BY WriteRangeFacts DEF MemInv
<1> QED
  BY <1>1 DEF Quiet, MemFrame

(***************************************************************************)
(* The thread that moves.                                                  *)
(***************************************************************************)
\* The next state has the destination filled up to hi.
FilledTo(t, hi) == \A a \in WriteRange(req[t]) : a < hi => mem'[a] \in New(req[t], a)

LEMMA PutFills ==
  ASSUME MemInv, NEW t \in Thread, busy(t), NEW hi \in Nat, PutEffect(t, Filled(t), hi),
         Filled(t) \in Nat
  PROVE  /\ FilledTo(t, hi)
         /\ \A a \in WriteRange(req[t]) : a < hi /\ a \notin pend'[t] =>
               a \in Unsent(t) \/ Hit(t, Filled(t), hi, a)
<1>1. WriteRange(req[t]) \subseteq Addr /\ \A a \in WriteRange(req[t]) : a \in Nat
  BY WriteRangeFacts DEF MemInv
<1>2. \A a \in WriteRange(req[t]) : a < Filled(t) => mem[a] \in New(req[t], a)
  BY DEF MemInv, FilledOK
<1>3. ASSUME NEW a \in WriteRange(req[t]), a < hi PROVE mem'[a] \in New(req[t], a)
  BY <1>1, <1>2, <1>3 DEF PutEffect, Hit
<1>4. ASSUME NEW a \in WriteRange(req[t]), a < hi, a \notin pend'[t]
      PROVE  a \in Unsent(t) \/ Hit(t, Filled(t), hi, a)
  BY <1>1, <1>4 DEF PutEffect, Hit, Unsent
<1> QED
  BY <1>3, <1>4 DEF FilledTo

LEMMA QuietFills ==
  ASSUME MemInv, NEW t \in Thread, busy(t), Quiet
  PROVE  /\ FilledTo(t, Filled(t))
         /\ \A a \in WriteRange(req[t]) : a < Filled(t) /\ a \notin pend'[t] => a \in Unsent(t)
<1>1. WriteRange(req[t]) \subseteq Addr
  BY WriteRangeFacts DEF MemInv
<1> QED
  BY <1>1 DEF Quiet, FilledTo, Unsent, MemInv, FilledOK

\* ... and what is still only in the cache is not in the line written back.
LEMMA WbFills ==
  ASSUME MemInv, NEW t \in Thread, busy(t), NEW x, WbEffect(t, x)
  PROVE  /\ FilledTo(t, Filled(t))
         /\ \A a \in WriteRange(req[t]) : a < Filled(t) /\ a \notin pend'[t] =>
               a \in Unsent(t) /\ a \notin Line(x)
<1>1. WriteRange(req[t]) \subseteq Addr
  BY WriteRangeFacts DEF MemInv
<1> QED
  BY <1>1, QuietFills DEF WbEffect

LEMMA FilledStep ==
  ASSUME NEW t \in Thread, NEW hi, FilledTo(t, hi), Filled(t)' = hi, req'[t] = req[t]
  PROVE  /\ FilledOK(t)'
         /\ Unsent(t)' = {a \in WriteRange(req[t]) : a < hi /\ a \notin pend'[t]}
         /\ fn(t)' = fn(t)
BY DEF FilledOK, FilledTo, Unsent, New, WriteRange, fn

\* What each step of t has to show: its own part of the invariant, and that
\* its effect on the memory is one of the two kinds.
Moved(t) == /\ FilledOK(t)' /\ (busy(t) => SentOK(t))'
            /\ Quiet \/ \E lo, hi : PutEffect(t, lo, hi)

LEMMA MemHeadSkip ==
  ASSUME MemInv, NEW t \in Thread, HeadSkip(t)
  PROVE  Moved(t)
<1>1. /\ busy(t) /\ pc[t] = "head" /\ pc'[t] = "a16" /\ req'[t] = req[t] /\ dest'[t] = dest[t] /\ Quiet
  BY HwQuiet DEF HeadSkip, busy, Goto, local, cursor, MemInv, LocalInv, TypeInv, TypeOK
<1>2. dest[t] = req[t].d /\ Filled(t) = dest[t] /\ Filled(t)' = dest[t]
  BY <1>1, RequestFacts DEF MemInv, AlignOK, Filled, InBlock, Returned
<1>3. FilledOK(t)' /\ Unsent(t)' = {a \in WriteRange(req[t]) : a < dest[t] /\ a \notin pend'[t]} /\ fn(t)' = fn(t)
  BY <1>1, <1>2, QuietFills, FilledStep
<1>4. Unsent(t)' = {}
  BY <1>1, <1>2, <1>3, WriteRangeFacts, RequestFacts DEF MemInv
<1>5. SentOK(t)'
  BY <1>1, <1>4 DEF SentOK, Heads, Blocks, InBlock, Tails
<1> QED
  BY <1>1, <1>3, <1>5 DEF Moved

LEMMA MemHead ==
  ASSUME MemInv, NEW t \in Thread, Head(t)
  PROVE  Moved(t)
<1> DEFINE c == HeadCount(t)
<1>1. /\ busy(t) /\ pc[t] = "head" /\ pc'[t] = "hnext" /\ req'[t] = req[t] /\ dest'[t] = dest[t]
      /\ len'[t] = len[t] /\ dest[t] % 16 # 0 /\ cpy_less_16b_noflush(t, c)
  BY DEF Head, busy, Goto, local, cursor, MemInv, LocalInv, TypeInv, TypeOK
<1>2. dest[t] = req[t].d /\ dest[t] \in Nat /\ len[t] \in Nat
  BY <1>1, RequestFacts DEF MemInv, AlignOK
<1>3. c \in 0 .. 15 /\ c <= len[t] /\ c <= 16 - (dest[t] % 16)
  BY <1>1, <1>2 DEF HeadCount
<1>4. Filled(t) = dest[t] /\ Filled(t)' = dest[t] + c
  BY <1>1 DEF Filled, InBlock, Returned, HeadCount
<1> HIDE DEF c
<1>5. PutEffect(t, dest[t], dest[t] + c)
  BY <1>1, <1>3, LessPut DEF MemInv
<1>6. /\ FilledTo(t, dest[t] + c)
      /\ \A a \in WriteRange(req[t]) : a < dest[t] + c /\ a \notin pend'[t] =>
               a \in Unsent(t) \/ Hit(t, dest[t], dest[t] + c, a)
  BY <1>1, <1>2, <1>3, <1>4, <1>5, PutFills
<1>7. FilledOK(t)' /\ Unsent(t)' = {a \in WriteRange(req[t]) : a < dest[t] + c /\ a \notin pend'[t]} /\ fn(t)' = fn(t)
  BY <1>1, <1>4, <1>6, FilledStep
<1>8. Unsent(t)' \subseteq Line(req[t].d)
  <2>1. dest[t] + c <= LineBase(dest[t]) + 64 /\ LineBase(dest[t]) <= dest[t] /\ LineBase(dest[t]) \in Nat
    BY <1>1, <1>2, <1>3, HeadInLine, LineBaseAligned
  <2>2. \A a \in WriteRange(req[t]) : a \in Nat /\ a >= dest[t]
    BY <1>1, <1>2, WriteRangeFacts DEF MemInv
  <2> QED
    BY <1>2, <1>3, <1>7, <2>1, <2>2 DEF Line, CACHELINE_SIZE
<1>9. SentOK(t)'
  BY <1>1, <1>2, <1>8 DEF SentOK, Heads, Blocks, InBlock, Tails
<1> QED
  BY <1>5, <1>7, <1>9 DEF Moved

LEMMA MemHeadNext ==
  ASSUME MemInv, NEW t \in Thread, HeadNext(t)
  PROVE  Moved(t)
<1> DEFINE c == HeadCount(t)
<1>1. /\ busy(t) /\ pc[t] = "hnext" /\ pc'[t] = "a16" /\ req'[t] = req[t] /\ dest'[t] = dest[t] + c
      /\ fn(t).edges = "always" => Clwb(t, dest[t])
      /\ fn(t).edges # "always" => UNCHANGED hw
  BY DEF HeadNext, busy, Goto, Advance, MemInv, LocalInv, TypeInv, TypeOK
<1>2. SentOK(t)
  BY <1>1 DEF MemInv
<1>3. Filled(t) = dest[t] + c /\ Filled(t)' = dest[t] + c
  BY <1>1 DEF Filled, InBlock, Returned
<1> HIDE DEF c
<1>4. CASE fn(t).edges = "always"
  <2>1. WbEffect(t, dest[t])
    BY <1>1, <1>4, ClwbWb DEF MemInv, LocalInv, TypeInv
  <2>2. /\ FilledTo(t, dest[t] + c)
        /\ \A a \in WriteRange(req[t]) : a < dest[t] + c /\ a \notin pend'[t] =>
                 a \in Unsent(t) /\ a \notin Line(dest[t])
    BY <1>1, <1>3, <2>1, WbFills
  <2>3. FilledOK(t)' /\ Unsent(t)' = {a \in WriteRange(req[t]) : a < dest[t] + c /\ a \notin pend'[t]} /\ fn(t)' = fn(t)
    BY <1>1, <1>3, <2>2, FilledStep
  <2>4. Unsent(t)' = {}
    BY <1>1, <1>2, <1>4, <2>2, <2>3 DEF SentOK
  <2>5. SentOK(t)'
    BY <1>1, <2>4 DEF SentOK, Heads, Blocks, InBlock, Tails
  <2> QED
    BY <2>1, <2>3, <2>5 DEF Moved, WbEffect
<1>5. CASE fn(t).edges # "always"
  <2>1. Quiet
    BY <1>1, <1>5, HwQuiet
  <2>2. /\ FilledTo(t, dest[t] + c)
        /\ \A a \in WriteRange(req[t]) : a < dest[t] + c /\ a \notin pend'[t] => a \in Unsent(t)
    BY <1>1, <1>3, <2>1, QuietFills
  <2>3. FilledOK(t)' /\ Unsent(t)' = {a \in WriteRange(req[t]) : a < dest[t] + c /\ a \notin pend'[t]} /\ fn(t)' = fn(t)
    BY <1>1, <1>3, <2>2, FilledStep
  <2>4. Unsent(t)' \subseteq Unsent(t)
    BY <2>2, <2>3
  <2>5. SentOK(t)'
    BY <1>1, <1>2, <1>5, <2>3, <2>4 DEF SentOK, Heads, Blocks, InBlock, Tails
  <2> QED
    BY <2>1, <2>3, <2>5 DEF Moved
<1> QED
  BY <1>4, <1>5

\* A vector step that is skipped, or any other step that leaves memory, the
\* cursor and need_flush alone while Filled and what SentOK asks for stay.
LEMMA MemStay ==
  ASSUME MemInv, NEW t \in Thread, busy(t), UNCHANGED hw, req'[t] = req[t], Filled(t)' = Filled(t)
  PROVE  /\ Quiet /\ FilledOK(t)' /\ fn(t)' = fn(t)
         /\ Unsent(t)' \subseteq Unsent(t)
<1>1. Quiet
  BY HwQuiet
<1>2. /\ FilledTo(t, Filled(t))
      /\ \A a \in WriteRange(req[t]) : a < Filled(t) /\ a \notin pend'[t] => a \in Unsent(t)
  BY <1>1, QuietFills
<1>3. FilledOK(t)' /\ Unsent(t)' = {a \in WriteRange(req[t]) : a < Filled(t) /\ a \notin pend'[t]} /\ fn(t)' = fn(t)
  BY <1>2, FilledStep
<1> QED
  BY <1>1, <1>2, <1>3

\* A vector store at the cursor: what it adds to Unsent.
LEMMA MemVec ==
  ASSUME MemInv, NEW t \in Thread, busy(t), NEW w \in {16, 32}, w <= len[t],
         VecStore(t, fn(t).one, 0, w), req'[t] = req[t],
         Filled(t) = dest[t], Filled(t)' = dest[t] + w
  PROVE  /\ \E lo, hi : PutEffect(t, lo, hi)
         /\ FilledOK(t)' /\ fn(t)' = fn(t)
         /\ \A a \in Unsent(t)' : a \in Unsent(t) \/ (dest[t] <= a /\ a < dest[t] + w /\ a \in Nat)
         /\ fn(t).edges = "always" => Unsent(t)' \subseteq Unsent(t)
<1>1. dest[t] \in Nat /\ len[t] \in Nat /\ w \in Nat
  BY RequestFacts DEF MemInv
<1>2. /\ PutEffect(t, dest[t] + 0, dest[t] + 0 + w)
      /\ fn(t).edges = "always" =>
            \A a \in Addr : Hit(t, dest[t] + 0, dest[t] + 0 + w, a) => a \in pend'[t]
  BY <1>1, VecPut DEF MemInv
<1>3. dest[t] + 0 = dest[t] /\ dest[t] + 0 + w = dest[t] + w
  BY <1>1
<1>4. /\ FilledTo(t, dest[t] + w)
      /\ \A a \in WriteRange(req[t]) : a < dest[t] + w /\ a \notin pend'[t] =>
               a \in Unsent(t) \/ Hit(t, dest[t], dest[t] + w, a)
  BY <1>1, <1>2, <1>3, PutFills
<1>5. FilledOK(t)' /\ Unsent(t)' = {a \in WriteRange(req[t]) : a < dest[t] + w /\ a \notin pend'[t]} /\ fn(t)' = fn(t)
  BY <1>4, FilledStep
<1>6. \A a \in WriteRange(req[t]) : a \in Nat /\ a \in Addr
  BY WriteRangeFacts DEF MemInv
<1> QED
  BY <1>2, <1>3, <1>4, <1>5, <1>6 DEF Hit

\* A step that does not reach the end of the line stays in it.
LEMMA SameLine ==
  ASSUME NEW x \in Nat, NEW w \in Nat, (x % 64) + w < 64
  PROVE  /\ Line(x + w) = Line(x)
         /\ \A a \in Nat : x <= a /\ a < x + w => a \in Line(x)
<1>1. (x + w) % 64 = (x % 64) + w
  OBVIOUS
<1>2. LineBase(x + w) = LineBase(x)
  BY <1>1 DEF LineBase, CACHELINE_SIZE
<1>3. LineBase(x) <= x /\ x + w < LineBase(x) + 64 /\ LineBase(x) \in Nat
  BY DEF LineBase, CACHELINE_SIZE
<1>4. \A a \in Nat : x <= a /\ a < x + w => a \in Line(x)
  BY <1>3 DEF Line, CACHELINE_SIZE
<1> QED
  BY <1>2, <1>4 DEF Line

LEMMA MemA16 ==
  ASSUME MemInv, LocalInv', NEW t \in Thread, A16(t)
  PROVE  Moved(t)
<1>1. /\ busy(t) /\ pc[t] = "a16" /\ pc'[t] = "a32" /\ req'[t] = req[t] /\ need_flush'[t] = need_flush[t]
      /\ TakeA16(t) => dest'[t] = dest[t] + 16 /\ VecStore(t, fn(t).one, 0, 16)
      /\ ~TakeA16(t) => dest'[t] = dest[t] /\ UNCHANGED hw
  BY DEF A16, VecStep, busy, MemInv, LocalInv, TypeInv, TypeOK, Goto, Advance, cursor
<1>2. /\ SentOK(t) /\ NeedOK(t) /\ AlignOK(t) /\ NeedOK(t)' /\ dest[t] \in Nat /\ len[t] \in Nat
      /\ req[t].d \in Nat /\ req[t].d <= dest[t]
  <2>1. busy(t)'
    BY <1>1 DEF busy
  <2> QED
    BY <1>1, <2>1, RequestFacts DEF MemInv, LocalInv, LocalOK
<1>3. Filled(t) = dest[t] /\ Filled(t)' = dest'[t]
  BY <1>1 DEF Filled, InBlock, Returned
<1>4. CASE TakeA16(t)
  <2>1. 16 <= len[t]
    BY <1>2, <1>4 DEF TakeA16
  <2>2. /\ \E lo, hi : PutEffect(t, lo, hi)
        /\ FilledOK(t)' /\ fn(t)' = fn(t)
        /\ \A a \in Unsent(t)' : a \in Unsent(t) \/ (dest[t] <= a /\ a < dest[t] + 16 /\ a \in Nat)
        /\ fn(t).edges = "always" => Unsent(t)' \subseteq Unsent(t)
    BY <1>1, <1>3, <1>4, <2>1, MemVec
  <2>3. fn(t).edges = "need" => Unsent(t)' \subseteq Line(req[t].d)
    <3>1. dest[t] + 16 <= LineBase(req[t].d) + 64
      BY <1>1, <1>2, <1>4 DEF NeedOK, Heads
    <3>2. LineBase(req[t].d) \in Nat /\ LineBase(req[t].d) <= req[t].d
      BY <1>2, LineBaseAligned
    <3>3. \A a \in Nat : dest[t] <= a /\ a < dest[t] + 16 => a \in Line(req[t].d)
      BY <1>2, <3>1, <3>2 DEF Line, CACHELINE_SIZE
    <3>4. fn(t).edges = "need" => Unsent(t) \subseteq Line(req[t].d)
      BY <1>1, <1>2 DEF SentOK, Heads
    <3> QED
      BY <2>2, <3>3, <3>4
  <2>4. fn(t).edges = "always" => Unsent(t)' = {}
    BY <1>1, <1>2, <2>2 DEF SentOK, Heads
  <2>5. SentOK(t)'
    BY <1>1, <2>2, <2>3, <2>4 DEF SentOK, Heads, Blocks, InBlock, Tails
  <2> QED
    BY <2>2, <2>5 DEF Moved
<1>5. CASE ~TakeA16(t)
  <2>1. /\ Quiet /\ FilledOK(t)' /\ fn(t)' = fn(t)
        /\ Unsent(t)' \subseteq Unsent(t)
    BY <1>1, <1>3, <1>5, MemStay
  <2>2. SentOK(t)'
    BY <1>1, <1>2, <1>5, <2>1 DEF SentOK, Heads, Blocks, InBlock, Tails
  <2> QED
    BY <2>1, <2>2 DEF Moved
<1> QED
  BY <1>4, <1>5

LEMMA MemA32 ==
  ASSUME MemInv, LocalInv', NEW t \in Thread, A32(t)
  PROVE  Moved(t)
<1>1. /\ busy(t) /\ pc[t] = "a32" /\ pc'[t] = "fhead" /\ req'[t] = req[t] /\ need_flush'[t] = need_flush[t]
      /\ TakeA32(t) => dest'[t] = dest[t] + 32 /\ VecStore(t, fn(t).one, 0, 32)
      /\ ~TakeA32(t) => dest'[t] = dest[t] /\ UNCHANGED hw
  BY DEF A32, VecStep, busy, MemInv, LocalInv, TypeInv, TypeOK, Goto, Advance, cursor
<1>2. /\ SentOK(t) /\ NeedOK(t) /\ AlignOK(t) /\ NeedOK(t)' /\ dest[t] \in Nat /\ len[t] \in Nat
      /\ req[t].d \in Nat /\ req[t].d <= dest[t]
  <2>1. busy(t)'
    BY <1>1 DEF busy
  <2> QED
    BY <1>1, <2>1, RequestFacts DEF MemInv, LocalInv, LocalOK
<1>3. Filled(t) = dest[t] /\ Filled(t)' = dest'[t]
  BY <1>1 DEF Filled, InBlock, Returned
<1>4. CASE TakeA32(t)
  <2>1. 32 <= len[t]
    BY <1>2, <1>4 DEF TakeA32
  <2>2. /\ \E lo, hi : PutEffect(t, lo, hi)
        /\ FilledOK(t)' /\ fn(t)' = fn(t)
        /\ \A a \in Unsent(t)' : a \in Unsent(t) \/ (dest[t] <= a /\ a < dest[t] + 32 /\ a \in Nat)
        /\ fn(t).edges = "always" => Unsent(t)' \subseteq Unsent(t)
    BY <1>1, <1>3, <1>4, <2>1, MemVec
  <2>3. fn(t).edges = "need" => Unsent(t)' \subseteq Line(req[t].d)
    <3>1. dest[t] + 32 <= LineBase(req[t].d) + 64
      BY <1>1, <1>2, <1>4 DEF NeedOK, Heads
    <3>2. LineBase(req[t].d) \in Nat /\ LineBase(req[t].d) <= req[t].d
      BY <1>2, LineBaseAligned
    <3>3. \A a \in Nat : dest[t] <= a /\ a < dest[t] + 32 => a \in Line(req[t].d)
      BY <1>2, <3>1, <3>2 DEF Line, CACHELINE_SIZE
    <3>4. fn(t).edges = "need" => Unsent(t) \subseteq Line(req[t].d)
      BY <1>1, <1>2 DEF SentOK, Heads
    <3> QED
      BY <2>2, <3>3, <3>4
  <2>4. fn(t).edges = "always" => Unsent(t)' = {}
    BY <1>1, <1>2, <2>2 DEF SentOK, Heads
  <2>5. SentOK(t)'
    BY <1>1, <2>2, <2>3, <2>4 DEF SentOK, Heads, Blocks, InBlock, Tails
  <2> QED
    BY <2>2, <2>5 DEF Moved
<1>5. CASE ~TakeA32(t)
  <2>1. /\ Quiet /\ FilledOK(t)' /\ fn(t)' = fn(t)
        /\ Unsent(t)' \subseteq Unsent(t)
    BY <1>1, <1>3, <1>5, MemStay
  <2>2. SentOK(t)'
    BY <1>1, <1>2, <1>5, <2>1 DEF SentOK, Heads, Blocks, InBlock, Tails
  <2> QED
    BY <2>1, <2>2 DEF Moved
<1> QED
  BY <1>4, <1>5

LEMMA MemT32 ==
  ASSUME MemInv, LocalInv', NEW t \in Thread, T32(t)
  PROVE  Moved(t)
<1>1. /\ busy(t) /\ pc[t] = "t32" /\ pc'[t] = "t16" /\ req'[t] = req[t] /\ need_flush'[t] = need_flush[t]
      /\ TakeT32(t) => dest'[t] = dest[t] + 32 /\ VecStore(t, fn(t).one, 0, 32)
      /\ ~TakeT32(t) => dest'[t] = dest[t] /\ UNCHANGED hw
  BY DEF T32, VecStep, busy, MemInv, LocalInv, TypeInv, TypeOK, Goto, Advance, cursor
<1>2. /\ SentOK(t) /\ NeedOK(t) /\ AlignOK(t) /\ NeedOK(t)' /\ dest[t] \in Nat /\ len[t] \in Nat
      /\ req[t].d \in Nat /\ req[t].d <= dest[t]
  <2>1. busy(t)'
    BY <1>1 DEF busy
  <2> QED
    BY <1>1, <2>1, RequestFacts DEF MemInv, LocalInv, LocalOK
<1>3. Filled(t) = dest[t] /\ Filled(t)' = dest'[t]
  BY <1>1 DEF Filled, InBlock, Returned
<1>4. CASE TakeT32(t)
  <2>1. 32 <= len[t]
    BY <1>2, <1>4 DEF TakeT32
  <2>2. /\ \E lo, hi : PutEffect(t, lo, hi)
        /\ FilledOK(t)' /\ fn(t)' = fn(t)
        /\ \A a \in Unsent(t)' : a \in Unsent(t) \/ (dest[t] <= a /\ a < dest[t] + 32 /\ a \in Nat)
        /\ fn(t).edges = "always" => Unsent(t)' \subseteq Unsent(t)
    BY <1>1, <1>3, <1>4, <2>1, MemVec
  <2>3. fn(t).edges = "need" => \A a \in Unsent(t)' : need_flush'[t] /\ a \in Line(dest'[t])
    <3> SUFFICES ASSUME fn(t).edges = "need" PROVE \A a \in Unsent(t)' : need_flush'[t] /\ a \in Line(dest'[t])
      OBVIOUS
    <3>1. need_flush[t]
      BY <1>1, <1>2, <2>1 DEF NeedOK, Tails
    <3>2. dest[t] % 64 = 0
      BY <1>1, <1>2, <2>1 DEF AlignOK, Tails
    <3>3. (dest[t] % 64) + 32 < 64
      BY <1>2, <3>2
    <3>4. /\ Line(dest[t] + 32) = Line(dest[t])
          /\ \A a \in Nat : dest[t] <= a /\ a < dest[t] + 32 => a \in Line(dest[t])
      BY <1>2, <3>3, SameLine
    <3>5. \A a \in Unsent(t) : a \in Line(dest[t])
      BY <1>1, <1>2 DEF SentOK, Tails
    <3> QED
      BY <1>1, <1>4, <2>2, <3>1, <3>4, <3>5
  <2>4. fn(t).edges = "always" => Unsent(t)' = {}
    BY <1>1, <1>2, <2>2 DEF SentOK, Heads
  <2>5. SentOK(t)'
    BY <1>1, <2>2, <2>3, <2>4 DEF SentOK, Heads, Blocks, InBlock, Tails
  <2> QED
    BY <2>2, <2>5 DEF Moved
<1>5. CASE ~TakeT32(t)
  <2>1. /\ Quiet /\ FilledOK(t)' /\ fn(t)' = fn(t)
        /\ Unsent(t)' \subseteq Unsent(t)
    BY <1>1, <1>3, <1>5, MemStay
  <2>2. SentOK(t)'
    BY <1>1, <1>2, <1>5, <2>1 DEF SentOK, Heads, Blocks, InBlock, Tails
  <2> QED
    BY <2>1, <2>2 DEF Moved
<1> QED
  BY <1>4, <1>5

LEMMA MemT16 ==
  ASSUME MemInv, LocalInv', NEW t \in Thread, T16(t)
  PROVE  Moved(t)
<1>1. /\ busy(t) /\ pc[t] = "t16" /\ pc'[t] = "tail" /\ req'[t] = req[t] /\ need_flush'[t] = need_flush[t]
      /\ TakeT16(t) => dest'[t] = dest[t] + 16 /\ VecStore(t, fn(t).one, 0, 16)
      /\ ~TakeT16(t) => dest'[t] = dest[t] /\ UNCHANGED hw
  BY DEF T16, VecStep, busy, MemInv, LocalInv, TypeInv, TypeOK, Goto, Advance, cursor
<1>2. /\ SentOK(t) /\ NeedOK(t) /\ AlignOK(t) /\ NeedOK(t)' /\ dest[t] \in Nat /\ len[t] \in Nat
      /\ req[t].d \in Nat /\ req[t].d <= dest[t]
  <2>1. busy(t)'
    BY <1>1 DEF busy
  <2> QED
    BY <1>1, <2>1, RequestFacts DEF MemInv, LocalInv, LocalOK
<1>3. Filled(t) = dest[t] /\ Filled(t)' = dest'[t]
  BY <1>1 DEF Filled, InBlock, Returned
<1>4. CASE TakeT16(t)
  <2>1. 16 <= len[t]
    BY <1>2, <1>4 DEF TakeT16
  <2>2. /\ \E lo, hi : PutEffect(t, lo, hi)
        /\ FilledOK(t)' /\ fn(t)' = fn(t)
        /\ \A a \in Unsent(t)' : a \in Unsent(t) \/ (dest[t] <= a /\ a < dest[t] + 16 /\ a \in Nat)
        /\ fn(t).edges = "always" => Unsent(t)' \subseteq Unsent(t)
    BY <1>1, <1>3, <1>4, <2>1, MemVec
  <2>3. fn(t).edges = "need" => \A a \in Unsent(t)' : need_flush'[t] /\ a \in Line(dest'[t])
    <3> SUFFICES ASSUME fn(t).edges = "need" PROVE \A a \in Unsent(t)' : need_flush'[t] /\ a \in Line(dest'[t])
      OBVIOUS
    <3>1. need_flush[t]
      BY <1>1, <1>2, <2>1 DEF NeedOK, Tails
    <3>2. dest[t] % 32 = 0
      BY <1>1, <1>2, <2>1 DEF AlignOK, Tails
    <3>3. (dest[t] % 64) + 16 < 64
      BY <1>2, <3>2
    <3>4. /\ Line(dest[t] + 16) = Line(dest[t])
          /\ \A a \in Nat : dest[t] <= a /\ a < dest[t] + 16 => a \in Line(dest[t])
      BY <1>2, <3>3, SameLine
    <3>5. \A a \in Unsent(t) : a \in Line(dest[t])
      BY <1>1, <1>2 DEF SentOK, Tails
    <3> QED
      BY <1>1, <1>4, <2>2, <3>1, <3>4, <3>5
  <2>4. fn(t).edges = "always" => Unsent(t)' = {}
    BY <1>1, <1>2, <2>2 DEF SentOK, Heads
  <2>5. SentOK(t)'
    BY <1>1, <2>2, <2>3, <2>4 DEF SentOK, Heads, Blocks, InBlock, Tails
  <2> QED
    BY <2>2, <2>5 DEF Moved
<1>5. CASE ~TakeT16(t)
  <2>1. /\ Quiet /\ FilledOK(t)' /\ fn(t)' = fn(t)
        /\ Unsent(t)' \subseteq Unsent(t)
    BY <1>1, <1>3, <1>5, MemStay
  <2>2. SentOK(t)'
    BY <1>1, <1>2, <1>5, <2>1 DEF SentOK, Heads, Blocks, InBlock, Tails
  <2> QED
    BY <2>1, <2>2 DEF Moved
<1> QED
  BY <1>4, <1>5

\* A write-back that leaves the cursor alone.
LEMMA MemWb ==
  ASSUME MemInv, NEW t \in Thread, busy(t), NEW x, Clwb(t, x), req'[t] = req[t], Filled(t)' = Filled(t)
  PROVE  /\ Quiet /\ FilledOK(t)' /\ fn(t)' = fn(t)
         /\ \A a \in Unsent(t)' : a \in Unsent(t) /\ a \notin Line(x)
<1>1. WbEffect(t, x)
  BY ClwbWb DEF MemInv, LocalInv, TypeInv
<1>2. /\ FilledTo(t, Filled(t))
      /\ \A a \in WriteRange(req[t]) : a < Filled(t) /\ a \notin pend'[t] =>
            a \in Unsent(t) /\ a \notin Line(x)
  BY <1>1, WbFills
<1>3. FilledOK(t)' /\ Unsent(t)' = {a \in WriteRange(req[t]) : a < Filled(t) /\ a \notin pend'[t]} /\ fn(t)' = fn(t)
  BY <1>2, FilledStep
<1> QED
  BY <1>1, <1>2, <1>3 DEF WbEffect

LEMMA MemFlushHead ==
  ASSUME MemInv, NEW t \in Thread, FlushHead(t)
  PROVE  Moved(t)
<1>1. /\ busy(t) /\ pc[t] = "fhead" /\ pc'[t] = "k16" /\ req'[t] = req[t] /\ dest'[t] = dest[t]
      /\ need_flush[t] => Clwb(t, req[t].d)
      /\ ~need_flush[t] => UNCHANGED hw
  BY DEF FlushHead, busy, Goto, local, cursor, MemInv, LocalInv, TypeInv, TypeOK
<1>2. SentOK(t) /\ NeedOK(t) /\ dest[t] \in Nat
  BY <1>1, RequestFacts DEF MemInv
<1>3. Filled(t) = dest[t] /\ Filled(t)' = Filled(t)
  BY <1>1 DEF Filled, InBlock, Returned
<1>4. CASE need_flush[t]
  <2>1. /\ Quiet /\ FilledOK(t)' /\ fn(t)' = fn(t)
        /\ \A a \in Unsent(t)' : a \in Unsent(t) /\ a \notin Line(req[t].d)
    BY <1>1, <1>3, <1>4, MemWb
  <2>2. fn(t).edges = "need"
    BY <1>2, <1>4 DEF NeedOK
  <2>3. Unsent(t)' = {}
    BY <1>1, <1>2, <2>1, <2>2 DEF SentOK, Heads
  <2>4. SentOK(t)'
    BY <1>1, <2>3 DEF SentOK, Heads, Blocks, InBlock, Tails
  <2> QED
    BY <2>1, <2>4 DEF Moved
<1>5. CASE ~need_flush[t]
  <2>1. /\ Quiet /\ FilledOK(t)' /\ fn(t)' = fn(t) /\ Unsent(t)' \subseteq Unsent(t)
    BY <1>1, <1>3, <1>5, MemStay
  <2>2. fn(t).edges = "need" => Unsent(t) = {}
    <3> SUFFICES ASSUME fn(t).edges = "need" PROVE Unsent(t) = {}
      OBVIOUS
    <3>1. dest[t] = req[t].d
      BY <1>1, <1>2, <1>5 DEF NeedOK, Heads
    <3>2. \A a \in WriteRange(req[t]) : a \in Nat /\ req[t].d <= a
      BY <1>1, WriteRangeFacts DEF MemInv
    <3> QED
      BY <1>2, <1>3, <3>1, <3>2 DEF Unsent
  <2>3. fn(t).edges = "always" => Unsent(t) = {}
    BY <1>1, <1>2 DEF SentOK, Heads
  <2>4. SentOK(t)'
    BY <1>1, <2>1, <2>2, <2>3 DEF SentOK, Heads, Blocks, InBlock, Tails
  <2> QED
    BY <2>1, <2>4 DEF Moved
<1> QED
  BY <1>4, <1>5

LEMMA FilledInBlock ==
  ASSUME NEW t \in Thread, pc[t] \in InBlock
  PROVE  Filled(t) = dest[t] + 32 * vec[t]
<1>1. pc[t] # "hnext" /\ pc[t] # "fend" /\ pc[t] \notin Returned
  BY DEF InBlock, Returned
<1> QED
  BY <1>1 DEF Filled

LEMMA BlockFills ==
  ASSUME NEW t \in Thread, pc'[t] \in InBlock
  PROVE  Filled(t)' = dest'[t] + 32 * vec'[t]
<1>1. pc'[t] # "hnext" /\ pc'[t] # "fend" /\ pc'[t] \notin Returned
  BY DEF InBlock, Returned
<1> QED
  BY <1>1 DEF Filled, InBlock, Returned

LEMMA MemBlockEnter ==
  ASSUME MemInv, NEW t \in Thread, BlockEnter(t) \/ BlockSkip(t) \/ NeedFlush(t)
  PROVE  Moved(t)
<1>1. /\ busy(t) /\ pc[t] \in Blocks \cup {"need"} /\ req'[t] = req[t] /\ dest'[t] = dest[t] /\ UNCHANGED hw
  BY DEF BlockEnter, BlockSkip, NeedFlush, TakeBlock, Blocks, busy, local, cursor
<1>2. \/ pc'[t] = "vec" /\ vec'[t] = 0
      \/ pc'[t] \in Blocks \cup {"need", "t32"}
  <2>1. CASE BlockEnter(t)
    BY <2>1 DEF BlockEnter, Goto, MemInv, LocalInv, TypeInv, TypeOK
  <2>2. CASE BlockSkip(t)
    <3>1. SkipTo(pc[t]) \in Blocks \cup {"need"}
      BY <2>2 DEF BlockSkip, SkipTo, Blocks
    <3> QED
      BY <2>2, <3>1 DEF BlockSkip, Goto, MemInv, LocalInv, TypeInv, TypeOK
  <2>3. CASE NeedFlush(t)
    BY <2>3 DEF NeedFlush, Goto, MemInv, LocalInv, TypeInv, TypeOK
  <2> QED
    BY <2>1, <2>2, <2>3
<1>3. SentOK(t) /\ dest[t] \in Nat
  BY <1>1, RequestFacts DEF MemInv
<1>4. Filled(t) = dest[t]
  BY <1>1 DEF Filled, Blocks, InBlock, Returned
<1>5. Filled(t)' = dest[t]
  <2>1. CASE pc'[t] = "vec" /\ vec'[t] = 0
    <3>1. Filled(t)' = dest'[t] + 32 * vec'[t]
      BY <2>1 DEF Filled, InBlock, Returned
    <3> QED
      BY <1>1, <1>3, <2>1, <3>1
  <2>2. CASE pc'[t] \in Blocks \cup {"need", "t32"}
    BY <1>1, <2>2 DEF Filled, Blocks, InBlock, Returned
  <2> QED
    BY <1>2, <2>1, <2>2
<1>6. /\ Quiet /\ FilledOK(t)' /\ fn(t)' = fn(t) /\ Unsent(t)' \subseteq Unsent(t)
  BY <1>1, <1>4, <1>5, MemStay
<1>7. fn(t).edges \in {"need", "always"} => Unsent(t)' = {}
  BY <1>1, <1>3, <1>6 DEF SentOK
<1>8. SentOK(t)'
  BY <1>2, <1>6, <1>7 DEF SentOK, Heads, Blocks, InBlock, Tails
<1> QED
  BY <1>6, <1>8 DEF Moved

LEMMA MemBlockStore ==
  ASSUME MemInv, NEW t \in Thread, BlockStore(t)
  PROVE  Moved(t)
<1>1. /\ busy(t) /\ pc[t] = "vec" /\ req'[t] = req[t] /\ dest'[t] = dest[t] /\ vec'[t] = vec[t] + 1
      /\ VecStore(t, fn(t).block, 32 * vec[t], 32) /\ vec[t] < blk[t]
      /\ pc'[t] = IF fn(t).block.clwb = "pair" /\ vec[t] % 2 = 1 THEN "vclwb" ELSE "vec"
  BY DEF BlockStore, busy, Goto, cursor, MemInv, LocalInv, TypeInv, TypeOK
<1>2. /\ SentOK(t) /\ dest[t] \in Nat /\ len[t] \in Nat /\ vec[t] \in Nat /\ blk[t] \in Nat /\ 32 * blk[t] <= len[t]
  BY <1>1, RequestFacts DEF MemInv, LocalInv, TypeInv, TypeOK, BlockOK, InBlock
<1>3. Filled(t) = dest[t] + 32 * vec[t] /\ Filled(t)' = dest[t] + 32 * (vec[t] + 1)
  BY <1>1, FilledInBlock, BlockFills DEF InBlock
<1>4. fn(t).block.clwb = "pair" <=> fn(t).edges = "need"
  BY FnType DEF GoodOp, fn, MemInv, LocalInv, TypeInv
<1>5. 32 * vec[t] \in Nat /\ 32 * vec[t] + 32 <= len[t]
  BY <1>1, <1>2
<1>6. /\ PutEffect(t, dest[t] + 32 * vec[t], dest[t] + 32 * vec[t] + 32)
      /\ fn(t).edges = "always" =>
            \A a \in Addr : Hit(t, dest[t] + 32 * vec[t], dest[t] + 32 * vec[t] + 32, a) => a \in pend'[t]
  BY <1>1, <1>5, VecPut DEF MemInv
<1> DEFINE hi == dest[t] + 32 * vec[t] + 32
<1>7. hi = dest[t] + 32 * (vec[t] + 1) /\ hi \in Nat /\ Filled(t) \in Nat
  BY <1>2, <1>3
<1>8. /\ FilledTo(t, hi)
      /\ \A a \in WriteRange(req[t]) : a < hi /\ a \notin pend'[t] =>
               a \in Unsent(t) \/ Hit(t, Filled(t), hi, a)
  BY <1>1, <1>3, <1>6, <1>7, PutFills
<1>9. FilledOK(t)' /\ Unsent(t)' = {a \in WriteRange(req[t]) : a < hi /\ a \notin pend'[t]} /\ fn(t)' = fn(t)
  BY <1>1, <1>3, <1>7, <1>8, FilledStep
<1>10. WriteRange(req[t]) \subseteq Addr /\ \A a \in WriteRange(req[t]) : a \in Nat
  BY <1>1, WriteRangeFacts DEF MemInv
<1>11. \A a \in Unsent(t)' : a \in Nat /\ (a \in Unsent(t) \/ a >= dest[t] + 32 * vec[t])
  BY <1>3, <1>8, <1>9, <1>10 DEF Hit
<1>12. fn(t).edges = "always" => Unsent(t)' = {}
  BY <1>1, <1>2, <1>3, <1>6, <1>8, <1>9, <1>10 DEF SentOK, InBlock
<1> HIDE DEF hi
<1>13. CASE vec[t] % 2 = 1
  <2>1. fn(t).edges = "need" => \A a \in Unsent(t)' : a >= dest[t] + 32 * (vec'[t] - 2)
    BY <1>1, <1>2, <1>11 DEF SentOK
  <2>2. SentOK(t)'
    BY <1>1, <1>4, <1>9, <1>12, <1>13, <2>1 DEF SentOK, Heads, Blocks, InBlock, Tails
  <2> QED
    BY <1>6, <1>9, <2>2 DEF Moved
<1>14. CASE vec[t] % 2 # 1
  <2>1. fn(t).edges = "need" => Unsent(t) = {}
    BY <1>1, <1>2, <1>14 DEF SentOK
  <2>2. vec'[t] % 2 = 1 /\ vec'[t] - 1 = vec[t]
    BY <1>1, <1>2, <1>14
  <2>3. fn(t).edges = "need" => \A a \in Unsent(t)' : vec'[t] % 2 = 1 /\ a >= dest'[t] + 32 * (vec'[t] - 1)
    BY <1>1, <1>11, <2>1, <2>2
  <2>4. SentOK(t)'
    BY <1>1, <1>9, <1>12, <1>14, <2>3 DEF SentOK, Heads, Blocks, InBlock, Tails
  <2> QED
    BY <1>6, <1>9, <2>4 DEF Moved
<1> QED
  BY <1>13, <1>14

LEMMA MemBlockClwb ==
  ASSUME MemInv, NEW t \in Thread, BlockClwb(t)
  PROVE  Moved(t)
<1> DEFINE x == dest[t] + 32 * (vec[t] - 2)
<1>1. /\ busy(t) /\ pc[t] = "vclwb" /\ pc'[t] = "vec" /\ req'[t] = req[t] /\ dest'[t] = dest[t]
      /\ vec'[t] = vec[t] /\ Clwb(t, x)
  BY DEF BlockClwb, busy, Goto, local, cursor, MemInv, LocalInv, TypeInv, TypeOK
<1>2. /\ SentOK(t) /\ AlignOK(t) /\ dest[t] \in Nat /\ len[t] \in Nat /\ vec[t] \in {2, 4, 6, 8, 10, 12, 14, 16}
      /\ blk[t] \in {2, 4, 8, 16} /\ len[t] >= 32 * blk[t]
  BY <1>1, RequestFacts DEF MemInv, LocalInv, TypeInv, TypeOK, BlockOK, InBlock
<1>3. Filled(t) = dest[t] + 32 * vec[t] /\ Filled(t)' = Filled(t)
  BY <1>1, FilledInBlock, BlockFills DEF InBlock
<1>4. dest[t] % 64 = 0
  BY <1>1, <1>2 DEF AlignOK, InBlock
<1>5. x \in Nat /\ x % 64 = 0 /\ x + 64 = dest[t] + 32 * vec[t]
  BY <1>2, <1>4
<1> HIDE DEF x
<1>6. /\ Quiet /\ FilledOK(t)' /\ fn(t)' = fn(t)
      /\ \A a \in Unsent(t)' : a \in Unsent(t) /\ a \notin Line(x)
  BY <1>1, <1>3, MemWb
<1>7. \A a \in Unsent(t) : a \in Nat /\ a < x + 64
  BY <1>1, <1>3, <1>5, WriteRangeFacts DEF Unsent, MemInv
<1>8. \A a \in Nat : x <= a /\ a < x + 64 => a \in Line(x)
  BY <1>5 DEF Line, LineBase, CACHELINE_SIZE
<1>9. fn(t).edges \in {"need", "always"} => Unsent(t)' = {}
  <2>1. fn(t).edges = "need" => \A a \in Unsent(t) : a >= x
    BY <1>1, <1>2 DEF SentOK, x
  <2>2. fn(t).edges = "always" => Unsent(t) = {}
    BY <1>1, <1>2 DEF SentOK, InBlock
  <2> QED
    BY <1>6, <1>7, <1>8, <2>1, <2>2
<1>10. SentOK(t)'
  BY <1>1, <1>6, <1>9 DEF SentOK, Heads, Blocks, InBlock, Tails
<1> QED
  BY <1>6, <1>10 DEF Moved

LEMMA MemBlockEnd ==
  ASSUME MemInv, NEW t \in Thread, BlockEnd(t)
  PROVE  Moved(t)
<1>1. /\ busy(t) /\ pc[t] = "vec" /\ vec[t] = blk[t] /\ pc'[t] = After(blk[t]) /\ req'[t] = req[t]
      /\ dest'[t] = dest[t] + 32 * blk[t] /\ UNCHANGED hw /\ blk[t] \in {2, 4, 8, 16}
  BY DEF BlockEnd, busy, Goto, Advance, MemInv, LocalInv, TypeInv, TypeOK
<1>2. SentOK(t)
  BY <1>1 DEF MemInv
<1>3. pc'[t] \in {"k16", "k4", "k2", "need"}
  BY <1>1 DEF After
<1>4. Filled(t) = dest[t] + 32 * vec[t] /\ Filled(t)' = dest'[t]
  <2>1. Filled(t) = dest[t] + 32 * vec[t]
    BY <1>1, FilledInBlock DEF InBlock
  <2>2. Filled(t)' = dest'[t]
    BY <1>3 DEF Filled, InBlock, Returned
  <2> QED
    BY <2>1, <2>2
<1>5. /\ Quiet /\ FilledOK(t)' /\ fn(t)' = fn(t) /\ Unsent(t)' \subseteq Unsent(t)
  BY <1>1, <1>4, MemStay
<1>6. fn(t).edges \in {"need", "always"} => Unsent(t)' = {}
  BY <1>1, <1>2, <1>5 DEF SentOK, InBlock
<1>7. SentOK(t)'
  BY <1>3, <1>5, <1>6 DEF SentOK, Heads, Blocks, InBlock, Tails
<1> QED
  BY <1>5, <1>7 DEF Moved

LEMMA MemTail ==
  ASSUME MemInv, NEW t \in Thread, Tail(t)
  PROVE  Moved(t)
<1>1. /\ busy(t) /\ pc[t] = "tail" /\ pc'[t] = "fend" /\ req'[t] = req[t] /\ dest'[t] = dest[t]
      /\ len'[t] = len[t] /\ need_flush'[t] = need_flush[t] /\ cpy_less_16b_noflush(t, len[t])
  BY DEF Tail, busy, Goto, local, cursor, MemInv, LocalInv, TypeInv, TypeOK
<1>2. SentOK(t) /\ AlignOK(t) /\ NeedOK(t) /\ dest[t] \in Nat /\ len[t] \in Nat
  BY <1>1, RequestFacts DEF MemInv
<1>3. len[t] \in 0 .. 15 /\ len[t] < 64
  BY <1>1, <1>2 DEF AlignOK
<1>4. Filled(t) = dest[t] /\ Filled(t)' = dest[t] + len[t]
  BY <1>1 DEF Filled, InBlock, Returned
<1>5. PutEffect(t, dest[t], dest[t] + len[t])
  BY <1>1, <1>2, <1>3, LessPut DEF MemInv
<1>6. /\ FilledTo(t, dest[t] + len[t])
      /\ \A a \in WriteRange(req[t]) : a < dest[t] + len[t] /\ a \notin pend'[t] =>
               a \in Unsent(t) \/ Hit(t, dest[t], dest[t] + len[t], a)
  <2>1. dest[t] + len[t] \in Nat
    BY <1>2
  <2> QED
    BY <1>1, <1>2, <1>4, <1>5, <2>1, PutFills
<1>7. FilledOK(t)' /\ Unsent(t)' = {a \in WriteRange(req[t]) : a < dest[t] + len[t] /\ a \notin pend'[t]} /\ fn(t)' = fn(t)
  BY <1>1, <1>4, <1>6, FilledStep
<1>8. \A a \in dest[t] .. (dest[t] + len[t] - 1) : a \in Line(dest[t])
  <2>1. len[t] > 0 => dest[t] % 16 = 0
    BY <1>1, <1>2 DEF AlignOK, Tails
  <2>2. ~(len[t] >= 16) /\ ~(len[t] >= 32)
    BY <1>2, <1>3
  <2> QED
    BY <1>2, <1>3, <2>1, <2>2, TailInLine
<1>9. \A a \in Unsent(t)' : a \in Unsent(t) \/ (a \in Line(dest[t]) /\ len[t] # 0)
  <2>1. \A a \in WriteRange(req[t]) : a \in Nat
    BY <1>1, WriteRangeFacts DEF MemInv
  <2>2. \A a \in Nat : dest[t] <= a /\ a < dest[t] + len[t] => a \in Line(dest[t]) /\ len[t] # 0
    BY <1>2, <1>8
  <2> QED
    BY <1>6, <1>7, <2>1, <2>2 DEF Hit
<1>10. fn(t).edges = "need" => \A a \in Unsent(t)' : need_flush[t] /\ a \in Line(dest[t])
  BY <1>1, <1>2, <1>9 DEF SentOK, NeedOK, Tails
<1>11. fn(t).edges = "always" => Unsent(t)' \subseteq Line(dest[t])
  BY <1>1, <1>2, <1>9 DEF SentOK
<1>12. SentOK(t)'
  BY <1>1, <1>7, <1>10, <1>11 DEF SentOK, Heads, Blocks, InBlock, Tails
<1> QED
  BY <1>5, <1>7, <1>12 DEF Moved

LEMMA MemFlushEnd ==
  ASSUME MemInv, NEW t \in Thread, FlushEnd(t)
  PROVE  Moved(t)
<1>1. /\ busy(t) /\ pc[t] = "fend" /\ pc'[t] = "ret" /\ req'[t] = req[t]
      /\ TakeFlushEnd(t) => Clwb(t, dest[t])
      /\ ~TakeFlushEnd(t) => UNCHANGED hw
  BY DEF FlushEnd, busy, Goto, local, MemInv, LocalInv, TypeInv, TypeOK
<1>2. SentOK(t) /\ dest[t] + len[t] = req[t].d + req[t].n
  BY <1>1, RequestFacts DEF MemInv
<1>3. Filled(t)' = Filled(t)
  <2>1. Filled(t) = dest[t] + len[t]
    BY <1>1 DEF Filled, InBlock, Returned
  <2>2. Filled(t)' = req[t].d + req[t].n
    BY <1>1 DEF Filled, InBlock, Returned
  <2> QED
    BY <1>2, <2>1, <2>2
<1>4. CASE TakeFlushEnd(t)
  <2>1. /\ Quiet /\ FilledOK(t)' /\ fn(t)' = fn(t)
        /\ \A a \in Unsent(t)' : a \in Unsent(t) /\ a \notin Line(dest[t])
    BY <1>1, <1>3, <1>4, MemWb
  <2>2. fn(t).edges \in {"need", "always"} => Unsent(t)' = {}
    BY <1>1, <1>2, <2>1 DEF SentOK, Tails
  <2>3. SentOK(t)'
    BY <1>1, <2>1, <2>2 DEF SentOK, Heads, Blocks, InBlock, Tails
  <2> QED
    BY <2>1, <2>3 DEF Moved
<1>5. CASE ~TakeFlushEnd(t)
  <2>1. /\ Quiet /\ FilledOK(t)' /\ fn(t)' = fn(t) /\ Unsent(t)' \subseteq Unsent(t)
    BY <1>1, <1>3, <1>5, MemStay
  <2>2. fn(t).edges # "always" /\ ~need_flush[t]
    BY <1>5 DEF TakeFlushEnd
  <2>3. fn(t).edges = "need" => Unsent(t)' = {}
    BY <1>1, <1>2, <2>1, <2>2 DEF SentOK, Tails
  <2>4. SentOK(t)'
    BY <1>1, <2>1, <2>2, <2>3 DEF SentOK, Heads, Blocks, InBlock, Tails
  <2> QED
    BY <2>1, <2>4 DEF Moved
<1> QED
  BY <1>4, <1>5

LEMMA MemReturn ==
  ASSUME MemInv, NEW t \in Thread, Return(t)
  PROVE  Moved(t)
<1>1. /\ busy(t) /\ pc[t] = "ret" /\ req'[t] = req[t] /\ UNCHANGED hw
      /\ uptr'[t] = LineBase(req[t].d)
      /\ pc'[t] = IF req[t].op.then = "nothing" THEN "idle" ELSE req[t].op.then
  BY DEF Return, busy, Goto, MemInv, LocalInv, TypeInv, TypeOK
<1>2. /\ GoodOp(req[t].op) /\ SentOK(t) /\ req[t].d \in Nat
  BY <1>1, FnType, RequestFacts DEF MemInv, LocalInv, TypeInv
<1>3. CASE req[t].op.then = "nothing"
  BY <1>1, <1>3, HwQuiet DEF Moved, busy, FilledOK
<1>4. CASE req[t].op.then # "nothing"
  <2>1. pc'[t] \in {"fence", "extent"} /\ pc'[t] = req[t].op.then
    BY <1>1, <1>2, <1>4 DEF GoodOp
  <2>2. Filled(t)' = Filled(t)
    <3>1. Filled(t) = req[t].d + req[t].n
      BY <1>1 DEF Filled, InBlock, Returned
    <3>2. Filled(t)' = req[t].d + req[t].n
      BY <1>1, <2>1 DEF Filled, InBlock, Returned
    <3> QED
      BY <3>1, <3>2
  <2>3. /\ Quiet /\ FilledOK(t)' /\ fn(t)' = fn(t) /\ Unsent(t)' \subseteq Unsent(t)
    BY <1>1, <2>2, MemStay
  <2>4. pc'[t] = "fence" => Unsent(t)' = {}
    <3>1. pc'[t] = "fence" => fn(t).edges \in {"need", "always"}
      BY <1>2, <2>1 DEF GoodOp, fn
    <3> QED
      BY <1>1, <1>2, <2>3, <3>1 DEF SentOK
  <2>5. uptr'[t] % 64 = 0 /\ \A a \in Unsent(t)' : a >= uptr'[t]
    <3>1. LineBase(req[t].d) \in Nat /\ LineBase(req[t].d) % 64 = 0 /\ LineBase(req[t].d) <= req[t].d
      BY <1>2, LineBaseAligned
    <3>2. \A a \in Unsent(t) : a \in Nat /\ req[t].d <= a
      BY <1>1, WriteRangeFacts DEF MemInv, Unsent
    <3> QED
      BY <1>1, <1>2, <2>3, <3>1, <3>2
  <2>6. SentOK(t)'
    BY <1>1, <2>1, <2>4, <2>5 DEF SentOK, Heads, Blocks, InBlock, Tails
  <2> QED
    BY <2>3, <2>6 DEF Moved
<1> QED
  BY <1>3, <1>4

LEMMA MemExtent ==
  ASSUME MemInv, NEW t \in Thread, clwb_extent(t)
  PROVE  Moved(t)
<1> DEFINE more == uptr[t] < req[t].d + req[t].n
<1>1. /\ busy(t) /\ pc[t] = "extent" /\ req'[t] = req[t]
      /\ more => Clwb(t, uptr[t]) /\ uptr'[t] = uptr[t] + 64 /\ pc'[t] = "extent"
      /\ ~more => pc'[t] = "fence" /\ UNCHANGED hw
  BY DEF clwb_extent, busy, Goto, MemInv, LocalInv, TypeInv, TypeOK, CACHELINE_SIZE
<1>2. /\ SentOK(t) /\ uptr[t] \in Nat /\ req[t].d \in Nat /\ req[t].n \in Nat
  BY <1>1, RequestFacts DEF MemInv, LocalInv, TypeInv, TypeOK
<1>3. /\ Filled(t) = req[t].d + req[t].n /\ Filled(t)' = Filled(t)
  BY <1>1 DEF Filled, InBlock, Returned
<1>4. \A a \in Unsent(t) : a \in Nat /\ a >= uptr[t] /\ a < req[t].d + req[t].n
  BY <1>1, <1>2, <1>3, WriteRangeFacts DEF SentOK, Unsent, MemInv
<1>5. CASE more
  <2>1. /\ Quiet /\ FilledOK(t)' /\ fn(t)' = fn(t)
        /\ \A a \in Unsent(t)' : a \in Unsent(t) /\ a \notin Line(uptr[t])
    BY <1>1, <1>3, <1>5, MemWb
  <2>2. uptr[t] % 64 = 0 /\ req[t].op.then = "extent"
    BY <1>1, <1>2 DEF SentOK
  <2>3. \A a \in Nat : uptr[t] <= a /\ a < uptr[t] + 64 => a \in Line(uptr[t])
    BY <1>2, <2>2 DEF Line, LineBase, CACHELINE_SIZE
  <2>4. uptr'[t] % 64 = 0
    BY <1>1, <1>2, <1>5, <2>2
  <2>5. \A a \in Unsent(t)' : a >= uptr'[t]
    BY <1>1, <1>2, <1>4, <1>5, <2>1, <2>3
  <2>6. SentOK(t)'
    BY <1>1, <1>5, <2>2, <2>4, <2>5 DEF SentOK, Heads, Blocks, InBlock, Tails
  <2> QED
    BY <2>1, <2>6 DEF Moved
<1>6. CASE ~more
  <2>1. /\ Quiet /\ FilledOK(t)' /\ fn(t)' = fn(t) /\ Unsent(t)' \subseteq Unsent(t)
    BY <1>1, <1>3, <1>6, MemStay
  <2>2. Unsent(t)' = {}
    BY <1>2, <1>4, <1>6, <2>1
  <2>3. SentOK(t)'
    BY <1>1, <1>6, <2>2 DEF SentOK, Heads, Blocks, InBlock, Tails
  <2> QED
    BY <2>1, <2>3 DEF Moved
<1> QED
  BY <1>5, <1>6

-----------------------------------------------------------------------------
(***************************************************************************)
(* Every step of the system.                                               *)
(***************************************************************************)
\* The instructions of a call up to its sfence.
LEMMA MemMoved ==
  ASSUME MemInv, LocalInv', NEW t \in Thread, Step(t), ~Fault(t), ~Fence(t)
  PROVE  Moved(t) /\ busy(t)
<1>1. Moved(t)
  BY MemHeadSkip, MemHead, MemHeadNext, MemA16, MemA32, MemFlushHead, MemBlockEnter,
     MemBlockStore, MemBlockClwb, MemBlockEnd, MemT32, MemT16, MemTail, MemFlushEnd,
     MemReturn, MemExtent DEF Step
<1>2. busy(t)
  BY DEF Step, HeadSkip, Head, HeadNext, A16, A32, T32, T16, VecStep, FlushHead, FlushEnd,
     NeedFlush, Tail, BlockEnter, BlockSkip, TakeBlock, Blocks, BlockStore, BlockClwb, BlockEnd, Return,
     clwb_extent, busy
<1> QED
  BY <1>1, <1>2

LEMMA MemInstruction ==
  ASSUME MemInv, LocalInv', NEW t \in Thread, Step(t), ~Fault(t), ~Fence(t)
  PROVE  MemInv'
<1>1. Moved(t) /\ busy(t)
  BY MemMoved
<1>2. up /\ up' /\ may' = may /\ req' = req
  BY DEF Step, HeadSkip, Head, HeadNext, A16, A32, T32, T16, VecStep, FlushHead, FlushEnd,
     NeedFlush, Tail, BlockEnter, BlockSkip, BlockStore, BlockClwb, BlockEnd, Return,
     clwb_extent, local, history
<1>3. ASSUME NEW u \in Thread, u # t
      PROVE  SameLocals(u) /\ FilledOK(u)' /\ (busy(u) => SentOK(u))'
  <2>1. SameLocals(u)
    BY <1>3, OthersLocals DEF MemInv, LocalInv, TypeInv
  <2>2. busy(u) => MemFrame(u)
    BY <1>1, <1>3, PutFrame, QuietFrame DEF Moved
  <2> QED
    BY <2>1, <2>2, FrameOK
<1>4. \A u \in Thread : FilledOK(u)' /\ (busy(u) => SentOK(u))'
  BY <1>1, <1>3 DEF Moved
<1>5. \A u \in Thread : busy(u)' => busy(u)
  BY <1>1, <1>3 DEF SameLocals, busy
<1>6. CallsOK'
  BY <1>2, <1>5 DEF MemInv, CallsOK, WriteRange, New
<1>7. pm' = pm /\ \A a \in Addr : mem'[a] = mem[a] \/ (a \in WriteRange(req[t]) /\ mem'[a] \in New(req[t], a))
  BY <1>1 DEF Moved, PutEffect, Quiet, Hit
<1>8. \A a \in WriteRange(req[t]) : New(req[t], a) \subseteq may[a]
  BY <1>1 DEF MemInv, CallsOK
<1>9. Contained' /\ Durable'
  BY <1>2, <1>7, <1>8 DEF MemInv, Contained, Durable
<1> QED
  BY <1>4, <1>6, <1>9 DEF MemInv

\* sfence: the destination is filled and all of it is on its way.
LEMMA MemFence ==
  ASSUME MemInv, LocalInv', NEW t \in Thread, Fence(t)
  PROVE  MemInv'
<1>1. /\ busy(t) /\ pc[t] = "fence" /\ pc'[t] = "idle" /\ up /\ up' /\ req' = req /\ mem' = mem
      /\ pm' = [a \in Addr |-> IF a \in pend[t] THEN mem[a] ELSE pm[a]]
      /\ may' = [a \in Addr |-> IF a \in WriteRange(req[t]) THEN New(req[t], a) ELSE may[a]]
      /\ \A u \in Thread : u # t => pend'[u] = pend[u]
  BY DEF Fence, Sfence, busy, Goto, local, MemInv, LocalInv, TypeInv, TypeOK
<1>2. SentOK(t) /\ FilledOK(t) /\ Filled(t) = req[t].d + req[t].n
  BY <1>1 DEF MemInv, Filled, InBlock, Returned
<1>3. /\ WriteRange(req[t]) \subseteq Addr
      /\ \A a \in WriteRange(req[t]) : a < req[t].d + req[t].n
  BY <1>1, WriteRangeFacts DEF MemInv
<1>4. \A a \in WriteRange(req[t]) : mem[a] \in New(req[t], a) /\ a \in pend[t]
  BY <1>1, <1>2, <1>3 DEF FilledOK, SentOK, Unsent
<1>5. Contained' /\ Durable'
  BY <1>1, <1>3, <1>4 DEF MemInv, Contained, Durable
<1>6. ASSUME NEW u \in Thread, u # t
      PROVE  SameLocals(u) /\ FilledOK(u)' /\ (busy(u) => SentOK(u))'
  <2>1. SameLocals(u)
    BY <1>6, OthersLocals DEF MemInv, LocalInv, TypeInv, Step, Fault, Fence, VectorFault, PageFault, TakeBlock, Blocks
  <2>2. MemFrame(u)
    BY <1>1, <1>6 DEF MemFrame
  <2> QED
    BY <2>1, <2>2, FrameOK
<1>7. FilledOK(t)' /\ (busy(t) => SentOK(t))'
  BY <1>1 DEF busy, FilledOK
<1>8. CallsOK'
  <2>1. \A u \in Thread : busy(u)' => busy(u) /\ u # t
    BY <1>1, <1>6 DEF SameLocals, busy
  <2>2. \A u \in Thread : busy(u)' => WriteRange(req[u]) \subseteq Addr /\ WriteRange(req[t]) \cap WriteRange(req[u]) = {}
    BY <1>1, <2>1, WriteRangeFacts DEF MemInv, CallsOK
  <2>3. \A u \in Thread : busy(u)' => \A a \in WriteRange(req[u]) : may'[a] = may[a]
    BY <1>1, <2>2
  <2>4. \A u \in Thread : busy(u)' => \A a \in WriteRange(req[u]) : New(req[u], a) \subseteq may'[a]
    BY <2>1, <2>3 DEF MemInv, CallsOK
  <2>5. \A u \in Thread : WriteRange(req[u])' = WriteRange(req[u])
                          /\ \A a : New(req[u], a)' = New(req[u], a)
    BY <1>1 DEF WriteRange, New
  <2> QED
    BY <1>1, <2>1, <2>4, <2>5 DEF MemInv, CallsOK
<1> QED
  BY <1>5, <1>6, <1>7, <1>8 DEF MemInv

LEMMA MemCall ==
  ASSUME MemInv, LocalInv', NEW t \in Thread, Call(t)
  PROVE  MemInv'
<1>1. PICK r \in Requests : Begin(t, r)
  BY DEF Call
<1>2. /\ up /\ up' /\ pc[t] = "idle" /\ pc'[t] = "head" /\ req'[t] = r /\ dest'[t] = r.d /\ UNCHANGED hw
      /\ \A u \in Thread : u # t /\ busy(u) => WriteRange(req[u]) \cap WriteRange(r) = {}
      /\ may' = [a \in Addr |-> IF a \in WriteRange(r) THEN may[a] \cup New(r, a) ELSE may[a]]
  BY <1>1 DEF Call, Begin, busy, Goto, MemInv, LocalInv, TypeInv, TypeOK
<1>3. ASSUME NEW u \in Thread, u # t
      PROVE  SameLocals(u) /\ FilledOK(u)' /\ (busy(u) => SentOK(u))'
  <2>1. SameLocals(u)
    BY <1>3, OthersLocals DEF MemInv, LocalInv, TypeInv
  <2>2. MemFrame(u)
    BY <1>2 DEF MemFrame, hw
  <2> QED
    BY <2>1, <2>2, FrameOK
<1>4. r.d \in Nat /\ r.n \in Nat /\ WriteRange(r) \subseteq Addr /\ \A a \in WriteRange(r) : a \in Nat /\ r.d <= a
  <2>1. r.d \in Nat /\ r.n \in Nat /\ r.d .. (r.d + r.n - 1) \subseteq Addr
    BY RequestsAssumption DEF Shape
  <2> QED
    BY <2>1 DEF WriteRange
<1>5. Filled(t)' = r.d
  BY <1>2 DEF Filled, InBlock, Returned
<1>6. FilledOK(t)' /\ SentOK(t)'
  <2>1. WriteRange(req[t])' = WriteRange(r)
    BY <1>2 DEF WriteRange
  <2>2. \A a \in WriteRange(r) : ~(a < Filled(t)')
    BY <1>4, <1>5
  <2>3. FilledOK(t)'
    BY <2>1, <2>2 DEF FilledOK
  <2>4. SentOK(t)'
    BY <1>2 DEF SentOK, Heads, Blocks, InBlock, Tails
  <2> QED
    BY <2>3, <2>4
<1>7. \A u \in Thread : u # t => pc'[u] = pc[u] /\ req'[u] = req[u]
  BY <1>3 DEF SameLocals
<1>8. CallsOK'
  <2>1. \A a \in Addr : may[a] \subseteq may'[a] /\ (a \in WriteRange(r) => New(r, a) \subseteq may'[a])
    BY <1>2
  <2>2. ASSUME NEW u \in Thread, busy(u)' PROVE \A a \in WriteRange(req'[u]) : New(req'[u], a) \subseteq may'[a]
    <3>1. CASE u = t
      BY <1>2, <1>4, <2>1, <3>1
    <3>2. CASE u # t
      <4>1. busy(u) /\ req'[u] = req[u]
        BY <1>7, <2>2, <3>2 DEF busy
      <4>2. WriteRange(req[u]) \subseteq Addr /\ \A a \in WriteRange(req[u]) : New(req[u], a) \subseteq may[a]
        BY <4>1, WriteRangeFacts DEF MemInv, CallsOK
      <4> QED
        BY <2>1, <4>1, <4>2
    <3> QED
      BY <3>1, <3>2
  <2>3. ASSUME NEW v \in Thread, NEW u \in Thread, v # u, busy(v)', busy(u)'
        PROVE  WriteRange(req'[v]) \cap WriteRange(req'[u]) = {}
    <3>1. CASE v = t
      BY <1>2, <1>7, <2>3, <3>1 DEF busy
    <3>2. CASE u = t
      BY <1>2, <1>7, <2>3, <3>2 DEF busy
    <3>3. CASE v # t /\ u # t
      BY <1>7, <2>3, <3>3 DEF busy, MemInv, CallsOK
    <3> QED
      BY <3>1, <3>2, <3>3
  <2> QED
    BY <1>2, <2>2, <2>3 DEF CallsOK, WriteRange, New
<1>9. Contained' /\ Durable'
  BY <1>2 DEF MemInv, Contained, Durable, hw
<1> QED
  BY <1>3, <1>6, <1>8, <1>9 DEF MemInv

\* The process or the machine stops: no call is running any more.
LEMMA MemStopped ==
  ASSUME MemInv, LocalInv', \A u \in Thread : pc'[u] = "idle", may' = may, pm' = pm,
         \A a \in Addr : mem'[a] \in {mem[a], pm[a]}
  PROVE  MemInv'
<1>1. \A u \in Thread : ~busy(u)'
  BY DEF busy
<1>2. CallsOK' /\ \A u \in Thread : FilledOK(u)' /\ (busy(u) => SentOK(u))'
  BY <1>1 DEF CallsOK, FilledOK
<1>3. Contained' /\ Durable'
  BY DEF MemInv, Contained, Durable
<1> QED
  BY <1>2, <1>3 DEF MemInv

\* A step of nobody's: a restart, an eviction, a stutter.
LEMMA MemOutside ==
  ASSUME MemInv, LocalInv', \A u \in Thread : SameLocals(u), mem' = mem, pend' = pend, may' = may,
         up' = up \/ up', \A a \in Addr : pm'[a] \in {mem[a], pm[a]}
  PROVE  MemInv'
<1>1. \A u \in Thread : FilledOK(u)' /\ (busy(u) => SentOK(u))'
  BY FrameOK DEF MemFrame
<1>2. \A u \in Thread : pc'[u] = pc[u] /\ req'[u] = req[u]
  BY DEF SameLocals
<1>3. CallsOK'
  BY <1>2 DEF MemInv, CallsOK, busy, WriteRange, New
<1>4. Contained' /\ Durable'
  BY DEF MemInv, Contained, Durable
<1> QED
  BY <1>1, <1>3, <1>4 DEF MemInv

LEMMA MemInit == Init => MemInv
<1> SUFFICES ASSUME Init PROVE MemInv
  OBVIOUS
<1>1. LocalInv
  BY LocalInit
<1>2. \A t \in Thread : ~busy(t)
  BY DEF Init, busy
<1>3. CallsOK /\ \A t \in Thread : FilledOK(t) /\ (busy(t) => SentOK(t))
  BY <1>2 DEF CallsOK, FilledOK
<1>4. Contained /\ Durable
  BY DEF Init, Contained, Durable
<1> QED
  BY <1>1, <1>3, <1>4 DEF MemInv

LEMMA MemStep == MemInv /\ [Next]_vars => MemInv'
<1> SUFFICES ASSUME MemInv, [Next]_vars PROVE MemInv'
  OBVIOUS
<1>1. LocalInv'
  BY LocalStep DEF MemInv
<1>2. ASSUME NEW t \in Thread, Step(t) PROVE MemInv'
  <2>1. CASE Fault(t)
    BY <1>1, <2>1, MemStopped DEF Fault
  <2>2. CASE Fence(t)
    BY <1>1, <2>2, MemFence
  <2> QED
    BY <1>1, <1>2, <2>1, <2>2, MemInstruction
<1>3. ASSUME NEW t \in Thread, Call(t) PROVE MemInv'
  BY <1>1, <1>3, MemCall
<1>4. CASE PowerFailure
  BY <1>1, <1>4, MemStopped DEF PowerFailure, LosePower, history
<1>5. CASE Restart \/ Eviction \/ Terminated \/ UNCHANGED vars
  <2>1. \A u \in Thread : SameLocals(u)
    BY <1>5 DEF Restart, Eviction, Terminated, vars, local, cursor, SameLocals
  <2>2. mem' = mem /\ pend' = pend /\ may' = may /\ (up' = up \/ up')
    BY <1>5 DEF Restart, Eviction, Evict, Terminated, vars, hw, history
  <2>3. \A a \in Addr : pm'[a] \in {mem[a], pm[a]}
    BY <1>5 DEF Restart, Eviction, Evict, Terminated, vars, hw
  <2> QED
    BY <1>1, <2>1, <2>2, <2>3, MemOutside
<1> QED
  BY <1>2, <1>3, <1>4, <1>5 DEF Next

-----------------------------------------------------------------------------
\* The inductive invariant holds for every set of threads, addresses, calls
\* and evictions.
THEOREM InvariantHolds == Spec => []IInv
<1>1. Init => MemInv
  BY MemInit
<1>2. MemInv /\ [Next]_vars => MemInv'
  BY MemStep
<1>3. MemInv /\ WbInv /\ FaultsExplained => IInv
  BY DEF MemInv, LocalInv, TypeInv, WbInv, IInv
<1> QED
  BY <1>1, <1>2, <1>3, WbInit, WbStep, FaultsAreExplained, PTL DEF Spec

\* Durability: whatever the interleaving of the threads, the evictions and the
\* power failures, the media holds at each address a value it may have; once
\* clwb_extent or the write-backs inside the function and then the sfence have
\* been executed, that is the value the call stored.
THEOREM DurableCorrect == Spec => []Durable
<1>1. IInv => Durable
  BY DEF IInv
<1> QED
  BY <1>1, InvariantHolds, PTL

\* Containment: no store of the copy and just-store functions lands outside
\* the destination of its call or brings a wrong byte into it.
THEOREM ContainedCorrect == Spec => []Contained
<1>1. IInv => Contained
  BY DEF IInv
<1> QED
  BY <1>1, InvariantHolds, PTL

\* Completeness: when a copy function returns, every byte of its destination
\* holds the byte of the source, for every alignment and every length.
THEOREM CopiedCorrect == Spec => []Copied
<1>1. MemInv => Copied
  <2> SUFFICES ASSUME MemInv, NEW t \in Thread, pc[t] \in {"ret", "extent", "fence"},
                      NEW a \in WriteRange(req[t])
               PROVE  mem[a] \in New(req[t], a)
    BY DEF Copied
  <2>1. busy(t) /\ FilledOK(t) /\ Filled(t) = req[t].d + req[t].n
    BY DEF busy, MemInv, Filled, InBlock, Returned
  <2>2. a < req[t].d + req[t].n
    BY <2>1, WriteRangeFacts DEF MemInv
  <2> QED
    BY <2>1, <2>2 DEF FilledOK
<1> QED
  BY <1>1, MemInit, MemStep, PTL DEF Spec
=============================================================================
