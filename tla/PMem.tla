-------------------------------- MODULE PMem --------------------------------
(***************************************************************************)
(* Byte-addressable persistent memory behind the x86 cache, as the macros  *)
(* clwb and sfence of util/aep.h and the store instructions of             *)
(* util/instr.h use it.  The hardware itself is not part of the            *)
(* repository; this module is the contract the code relies on.             *)
(*                                                                         *)
(*   mem   what a load sees (cache, write-combining buffers and media)     *)
(*   pm    what survives a power failure                                   *)
(*   pend  for each thread, the bytes whose present value that thread has  *)
(*         already sent towards the media (clwb or a non-temporal store)   *)
(*         and that its next sfence makes durable                          *)
(*                                                                         *)
(* A later store to a byte takes it out of every pend set: the new value   *)
(* is in the cache again.                                                  *)
(***************************************************************************)
EXTENDS Integers

CONSTANTS Thread,       \* the benchmark's threads
          Addr,         \* the byte addresses of the mapping
          EvictWords    \* the 8-byte words the hardware may write back on its
                        \* own (a bound for TLC; any set is allowed)

ASSUME AddrAssumption == Addr \subseteq Nat

ASSUME EvictAssumption == EvictWords \subseteq Nat

VARIABLES mem, pm, pend

hw == <<mem, pm, pend>>

CACHELINE_SIZE == 64

\* addr & CACHELINE_UNMASK
LineBase(a) == a - (a % CACHELINE_SIZE)

Line(a) == LineBase(a) .. (LineBase(a) + CACHELINE_SIZE - 1)

\* Eight bytes are the largest unit the media writes all or nothing.
Word(w) == (8 * w) .. (8 * w + 7)

\* The bytes W take the values v; cached, so nothing is on its way out.
Store(W, v) ==
    /\ mem' = [a \in Addr |-> IF a \in W THEN v[a] ELSE mem[a]]
    /\ pend' = [u \in Thread |-> pend[u] \ W]
    /\ UNCHANGED pm

\* A non-temporal store bypasses the cache: t's next sfence covers it.
NtStore(t, W, v) ==
    /\ mem' = [a \in Addr |-> IF a \in W THEN v[a] ELSE mem[a]]
    /\ pend' = [u \in Thread |-> IF u = t THEN pend[u] \cup (W \cap Addr)
                                       ELSE pend[u] \ W]
    /\ UNCHANGED pm

\* clwb writes back the whole line, whoever stored its bytes.
Clwb(t, a) ==
    /\ pend' = [pend EXCEPT ![t] = @ \cup (Line(a) \cap Addr)]
    /\ UNCHANGED <<mem, pm>>

Sfence(t) ==
    /\ pm' = [a \in Addr |-> IF a \in pend[t] THEN mem[a] ELSE pm[a]]
    /\ pend' = [pend EXCEPT ![t] = {}]
    /\ UNCHANGED mem

\* An eviction, or a write-combining buffer that drains, at any time.
Evict(w) ==
    /\ pm' = [a \in Addr |-> IF a \in Word(w) THEN mem[a] ELSE pm[a]]
    /\ UNCHANGED <<mem, pend>>

\* What power loss does to memory: only the media is left.
LosePower ==
    /\ mem' = pm
    /\ pend' = [u \in Thread |-> {}]
    /\ UNCHANGED pm
=============================================================================
