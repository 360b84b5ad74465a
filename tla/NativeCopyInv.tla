--------------------------- MODULE NativeCopyInv ---------------------------
(***************************************************************************)
(* The inductive invariant of NativeCopy: where dest is, which bytes have  *)
(* been filled, and which of those are still only in the cache.            *)
(***************************************************************************)
EXTENDS NativeCopy

busy(t) == pc[t] # "idle"

InLines == {"head", "loop", "tail", "clwb"}
Filling == {"fill", "clwb"}
Returned == {"ret", "extent", "fence", "pmdk"}

\* dest, src and len advance together; only the line-wise functions move.
CursorOK(t) ==
    busy(t) =>
        /\ req[t] \in Requests
        /\ req[t].d <= dest[t]
        /\ dest[t] + len[t] = req[t].d + req[t].n
        /\ src[t] - dest[t] = req[t].s - req[t].d
        /\ pc[t] \in {"whole", "head", "word"} => dest[t] = req[t].d
        /\ pc[t] \in {"loop", "tail"} => (len[t] > 0 => dest[t] % CACHELINE_SIZE = 0)
        /\ pc[t] = "tail" => len[t] < CACHELINE_SIZE

\* The operation is one that has this part.
OpOK(t) ==
    /\ pc[t] \in {"whole", "fill"} \cup InLines => req[t].op.fill \in {"cpy", "set"}
    /\ pc[t] \in InLines => req[t].op.lines
    /\ pc[t] = "whole" => ~req[t].op.lines
    /\ pc[t] = "word" => /\ req[t].op.fill = "words"
                         /\ i[t] % 8 = 0
    /\ pc[t] \in {"extent", "pmdk"} => req[t].op.then = pc[t]
    /\ pc[t] = "fence" => req[t].op.then \in {"extent", "fence"}

\* The memcpy or memset in progress stays within what is left to fill, and in
\* a line-wise function within one line, up to whose end or up to the end of
\* the destination it goes.
CallOK(t) ==
    pc[t] \in Filling =>
        /\ cnt[t] <= len[t]
        /\ todo[t] \subseteq dest[t] .. (dest[t] + cnt[t] - 1)
        /\ pc[t] = "clwb" => todo[t] = {}
        /\ after[t] = "ret" => cnt[t] = len[t]
        /\ req[t].op.lines =>
              /\ dest[t] + cnt[t] <= LineBase(dest[t]) + CACHELINE_SIZE
              /\ cnt[t] < len[t] => dest[t] + cnt[t] = LineBase(dest[t]) + CACHELINE_SIZE
        /\ ~req[t].op.lines => after[t] = "ret" /\ dest[t] = req[t].d

\* Byte a of the destination has been filled.
Done(t, a) ==
    CASE pc[t] \in Filling    -> a < dest[t] + cnt[t] /\ a \notin todo[t]
      [] pc[t] = "word"       -> a < dest[t] + 8 * i[t]
      [] pc[t] \in Returned   -> TRUE
      [] OTHER                -> a < dest[t]

FilledOK(t) ==
    busy(t) => \A a \in Target(req[t]) : Done(t, a) => mem[a] \in New(req[t], a)

\* Filled and not on its way to the media.
Unsent(t) == {a \in Target(req[t]) : Done(t, a) /\ a \notin pend[t]}

SentOK(t) ==
    /\ req[t].op.lines =>
          /\ pc[t] \in {"head", "loop", "tail", "ret"} => Unsent(t) = {}
          /\ pc[t] \in Filling => Unsent(t) \subseteq Line(dest[t])
    /\ pc[t] = "extent" => /\ uptr[t] % CACHELINE_SIZE = 0
                           /\ \A a \in Unsent(t) \cap ExtentLines(req[t]) : a >= uptr[t]
    /\ pc[t] = "fence" => Unsent(t) \cap Saved(req[t]) = {}

\* Running calls write to disjoint bytes; when the process is down none runs.
CallsOK ==
    /\ ~up => \A t \in Thread : ~busy(t)
    /\ \A t, u \in Thread : t # u /\ busy(t) /\ busy(u) =>
          Target(req[t]) \cap Target(req[u]) = {}

\* The inductive invariant.  At each point of cpy_native_flush,
\* memset_native_flush, aep_native_store_dram and the operations around them
\* it says which bytes of the destination are filled, and that the filled
\* bytes still in the cache alone lie in the line of dest, whose clwb is next,
\* or in the lines that clwb_extent has yet to visit.
NativeInv ==
    /\ TypeOK
    /\ CallsOK
    /\ \A t \in Thread : CursorOK(t) /\ OpOK(t) /\ CallOK(t)
    /\ \A t \in Thread : FilledOK(t) /\ (busy(t) => SentOK(t))
=============================================================================
