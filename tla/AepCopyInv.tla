---------------------------- MODULE AepCopyInv ----------------------------
(***************************************************************************)
(* The inductive invariant of AepCopy: why no line is missed.              *)
(***************************************************************************)
EXTENDS AepCopy

busy(t) == pc[t] # "idle"

Heads == {"a16", "a32", "fhead"}
InBlock == {"vec", "vclwb"}
Tails == {"t32", "t16", "tail", "fend"}
Returned == {"ret", "extent", "fence"}

\* The kernel in progress stays within what is left to copy.
BlockOK(t) ==
    pc[t] \in InBlock => /\ vec[t] <= blk[t]
                         /\ 32 * blk[t] <= len[t]
                         /\ pc[t] = "vclwb" => vec[t] \in {2, 4, 6, 8, 10, 12, 14, 16}

\* dest, src and len advance together.
CursorOK(t) ==
    busy(t) => /\ req[t] \in Requests
               /\ req[t].d <= dest[t]
               /\ dest[t] + len[t] = req[t].d + req[t].n
               /\ src[t] - dest[t] = req[t].s - req[t].d

\* How far dest is aligned at each point of the function, and how much can
\* be left there.
AlignOK(t) ==
    /\ pc[t] \in {"head", "hnext"} => dest[t] = req[t].d
    /\ pc[t] = "hnext" => dest[t] % 16 # 0
    /\ pc[t] \in Heads \cup Blocks \cup InBlock \cup {"need"} \cup Tails =>
          (len[t] > 0 => dest[t] % 16 = 0)
    /\ pc[t] \in (Heads \ {"a16"}) \cup Blocks \cup InBlock \cup {"need"} \cup Tails =>
          (len[t] >= 16 => dest[t] % 32 = 0)
    /\ pc[t] \in {"fhead"} \cup Blocks \cup InBlock \cup {"need"} \cup Tails =>
          (len[t] >= 32 => dest[t] % 64 = 0)
    /\ pc[t] = "k8" => len[t] < 512
    /\ pc[t] = "k4" => len[t] < 256
    /\ pc[t] = "k2" => len[t] < 128
    /\ pc[t] \in {"need", "t32"} => len[t] < 64
    /\ pc[t] = "t16" => len[t] < 32
    /\ pc[t] \in {"tail", "fend"} => len[t] < 16
    /\ pc[t] \in InBlock => len[t] < 64 * blk[t] \/ blk[t] = 16

\* need_flush says whether the line at that end of the destination still has
\* to be written back.
NeedOK(t) ==
    /\ fn(t).edges # "need" => ~need_flush[t]
    /\ fn(t).edges = "need" /\ pc[t] \in {"head", "hnext"} \cup Heads =>
          /\ need_flush[t] <=> req[t].d % 64 # 0
          /\ ~need_flush[t] => dest[t] = req[t].d
    /\ pc[t] \in Heads => dest[t] <= LineBase(req[t].d) + 64
    /\ fn(t).edges = "need" /\ pc[t] \in Tails =>
          IF need_flush[t] THEN /\ req[t].n > 0
                                /\ req[t].d + req[t].n - 1 \in Line(dest[t])
                           ELSE len[t] = 0

LocalOK(t) == CursorOK(t) /\ AlignOK(t) /\ (busy(t) => NeedOK(t))

\* The destination is filled up to here.
Filled(t) ==
    CASE pc[t] = "hnext"      -> dest[t] + HeadCount(t)
      [] pc[t] \in InBlock    -> dest[t] + 32 * vec[t]
      [] pc[t] = "fend"       -> dest[t] + len[t]
      [] pc[t] \in Returned   -> req[t].d + req[t].n
      [] OTHER                -> dest[t]

FilledOK(t) ==
    busy(t) => \A a \in WriteRange(req[t]) :
                  a < Filled(t) => mem[a] \in New(req[t], a)

\* The bytes filled but not yet on their way to the media all lie in the line
\* that the next clwb writes back.
Unsent(t) == {a \in WriteRange(req[t]) : a < Filled(t) /\ a \notin pend[t]}

SentOK(t) ==
    /\ fn(t).edges = "need" =>
          /\ pc[t] \in {"hnext"} \cup Heads => Unsent(t) \subseteq Line(req[t].d)
          /\ pc[t] \in Blocks \cup {"need"} => Unsent(t) = {}
          /\ pc[t] = "vec" => \A a \in Unsent(t) : vec[t] % 2 = 1 /\ a >= dest[t] + 32 * (vec[t] - 1)
          /\ pc[t] = "vclwb" => \A a \in Unsent(t) : a >= dest[t] + 32 * (vec[t] - 2)
          /\ pc[t] \in Tails => \A a \in Unsent(t) : need_flush[t] /\ a \in Line(dest[t])
          /\ pc[t] = "ret" => Unsent(t) = {}
    /\ fn(t).edges = "always" =>
          /\ pc[t] = "hnext" => Unsent(t) \subseteq Line(dest[t])
          /\ pc[t] \in Heads \cup Blocks \cup InBlock \cup {"need", "t32", "t16", "tail", "ret"} =>
                Unsent(t) = {}
          /\ pc[t] = "fend" => Unsent(t) \subseteq Line(dest[t])
    /\ pc[t] = "extent" => /\ req[t].op.then = "extent"
                           /\ uptr[t] % 64 = 0
                           /\ \A a \in Unsent(t) : a >= uptr[t]
    /\ pc[t] = "fence" => Unsent(t) = {}

\* clwb_extent walks whole lines upwards from the one the destination starts in.
ExtentOK(t) == pc[t] = "extent" => /\ uptr[t] % 64 = 0
                                   /\ uptr[t] >= LineBase(req[t].d)

\* Running calls write to disjoint ranges and may leave their new values.
CallsOK ==
    /\ ~up => \A t \in Thread : ~busy(t)
    /\ \A t, u \in Thread : t # u /\ busy(t) /\ busy(u) =>
          WriteRange(req[t]) \cap WriteRange(req[u]) = {}
    /\ \A t \in Thread : busy(t) => \A a \in WriteRange(req[t]) : New(req[t], a) \subseteq may[a]

\* The inductive invariant.  It says at each point of each function which
\* bytes of the destination are filled, which of them are still only in the
\* cache, and that those lie in the one line the code is about to write back.
IInv ==
    /\ TypeOK
    /\ CallsOK
    /\ \A t \in Thread : BlockOK(t) /\ LocalOK(t) /\ FilledOK(t) /\ (busy(t) => SentOK(t)) /\ ExtentOK(t)
    /\ Contained
    /\ Durable
    /\ FaultsExplained
=============================================================================
