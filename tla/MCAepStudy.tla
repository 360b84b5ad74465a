----------------------------- MODULE MCAepStudy -----------------------------
(***************************************************************************)
(* Instances of AepStudy for TLC.  Sizes are scaled down: one unit stands  *)
(* for 16 bytes, and the ratios that decide which branch is taken are kept *)
(* (slots per buffer, buffers per mapping, iterations per slot).           *)
(***************************************************************************)
EXTENDS AepStudyInv

CONSTANTS d1, d2

Base == [thread_num |-> 1, buffer_size |-> 8, access_size |-> 2, iters |-> 3,
         rw_type |-> "write", access_mode |-> "random", cores |-> 1, on_socket |-> TRUE,
         fixed |-> "socket", vary |-> "none", rep_dir |-> d1,
         clean |-> FALSE, sure |-> FALSE, map_size |-> AEP_SIZE, faults |-> {}]

Threads(f, n) == [f EXCEPT !.thread_num = n, !.cores = n]

TwoDirs == {d1, d2}

\* Command lines that the checks reject, and cleaning.
Rejected ==
    {[Base EXCEPT !.cores = 2], [Base EXCEPT !.thread_num = 4], [Base EXCEPT !.iters = 0],
     [Base EXCEPT !.on_socket = FALSE], [Base EXCEPT !.map_size = 0],
     [Base EXCEPT !.map_size = AEP_SIZE - 1], [Base EXCEPT !.access_size = 0],
     [Base EXCEPT !.access_size = 3], [Base EXCEPT !.buffer_size = 6],
     [Base EXCEPT !.buffer_size = 1], [Base EXCEPT !.buffer_size = 2 * AEP_SIZE],
     [Base EXCEPT !.clean = TRUE], [Base EXCEPT !.clean = TRUE, !.sure = TRUE]}

\* One to three threads on fixed sizes, all kinds of access, more and fewer
\* iterations than slots.
Fixed ==
    {[Threads(Base, 2) EXCEPT !.rw_type = rw] : rw \in {"read", "write", "cpy", "memset"}}
    \cup {[Threads(Base, 3) EXCEPT !.buffer_size = 4, !.access_mode = "seq", !.rw_type = "cpy"]}
    \cup {[Base EXCEPT !.iters = 6]}

\* vary_access_size with a buffer that holds the largest access.
VaryAccess ==
    {[Threads(Base, n) EXCEPT !.vary = "access_size", !.access_mode = m, !.rw_type = "cpy"] :
        n \in {1, 2}, m \in {"seq", "random"}}
    \cup {[Threads(Base, 3) EXCEPT !.vary = "access_size", !.access_mode = "seq",
                                   !.buffer_size = 4]}

\* vary_thread_num
ThreadsFlags == {[Base EXCEPT !.vary = "thread_num", !.access_mode = "seq",
                              !.access_size = a, !.rw_type = rw] :
                     a \in {2, 4}, rw \in {"read", "cpy"}}

RandomThreads == {[Base EXCEPT !.vary = "thread_num", !.access_size = 8]}

\* vary_access_size with a buffer smaller than the largest access.
SmallBuffer == {[Base EXCEPT !.vary = "access_size", !.access_size = 1, !.buffer_size = 4]}

\* Calls that fail, on machines with all kinds of cores.
FaultyFlags ==
    {[Threads(Base, 2) EXCEPT !.iters = 1, !.faults = f] : f \in {{"io"}, {"create"}}}
    \cup {[Base EXCEPT !.iters = 1, !.vary = "access_size", !.rw_type = "cpy",
                      !.access_mode = "seq", !.faults = {"io", "create"}]}
    \cup {[Base EXCEPT !.vary = "thread_num", !.access_mode = "seq", !.fixed = "absent",
                      !.access_size = 4, !.rw_type = "read", !.faults = {"create"}]}

CreateFails == {[Base EXCEPT !.faults = {"create"}]}

StudyFlags == Rejected \cup Fixed \cup VaryAccess \cup ThreadsFlags \cup FaultyFlags

OtherDir == {[Base EXCEPT !.rep_dir = d2]}
=============================================================================
