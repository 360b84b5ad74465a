---------------------------- MODULE AepStudyInv ----------------------------
(***************************************************************************)
(* The inductive invariant of AepStudy: what the configuration guarantees  *)
(* at each point of main, what the tasks of the workers hold, and which    *)
(* measurements are in data_.                                              *)
(***************************************************************************)
EXTENDS AepStudy

Looping == {"loop", "rederive", "recfg"}
Measuring == {"ctx", "spawn", "join", "analyze", "ctxend"}

live(w) == job[w] # "none"

\* The flags that CheckGlobalCfg has let pass.
CheckedFlags ==
    /\ ValidFlags
    /\ flags.cores = flags.thread_num
    /\ flags.map_size >= AEP_SIZE
    /\ flags.access_size > 0
    /\ (flags.buffer_size * flags.thread_num) % UINT64 <= AEP_SIZE \div 2

\* The 64-bit product in that check did not wrap around.
NoWrap == flags.buffer_size * flags.thread_num < UINT64

\* All buffers lie in the lower half of the mapping.
BuffersFit ==
    flags.vary = "thread_num" \/ NoWrap => buffer_size * thread_num <= AEP_SIZE \div 2

\* The slots that buf_slots_mask can select lie in the buffer.
MaskFits ==
    flags.vary # "thread_num" /\ NoWrap /\ ~fls_of_0 =>
        (buf_slots_mask + 1) * access_size <= buffer_size

\* From the first InitGlobalCfg to the start of MainJob.
StartInv ==
    /\ main \in {"clean", "init"} => ValidFlags
    /\ main \in {"check", "env", "report", "job"} =>
          /\ ValidFlags /\ flags.access_size > 0
          /\ thread_num = flags.thread_num /\ buffer_size = flags.buffer_size
          /\ access_size = flags.access_size
          /\ ~fls_of_0 => (buf_slots_mask + 1) * access_size <= buffer_size
    /\ main \in {"env", "report", "job"} => CheckedFlags /\ core_ids = "socket"

\* What the vary_ loops change and what they leave alone.
LoopInv ==
    main \in Looping =>
        /\ CheckedFlags
        /\ flags.vary \in {"access_size", "thread_num"}
        /\ thread_num > 0 /\ access_size > 0 /\ buffer_size < UINT64
        /\ flags.vary = "access_size" =>
              /\ thread_num = flags.thread_num /\ core_ids = "socket"
              /\ main # "loop" => access_size <= ACCESS_LAST
              /\ BuffersFit
              /\ main = "recfg" => MaskFits
        /\ flags.vary = "thread_num" =>
              /\ access_size = flags.access_size /\ core_ids = flags.fixed
              /\ main # "loop" => thread_num <= MAX_THREAD_NUM

\* What a Task is made from.
Configured ==
    /\ CheckedFlags
    /\ thread_num \in 1 .. MAX_THREAD_NUM
    /\ access_size \in 1 .. (UINT64 - 1) /\ buffer_size < UINT64
    /\ flags.vary = "access_size" => thread_num = flags.thread_num
    /\ flags.vary = "thread_num" => access_size = flags.access_size
    /\ core_ids = IF flags.vary = "thread_num" THEN flags.fixed ELSE "socket"
    /\ BuffersFit
    /\ MaskFits

\* Workers live only between the first pthread_create and the last
\* pthread_join (or until the process exits), and the configuration is the
\* one their tasks were made from.
WorkersInv ==
    /\ main \in Measuring \/ (\E w \in Worker : live(w)) => Configured
    /\ \A w \in Worker : live(w) =>
          /\ main \in {"spawn", "join", "exit"}
          /\ w < thread_num /\ task[w] = Task(w)
    /\ main = "spawn" => k <= thread_num /\ \A w \in Worker : live(w) => w < k
    /\ main = "join" => k <= thread_num /\ \A w \in Worker : live(w) => w >= k
    /\ main = "analyze" => k = 0
    /\ main \in {"spawn", "join", "analyze", "ctxend"} =>
          \A w \in Worker : w < thread_num =>
              /\ task[w] = Task(w)
              /\ DOMAIN data[w] = 0 .. (iters - 1)

\* A worker's loop over its operations.
OpsInv ==
    \A w \in Worker :
        /\ job[w] \in {"bind", "prepare"} => i[w] = 0
        /\ job[w] = "op" => /\ i[w] < task[w].iters
                            /\ \E idx \in Slots(w) : at[w] = task[w].buf + idx * 2 ^ task[w].bits
        /\ job[w] = "returned" => i[w] >= task[w].iters
        /\ job[w] # "none" => runs_on[w] \in {"socket", task[w].core}

\* The first n entries of data_ of worker w are this sub_op's.
Measured(w, n) == \A m \in 0 .. (iters - 1) : m < n => data[w][m] = sub_op

DataInv ==
    "create" \notin flags.faults =>
        /\ main \in {"spawn", "join"} =>
              \A w \in Worker : w < thread_num =>
                  /\ ~live(w) => /\ main = "spawn" => w >= k
                                 /\ main = "join" => w < k /\ Measured(w, iters)
                  /\ live(w) => Measured(w, i[w])
        /\ main = "analyze" => \A w \in Worker : w < thread_num => Measured(w, iters)

\* Where the slots of a worker stay in its buffer: the mask belongs to a
\* buffer that CheckGlobalCfg checked without wrapping around, or
\* vary_thread_num, which derives the mask before it shrinks the buffers, runs
\* sequential operations too few to reach their end.
BoundedIndex ==
    \/ flags.vary # "thread_num" /\ NoWrap /\ ~fls_of_0
    \/ /\ flags.vary = "thread_num" /\ flags.access_mode = "seq"
       /\ iters * access_size <= buffer_size

\* The inductive invariant of the benchmark program: the configuration that
\* CheckGlobalCfg let pass or a vary_ loop rederived, the tasks that
\* InitThreadContext made from it and that are in use while any worker lives,
\* and which entries of data_ the present sub_op has written.
StudyInv ==
    /\ TypeOK
    /\ DOMAIN task = Worker /\ DOMAIN data = Worker /\ DOMAIN job = Worker
    /\ DOMAIN i = Worker /\ DOMAIN at = Worker
    /\ StartInv /\ LoopInv /\ WorkersInv /\ OpsInv /\ DataInv
=============================================================================
