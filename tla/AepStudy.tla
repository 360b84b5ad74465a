------------------------------ MODULE AepStudy ------------------------------
(***************************************************************************)
(* The benchmark program bgtest/AEP/aep_study.cc: its flags, the global    *)
(* configuration derived from them and rederived by the vary_ loops, the   *)
(* main thread that starts, joins and analyses the workers, the workers    *)
(* (ThreadJob), and the report directories.                                *)
(*                                                                         *)
(* A timed operation is one step from its start (the bytes it touches are  *)
(* at .. at + access_size - 1) to its end; what happens inside is module   *)
(* AepCopy, which assumes that running calls write to disjoint ranges:     *)
(* WritersDisjoint is that assumption.                                     *)
(***************************************************************************)
EXTENDS Integers

CONSTANTS
    AEP_SIZE, MAX_THREAD_NUM,
    ACCESS_FIRST, ACCESS_LAST,  \* 16 and 64 K, the sizes vary_access_size tries
    KB,                         \* 1024
    ITERS_UNIT,                 \* 500000; all iteration counts are multiples
    SMALL_BUFFER,               \* 64 MB
    SUB_OPS,                    \* GetSubOpNum(rw_type)
    WORD,                       \* bits that an undefined __fls may return
    UINT32, UINT64,             \* 2^32 and 2^64
    AEP_TAIL_READ_SIZE,         \* 2 MB
    DefaultDir,                 \* the initial value of rep_dir_path
    Dirs,                       \* report directories
    FlagSets                    \* the command lines, and the machine, considered

Flag == [thread_num : Nat, buffer_size : 0 .. (UINT64 - 1), access_size : 0 .. (UINT64 - 1),
         iters : Nat,
         rw_type : {"read", "write", "cpy", "memset"}, access_mode : {"seq", "random"},
         cores : Nat,           \* how many cores core_ids names
         on_socket : BOOLEAN,   \* they all belong to the socket, which exists
         fixed : {"socket", "elsewhere", "absent"},     \* where cores 20..39, 60..71 are
         vary : {"none", "access_size", "thread_num"},
         rep_dir : Dirs,
         clean : BOOLEAN, sure : BOOLEAN,   \* clean_rep_dir, and the answer
         map_size : Nat,        \* size of the device's mapping; 0: not mapped
         faults : SUBSET {"io", "create"}]  \* the calls that may fail

ASSUME StudyAssumption ==
    /\ {AEP_SIZE, MAX_THREAD_NUM, ACCESS_FIRST, ITERS_UNIT, SUB_OPS, WORD, KB, UINT32,
        UINT64} \subseteq Nat \ {0}
    /\ AEP_TAIL_READ_SIZE \in Nat /\ MAX_THREAD_NUM * AEP_TAIL_READ_SIZE <= AEP_SIZE \div 2
    /\ {AEP_SIZE, ACCESS_LAST} \subseteq 0 .. (UINT64 - 1) /\ SMALL_BUFFER \in Nat
    /\ DefaultDir \in Dirs /\ FlagSets \subseteq Flag

VARIABLES
    flags,
    main,       \* where the main thread is
    thread_num, buffer_size, access_size, iters,
    buf_slots, buf_slots_mask, access_size_bits, rep_dir_path,
    core_ids,   \* where the cores to bind to are
    sub_op, k,  \* main's loop variables
    task,       \* thread_contexts[i].task_, as the Task constructor filled it
    data,       \* thread_contexts[i].data_: which sub_op wrote each entry
    job, i, at, \* the workers: where they are, their i, the address in use
    runs_on,    \* and the socket they run on
    repdirs,    \* what each report directory holds
    fls_of_0    \* history: __fls has been called with 0

cfg == <<thread_num, buffer_size, access_size, iters>>
derived == <<buf_slots, buf_slots_mask, access_size_bits, fls_of_0>>
workers == <<job, i, at, runs_on>>
setup == <<core_ids, rep_dir_path>>
ctx == <<task, data>>
loops == <<sub_op, k>>
vars == <<flags, main, cfg, derived, setup, loops, ctx, workers, repdirs>>

Worker == 0 .. (MAX_THREAD_NUM - 1)
NoTask == [buf |-> 0, buf_size |-> 0, access_size |-> 0, bits |-> 0, iters |-> 0, mask |-> 0,
           core |-> "none"]

\* util/bitops.h: bsr leaves its destination undefined for 0.
Fls(x) == CHOOSE b \in 0 .. x : 2 ^ b <= x /\ x < 2 ^ (b + 1)
__fls(x) == IF x = 0 THEN 0 .. (WORD - 1) ELSE {Fls(x)}

\* The highest bit of a positive 64-bit number exists (arithmetic; the
\* provers do not know about powers).
ASSUME FlsAssumption ==
    \A x \in 1 .. (UINT64 - 1) : Fls(x) \in Nat /\ 2 ^ Fls(x) \in 1 .. x

IsPow2(x) == x > 0 /\ 2 ^ Fls(x) = x

-----------------------------------------------------------------------------
(***************************************************************************)
(* Start of main.                                                          *)
(***************************************************************************)
ValidFlags == /\ flags.thread_num < MAX_THREAD_NUM
              /\ flags.cores > 0
              /\ flags.iters > 0

ParseAndValidateFlags ==
    /\ main = "flags"
    /\ main' = IF ~ValidFlags THEN "exit" ELSE IF flags.clean THEN "ask" ELSE "clean"
    /\ core_ids' = IF flags.on_socket THEN "socket" ELSE "elsewhere"
    /\ UNCHANGED <<flags, cfg, derived, rep_dir_path, loops, ctx, workers, repdirs>>

\* RemoveDirRecursive(rep_dir_path); its result is ignored.
CleanRepDir == repdirs' = [repdirs EXCEPT ![rep_dir_path] = "absent"]

\* if (sure) CleanRepDir(); return 0;
AskClean ==
    /\ main = "ask"
    /\ IF flags.sure THEN CleanRepDir ELSE UNCHANGED repdirs
    /\ main' = "exit"
    /\ UNCHANGED <<flags, cfg, derived, setup, loops, ctx, workers>>

CleanBeforeRun ==
    /\ main = "clean"
    /\ CleanRepDir
    /\ main' = "init"
    /\ UNCHANGED <<flags, cfg, derived, setup, loops, ctx, workers>>

\* Mutants: the mask is one bit too long; the mask is buf_slots - 1 whatever
\* buf_slots is.
DeriveNoMinusOne(bsize, asize) ==
    /\ buf_slots' = bsize \div asize
    /\ \E b \in __fls(bsize \div asize) : buf_slots_mask' = 2 ^ b
    /\ access_size_bits' = Fls(asize)
    /\ fls_of_0' = (fls_of_0 \/ bsize \div asize = 0)

DeriveFromSlots(bsize, asize) ==
    /\ buf_slots' = bsize \div asize
    /\ buf_slots_mask' = (bsize \div asize) - 1
    /\ access_size_bits' = Fls(asize)
    /\ UNCHANGED fls_of_0

\* The part of InitGlobalCfg that runs every time.
Derive(bsize, asize) ==
    /\ buf_slots' = bsize \div asize
    /\ \E b \in __fls(bsize \div asize) : buf_slots_mask' = (2 ^ b - 1) % UINT32
    /\ access_size_bits' = Fls(asize)
    /\ fls_of_0' = (fls_of_0 \/ bsize \div asize = 0)

\* InitGlobalCfg(true); an access_size of 0 is a division by zero.
InitFirst ==
    /\ main = "init"
    /\ thread_num' = flags.thread_num
    /\ buffer_size' = flags.buffer_size
    /\ access_size' = flags.access_size
    /\ iters' = flags.iters
    /\ rep_dir_path' = flags.rep_dir
    /\ IF flags.map_size = 0 \/ flags.access_size = 0
       THEN main' = "exit" /\ UNCHANGED derived
       ELSE main' = "check" /\ Derive(flags.buffer_size, flags.access_size)
    /\ UNCHANGED <<flags, core_ids, loops, ctx, workers, repdirs>>

\* Mutants: the size of the buffers, or the socket of the cores, is not checked.
CfgOKAnySize == /\ core_ids = "socket"
                /\ flags.cores = thread_num
                /\ flags.map_size >= AEP_SIZE
                /\ IsPow2(buffer_size)
                /\ 2 ^ access_size_bits = access_size
                /\ IsPow2(buf_slots)

CfgOKAnySocket == /\ flags.cores = thread_num
                  /\ flags.map_size >= AEP_SIZE
                  /\ (buffer_size * thread_num) % UINT64 <= AEP_SIZE \div 2
                  /\ IsPow2(buffer_size)
                  /\ 2 ^ access_size_bits = access_size
                  /\ IsPow2(buf_slots)

CfgOK == /\ core_ids = "socket"
         /\ flags.cores = thread_num
         /\ flags.map_size >= AEP_SIZE
         /\ (buffer_size * thread_num) % UINT64 <= AEP_SIZE \div 2
         /\ IsPow2(buffer_size)
         /\ 2 ^ access_size_bits = access_size
         /\ IsPow2(buf_slots)

CheckGlobalCfg ==
    /\ main = "check"
    /\ main' = IF CfgOK THEN "env" ELSE "exit"
    /\ UNCHANGED <<flags, cfg, derived, setup, loops, ctx, workers, repdirs>>

IoFails == "io" \in flags.faults

\* SetEnv creates the report directories that are missing; a failure ends the
\* process, perhaps half way.  Its numa_bind is what runs_on starts from.
InitRepDir ==
    /\ main = "env"
    /\ LET made == [repdirs EXCEPT ![rep_dir_path] = IF @ = "absent" THEN "new" ELSE @]
       IN  \/ main' = "report" /\ repdirs' = made
           \/ IoFails /\ main' = "exit" /\ repdirs' \in {repdirs, made}
    /\ UNCHANGED <<flags, cfg, derived, setup, loops, ctx, workers>>

\* The constructor of rep opens its file or exits.
Report ==
    /\ main = "report"
    /\ main' \in {"job"} \cup (IF IoFails THEN {"exit"} ELSE {})
    /\ UNCHANGED <<flags, cfg, derived, setup, loops, ctx, workers, repdirs>>

-----------------------------------------------------------------------------
(***************************************************************************)
(* MainJobNormal, MainJobVaryAccessSize, MainJobVaryThreadNum.             *)
(***************************************************************************)
StartNormal ==
    /\ main = "job" /\ flags.vary = "none"
    /\ main' = "ctx"
    /\ UNCHANGED <<flags, cfg, derived, setup, loops, ctx, workers, repdirs>>

StartVaryAccessSize ==
    /\ main = "job" /\ flags.vary = "access_size"
    /\ access_size' = ACCESS_FIRST
    /\ main' = "loop"
    /\ UNCHANGED <<flags, thread_num, buffer_size, iters, derived, setup, loops, ctx,
                   workers, repdirs>>

StartVaryThreadNum ==
    /\ main = "job" /\ flags.vary = "thread_num"
    /\ buffer_size' = AEP_SIZE \div 2
    /\ thread_num' = 1
    /\ core_ids' = flags.fixed
    /\ main' = "loop"
    /\ UNCHANGED <<flags, access_size, iters, derived, rep_dir_path, loops, ctx, workers,
                   repdirs>>

LoopCond == IF flags.vary = "access_size" THEN access_size <= ACCESS_LAST
                                          ELSE thread_num <= MAX_THREAD_NUM

LoopTest ==
    /\ main = "loop"
    /\ main' = IF LoopCond THEN "rederive" ELSE "unmap"
    /\ UNCHANGED <<flags, cfg, derived, setup, loops, ctx, workers, repdirs>>

\* InitGlobalCfg(false)
InitAgain ==
    /\ main = "rederive"
    /\ Derive(buffer_size, access_size)
    /\ main' = "recfg"
    /\ UNCHANGED <<flags, cfg, setup, loops, ctx, workers, repdirs>>

gen_iters(size) ==
    ITERS_UNIT * (IF size >= 32 * KB THEN 1 ELSE IF size >= 8 * KB THEN 2
                  ELSE IF size >= 4 * KB THEN 4 ELSE IF size >= KB THEN 8 ELSE 16)

Clamp(n) == IF n > 5 * ITERS_UNIT THEN 5 * ITERS_UNIT
            ELSE IF n < ITERS_UNIT THEN ITERS_UNIT ELSE n

ReCfgWhenThreadNumChange ==
    /\ buffer_size' = (AEP_SIZE \div 2) \div thread_num
    /\ iters' = Clamp((((AEP_SIZE \div 2) \div thread_num) \div access_size) % UINT32)

\* One thread keeps its buffer when the access size changes.
GenIters ==
    /\ main = "recfg" /\ flags.vary = "access_size" /\ thread_num = 1
    /\ iters' = gen_iters(access_size)
    /\ main' = "ctx"
    /\ UNCHANGED <<flags, thread_num, buffer_size, access_size, derived, setup, loops,
                   ctx, workers, repdirs>>

ReCfg ==
    /\ main = "recfg" /\ ~(flags.vary = "access_size" /\ thread_num = 1)
    /\ ReCfgWhenThreadNumChange
    /\ main' = "ctx"
    /\ UNCHANGED <<flags, thread_num, access_size, derived, setup, loops, ctx,
                   workers, repdirs>>

\* new Task(i, buf)
NewTask(buf) ==
    [buf |-> buf, buf_size |-> buffer_size, access_size |-> access_size,
     bits |-> Fls(access_size), iters |-> iters, mask |-> buf_slots_mask, core |-> core_ids]

\* Mutant: all tasks get the start of the mapping.
TaskSameBuf(w) == NewTask(0)

Task(w) == NewTask((w * buffer_size) % UINT64)

\* One Task and one RunData, a file of iters entries, per thread.
InitThreadContext ==
    /\ main = "ctx"
    /\ \/ /\ task' = [w \in Worker |-> IF w < thread_num THEN Task(w) ELSE task[w]]
          /\ data' = [w \in Worker |-> IF w < thread_num THEN [n \in 0 .. (iters - 1) |-> -1]
                                                        ELSE data[w]]
          /\ main' = "spawn"
       \/ IoFails /\ main' = "exit" /\ UNCHANGED ctx
    /\ sub_op' = 0 /\ k' = 0
    /\ UNCHANGED <<flags, cfg, derived, setup, workers, repdirs>>

\* assert(ret == 0) is compiled out (NDEBUG): after a failure main goes on, and
\* will join a handle that belongs to no thread.
PthreadCreate ==
    /\ main = "spawn"
    /\ \/ /\ k < thread_num
          /\ \/ /\ job' = [job EXCEPT ![k] = "bind"]
                /\ i' = [i EXCEPT ![k] = 0]
                /\ runs_on' = [runs_on EXCEPT ![k] = "socket"]
             \/ "create" \in flags.faults /\ UNCHANGED <<job, i, runs_on>>
          /\ k' = k + 1
          /\ UNCHANGED main
       \/ k = thread_num /\ k' = 0 /\ main' = "join" /\ UNCHANGED <<job, i, runs_on>>
    /\ UNCHANGED <<flags, cfg, derived, setup, sub_op, ctx, at, repdirs>>

\* Mutant: the last thread is not joined.
PthreadJoinOneShort ==
    /\ main = "join"
    /\ IF k < thread_num - 1
       THEN /\ job[k] = "returned"
            /\ job' = [job EXCEPT ![k] = "none"]
            /\ k' = k + 1
            /\ UNCHANGED main
       ELSE k' = 0 /\ main' = "analyze" /\ UNCHANGED job
    /\ UNCHANGED <<flags, cfg, derived, setup, sub_op, ctx, i, at, runs_on, repdirs>>

\* Joining a handle that belongs to no thread returns or crashes.
PthreadJoin ==
    /\ main = "join"
    /\ \/ /\ k < thread_num
          /\ \/ /\ job[k] = "returned"
                /\ job' = [job EXCEPT ![k] = "none"]
                /\ UNCHANGED main
             \/ job[k] = "none" /\ main' \in {"join", "exit"} /\ UNCHANGED job
          /\ k' = k + 1
       \/ k = thread_num /\ k' = 0 /\ main' = "analyze" /\ UNCHANGED job
    /\ UNCHANGED <<flags, cfg, derived, setup, sub_op, ctx, i, at, runs_on, repdirs>>

\* Mutant: the test for a small buffer the wrong way round.
AnalyzeInverted ==
    /\ main = "analyze"
    /\ IF flags.vary = "thread_num" /\ buffer_size > SMALL_BUFFER /\ iters <= 10 * ITERS_UNIT
       THEN main' = "exit" /\ UNCHANGED sub_op
       ELSE /\ sub_op' = sub_op + 1
            /\ main' = IF sub_op + 1 < SUB_OPS THEN "spawn" ELSE "ctxend"
    /\ UNCHANGED <<flags, cfg, derived, setup, k, ctx, workers, repdirs>>

\* Analyze and ReportSubOp; the next sub_op, or the end of the loop over them.
\* The assertion on iters in MainJobVaryThreadNum is the only way to fail.
Analyze ==
    /\ main = "analyze"
    /\ IF flags.vary = "thread_num" /\ buffer_size <= SMALL_BUFFER /\ iters <= 10 * ITERS_UNIT
       THEN main' = "exit" /\ UNCHANGED sub_op
       ELSE /\ sub_op' = sub_op + 1
            /\ main' = IF sub_op + 1 < SUB_OPS THEN "spawn" ELSE "ctxend"
    /\ UNCHANGED <<flags, cfg, derived, setup, k, ctx, workers, repdirs>>

\* Mutant: the loop variable is not increased.
DestroyThreadContextNoStep ==
    /\ main = "ctxend"
    /\ task' = [w \in Worker |-> IF w < thread_num THEN NoTask ELSE task[w]]
    /\ data' = [w \in Worker |-> IF w < thread_num THEN <<>> ELSE data[w]]
    /\ main' = IF flags.vary = "none" THEN "unmap" ELSE "loop"
    /\ UNCHANGED <<flags, cfg, derived, setup, loops, workers, repdirs>>

\* DestroyThreadContext and the increment of the outer loop
DestroyThreadContext ==
    /\ main = "ctxend"
    /\ task' = [w \in Worker |-> IF w < thread_num THEN NoTask ELSE task[w]]
    /\ data' = [w \in Worker |-> IF w < thread_num THEN <<>> ELSE data[w]]
    /\ main' = IF flags.vary = "none" THEN "unmap" ELSE "loop"
    /\ access_size' = IF flags.vary = "access_size" THEN 2 * access_size ELSE access_size
    /\ thread_num' = IF flags.vary = "thread_num" THEN 2 * thread_num ELSE thread_num
    /\ UNCHANGED <<flags, buffer_size, iters, derived, setup, loops, workers, repdirs>>

DestroyGlobalCfg ==
    /\ main = "unmap"
    /\ main' = "done"
    /\ UNCHANGED <<flags, cfg, derived, setup, loops, ctx, workers, repdirs>>

-----------------------------------------------------------------------------
(***************************************************************************)
(* ThreadJob.                                                              *)
(***************************************************************************)
\* A core the machine does not have leaves the binding as it was: the assert
\* on CoreBind is compiled out.
CoreBind(w) ==
    /\ job[w] = "bind"
    /\ runs_on' = [runs_on EXCEPT ![w] = IF task[w].core = "absent" THEN @ ELSE task[w].core]
    /\ job' = [job EXCEPT ![w] = "prepare"]
    /\ UNCHANGED <<flags, main, cfg, derived, setup, loops, ctx, i, at, repdirs>>

\* What PrepareJob reads of the mapping
MappingReads(w) ==
    {<<task[w].buf, AEP_TAIL_READ_SIZE>>, <<task[w].buf + AEP_SIZE \div 2, AEP_TAIL_READ_SIZE>>}
    \cup (IF task[w].buf_size <= SMALL_BUFFER THEN {<<task[w].buf, task[w].buf_size>>} ELSE {})

PrepareJob(w) ==
    /\ job[w] = "prepare"
    /\ job' = [job EXCEPT ![w] = "test"]
    /\ UNCHANGED <<flags, main, cfg, derived, setup, loops, ctx, i, at, runs_on, repdirs>>

\* idx_ holds rand() & buf_slots_mask of when the Task was made (RAND_MAX is
\* 2^31 - 1); the sequential index uses the present mask.
Slots(w) == IF flags.access_mode = "random"
            THEN {idx \in 0 .. task[w].mask : idx < UINT32 \div 2}
            ELSE {i[w] % (buf_slots_mask + 1)}

StartOp(w) ==
    /\ job[w] = "test" /\ i[w] < task[w].iters
    /\ \E idx \in Slots(w) : at' = [at EXCEPT ![w] = task[w].buf + idx * 2 ^ task[w].bits]
    /\ job' = [job EXCEPT ![w] = "op"]
    /\ UNCHANGED <<flags, main, cfg, derived, setup, loops, ctx, i, runs_on, repdirs>>

\* The operation returns its duration, which goes to data_[i].
EndOp(w) ==
    /\ job[w] = "op"
    /\ data' = [data EXCEPT ![w][i[w]] = sub_op]
    /\ i' = [i EXCEPT ![w] = @ + 1]
    /\ at' = [at EXCEPT ![w] = 0]
    /\ job' = [job EXCEPT ![w] = "test"]
    /\ UNCHANGED <<flags, main, cfg, derived, setup, loops, task, runs_on, repdirs>>

ReturnJob(w) ==
    /\ job[w] = "test" /\ i[w] >= task[w].iters
    /\ job' = [job EXCEPT ![w] = "returned"]
    /\ UNCHANGED <<flags, main, cfg, derived, setup, loops, ctx, i, at, runs_on, repdirs>>

\* Workers end with the process.
ThreadJob(w) ==
    /\ main # "exit"
    /\ CoreBind(w) \/ PrepareJob(w) \/ StartOp(w) \/ EndOp(w) \/ ReturnJob(w)

\* The process has ended.
Ended == main \in {"done", "exit"} /\ UNCHANGED vars

-----------------------------------------------------------------------------
Init ==
    /\ flags \in FlagSets
    /\ main = "flags"
    /\ thread_num = 1 /\ buffer_size = KB /\ access_size = ACCESS_FIRST /\ iters = 10
    /\ buf_slots = 0 /\ buf_slots_mask = 0 /\ access_size_bits = 4
    /\ rep_dir_path = DefaultDir
    /\ core_ids = "none"
    /\ sub_op = 0 /\ k = 0
    /\ task = [w \in Worker |-> NoTask]
    /\ data = [w \in Worker |-> <<>>]
    /\ job = [w \in Worker |-> "none"]
    /\ i = [w \in Worker |-> 0]
    /\ at = [w \in Worker |-> 0]
    /\ runs_on = [w \in Worker |-> "socket"]
    /\ repdirs = [d \in Dirs |-> "old"]
    /\ fls_of_0 = FALSE

MainStep ==
    \/ ParseAndValidateFlags \/ AskClean \/ CleanBeforeRun \/ InitFirst
    \/ CheckGlobalCfg \/ InitRepDir \/ Report
    \/ StartNormal \/ StartVaryAccessSize \/ StartVaryThreadNum
    \/ LoopTest \/ InitAgain \/ GenIters \/ ReCfg
    \/ InitThreadContext \/ PthreadCreate \/ PthreadJoin \/ Analyze
    \/ DestroyThreadContext \/ DestroyGlobalCfg

Next == MainStep \/ (\E w \in Worker : ThreadJob(w)) \/ Ended

\* The scheduler runs every thread that can run.
Spec == /\ Init /\ [][Next]_vars
        /\ WF_vars(MainStep) /\ \A w \in Worker : WF_vars(ThreadJob(w))

-----------------------------------------------------------------------------
\* The type invariant.
TypeOK ==
    /\ flags \in FlagSets
    /\ main \in {"flags", "ask", "clean", "init", "check", "env", "report", "job", "loop",
                 "rederive", "recfg", "ctx", "spawn", "join", "analyze", "ctxend", "unmap", "done", "exit"}
    /\ {thread_num, buffer_size, access_size, iters, buf_slots, buf_slots_mask,
        access_size_bits, sub_op, k} \subseteq Nat
    /\ rep_dir_path \in Dirs
    /\ core_ids \in {"none", "socket", "elsewhere", "absent"}
    /\ runs_on \in [Worker -> {"socket", "elsewhere"}]
    /\ \A w \in Worker : /\ {task[w].buf, task[w].buf_size, i[w], at[w]} \subseteq Nat
                         /\ job[w] \in {"none", "bind", "prepare", "test", "op", "returned"}
    /\ repdirs \in [Dirs -> {"old", "new", "absent"}]
    /\ fls_of_0 \in BOOLEAN

\* A worker stays in its own buffer: every operation it times, at whatever
\* slot the mask selects, touches only the buffer_size bytes ThreadJob was
\* given.
OwnBuffer ==
    \A w \in Worker : job[w] = "op" =>
        /\ at[w] >= task[w].buf
        /\ at[w] + task[w].access_size <= task[w].buf + task[w].buf_size

\* Nothing outside the mapping is touched: neither by the warm-up, whose two
\* reads are AEP_TAIL_READ_SIZE long however small the buffer is, nor by an
\* operation or the source of a copy half a mapping above it.
InMapping ==
    \A w \in Worker :
        /\ job[w] = "prepare" =>
              \A r \in MappingReads(w) : r[1] + r[2] <= flags.map_size
        /\ job[w] = "op" =>
              at[w] + task[w].access_size
                  + (IF flags.rw_type = "cpy" THEN AEP_SIZE \div 2 ELSE 0) <= flags.map_size

\* Help text of core_ids: the cores "should in the same socket with aep".
\* Workers measure from the socket that was asked for.
SameSocket == \A w \in Worker : job[w] \in {"prepare", "test", "op"} => runs_on[w] = "socket"

\* What module AepCopy assumes of its caller: no two running operations write
\* to the same byte, and no operation writes where another one copies from
\* (the source of a copy lies AEP_SIZE / 2 above its destination).
WritersDisjoint ==
    flags.rw_type # "read" =>
    \A v, w \in Worker : v # w /\ job[v] = "op" /\ job[w] = "op" =>
        LET apart(x, y) == x + task[v].access_size <= y \/ y + task[w].access_size <= x
        IN  /\ apart(at[v], at[w])
            /\ flags.rw_type = "cpy" => apart(at[v], at[w] + AEP_SIZE \div 2)

\* What Analyze reads was measured by this sub_op alone, and nobody still
\* writes to it.
Fresh == /\ DOMAIN data[0] = 0 .. (iters - 1)
         /\ \A n \in DOMAIN data[0] : data[0][n] = sub_op
         /\ \A w \in Worker : job[w] = "none"

\* What is analysed and reported is the measurement of this sub_op: all iters
\* entries have been written, and by it, although data_ is reused from one
\* sub_op to the next without being cleared; as long as the threads can be
\* created.
AnalyzesFreshData == main = "analyze" /\ "create" \notin flags.faults => Fresh

\* The same, of threads whose creation may fail: main asserts ret == 0.
AnalyzesOnlyMeasured == main = "analyze" => Fresh

\* A configuration that passed CheckGlobalCfg is measured to the end when no
\* call fails: no worker is waited for in vain, no loop runs for ever, no
\* assertion fails.
Finishes == main = "env" /\ flags.faults = {} ~> main = "done"

\* Whatever fails, the process ends: main never waits for a worker that was
\* not created.
Ends == main = "env" ~> main \in {"done", "exit"}

\* bitops.h: "code should check against 0 first".
FlsNonzero == ~fls_of_0

\* Reports are removed on request only: reports of earlier runs disappear from
\* the directory that rep_dir_path names, and when clean_rep_dir is given.
RemovesOnRequest ==
    [][\A d \in Dirs : repdirs[d] = "old" /\ repdirs'[d] # "old" =>
          flags.clean /\ d = flags.rep_dir]_vars
=============================================================================
