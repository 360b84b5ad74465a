--------------------------- MODULE AepStudyProofs ---------------------------
(***************************************************************************)
(* Proofs about AepStudy, for every size of the mapping, every set of      *)
(* command lines, any number of threads and any number of iterations.      *)
(***************************************************************************)
EXTENDS AepStudyInv, TLAPS

LEMMA Consts ==
  /\ AEP_SIZE \in Nat /\ MAX_THREAD_NUM \in Nat /\ ACCESS_FIRST \in Nat /\ ITERS_UNIT \in Nat
  /\ SUB_OPS \in Nat /\ WORD \in Nat /\ KB \in Nat /\ UINT32 \in Nat /\ UINT64 \in Nat
  /\ ACCESS_LAST \in Nat /\ SMALL_BUFFER \in Nat /\ AEP_TAIL_READ_SIZE \in Nat
  /\ UINT32 > 0 /\ UINT64 > 0 /\ ACCESS_FIRST > 0 /\ WORD > 0 /\ MAX_THREAD_NUM > 0
  /\ AEP_SIZE < UINT64 /\ ACCESS_LAST < UINT64
  /\ AEP_SIZE \div 2 \in Nat /\ AEP_SIZE \div 2 < UINT64
  /\ MAX_THREAD_NUM * AEP_TAIL_READ_SIZE <= AEP_SIZE \div 2
BY StudyAssumption

LEMMA FlagFacts ==
  ASSUME TypeOK
  PROVE  /\ flags.thread_num \in Nat /\ flags.cores \in Nat /\ flags.iters \in Nat
         /\ flags.map_size \in Nat
         /\ flags.buffer_size \in 0 .. (UINT64 - 1) /\ flags.access_size \in 0 .. (UINT64 - 1)
         /\ flags.vary \in {"none", "access_size", "thread_num"}
         /\ flags.fixed \in {"socket", "elsewhere", "absent"}
         /\ flags.rep_dir \in Dirs
BY StudyAssumption DEF TypeOK, Flag

LEMMA MulMono ==
  ASSUME NEW a \in Nat, NEW b \in Nat, NEW c \in Nat, a <= b
  PROVE  a * c <= b * c /\ a * c \in Nat
OBVIOUS

LEMMA DivFacts ==
  ASSUME NEW x \in Nat, NEW y \in Nat, y > 0
  PROVE  x \div y \in Nat /\ (x \div y) * y <= x /\ x \div y <= x
OBVIOUS

\* The largest share of x that y can have.
LEMMA DivLargest ==
  ASSUME NEW x \in Nat, NEW y \in Nat, y > 0, NEW z \in Nat, z * y <= x
  PROVE  z <= x \div y
OBVIOUS

LEMMA ModFacts ==
  ASSUME NEW x \in Int, NEW y \in Nat, y > 0
  PROVE  x % y \in Nat /\ x % y < y /\ (x >= 0 => x % y <= x)
OBVIOUS

LEMMA ModSmall ==
  ASSUME NEW x \in Nat, NEW y \in Nat, x < y
  PROVE  x % y = x
OBVIOUS

LEMMA MaskShare ==
  ASSUME NEW m \in Nat, NEW q \in Nat, NEW a \in Nat, NEW s \in Nat, m + 1 <= q, q * a <= s
  PROVE  (m + 1) * a <= s
<1>1. PICK n \in Nat : n = m + 1
  OBVIOUS
<1>2. n * a <= q * a /\ n * a \in Nat /\ q * a \in Nat
  BY <1>1, MulMono
<1> QED
  BY <1>1, <1>2

\* InitGlobalCfg: when there is a slot, the mask selects only slots of the
\* buffer it was derived for.
LEMMA DeriveFacts ==
  ASSUME NEW bsize \in 0 .. (UINT64 - 1), NEW asize \in 1 .. (UINT64 - 1), Derive(bsize, asize),
         fls_of_0 \in BOOLEAN
  PROVE  /\ {buf_slots', buf_slots_mask', access_size_bits'} \subseteq Nat /\ fls_of_0' \in BOOLEAN
         /\ ~fls_of_0' => (buf_slots_mask' + 1) * asize <= bsize
<1>1. UINT64 \in Nat /\ UINT32 \in Nat /\ UINT32 > 0
  BY StudyAssumption
<1>2. asize \in Nat /\ asize > 0 /\ bsize \in Nat
  BY <1>1
<1> DEFINE q == bsize \div asize
<1>3. q \in Nat /\ q <= bsize /\ q * asize <= bsize
  BY <1>2, DivFacts
<1> HIDE DEF q
<1>4. /\ buf_slots' = q /\ access_size_bits' = Fls(asize)
      /\ fls_of_0' = (fls_of_0 \/ q = 0)
      /\ \E b \in __fls(q) : buf_slots_mask' = (2 ^ b - 1) % UINT32
  BY DEF Derive, q
<1>5. PICK b \in __fls(q) : buf_slots_mask' = (2 ^ b - 1) % UINT32
  BY <1>4
<1>6. 2 ^ b \in Int
  <2>1. CASE q = 0
    <3>1. b \in 0 .. (WORD - 1) /\ WORD \in Nat
      BY <1>5, <2>1, Consts DEF __fls
    <3>2. b \in Nat
      BY <3>1
    <3> QED
      BY <3>2
  <2>2. CASE q # 0
    BY <1>1, <1>3, <1>5, <2>2, FlsAssumption DEF __fls
  <2> QED
    BY <2>1, <2>2
<1>7. Fls(asize) \in Nat
  BY FlsAssumption
<1>8. q # 0 => 2 ^ b \in 1 .. q
  BY <1>1, <1>3, <1>5, FlsAssumption DEF __fls
<1>9. buf_slots_mask' \in Nat
  BY <1>1, <1>5, <1>6, ModFacts
<1>10. q # 0 => buf_slots_mask' + 1 <= q
  BY <1>1, <1>3, <1>5, <1>6, <1>8, ModFacts
<1>11. q # 0 => (buf_slots_mask' + 1) * asize <= bsize
  BY <1>2, <1>3, <1>9, <1>10, MaskShare
<1> QED
  BY <1>3, <1>4, <1>7, <1>9, <1>11

-----------------------------------------------------------------------------
(***************************************************************************)
(* While no worker lives and none is about to: main's preparations.        *)
(***************************************************************************)
Shape == /\ DOMAIN task = Worker /\ DOMAIN data = Worker /\ DOMAIN job = Worker
         /\ DOMAIN i = Worker /\ DOMAIN at = Worker

LEMMA StudyParts ==
  StudyInv <=> TypeOK /\ Shape /\ StartInv /\ LoopInv /\ WorkersInv /\ OpsInv /\ DataInv
BY DEF StudyInv, Shape

Preparing == {"flags", "ask", "clean", "init", "check", "env", "report", "job", "unmap", "done"}
             \cup Looping

\* A step of main that touches neither the workers nor what they use.
LEMMA Quiet ==
  ASSUME StudyInv, main \in Preparing, UNCHANGED <<ctx, workers>>,
         main' \in Preparing \cup {"exit", "ctx"}, main' = "ctx" => Configured'
  PROVE  Shape' /\ WorkersInv' /\ OpsInv' /\ DataInv'
<1>1. \A w \in Worker : job[w] = "none"
  BY DEF StudyInv, WorkersInv, live, Preparing, Looping
<1>2. job' = job /\ task' = task /\ data' = data /\ i' = i /\ at' = at
  BY DEF ctx, workers
<1>3. \A w \in Worker : job'[w] = "none"
  BY <1>1, <1>2
<1>4. main' \notin {"spawn", "join", "analyze", "ctxend"}
  BY DEF Preparing, Looping
<1>5. Shape'
  BY <1>2 DEF Shape, StudyInv
<1>6. WorkersInv'
  BY <1>3, <1>4 DEF WorkersInv, live, Measuring
<1>7. OpsInv'
  BY <1>3 DEF OpsInv
<1>8. DataInv'
  BY <1>4 DEF DataInv
<1> QED
  BY <1>5, <1>6, <1>7, <1>8

\* The parts of TypeOK that such a step can disturb.
LEMMA QuietType ==
  ASSUME TypeOK, UNCHANGED <<flags, ctx, workers>>,
         main' \in Preparing \cup {"exit"} \cup Measuring,
         {thread_num', buffer_size', access_size', iters', buf_slots', buf_slots_mask',
          access_size_bits', sub_op', k'} \subseteq Nat,
         rep_dir_path' \in Dirs, core_ids' \in {"none", "socket", "elsewhere", "absent"},
         repdirs' \in [Dirs -> {"old", "new", "absent"}], fls_of_0' \in BOOLEAN
  PROVE  TypeOK'
<1>1. runs_on' \in [Worker -> {"socket", "elsewhere"}]
  BY DEF TypeOK, workers
<1>2. \A w \in Worker : /\ {task'[w].buf, task'[w].buf_size, i'[w], at'[w]} \subseteq Nat
                        /\ job'[w] \in {"none", "bind", "prepare", "test", "op", "returned"}
  BY DEF TypeOK, ctx, workers
<1>3. flags' \in FlagSets
  BY DEF TypeOK
<1>4. main' \in {"flags", "ask", "clean", "init", "check", "env", "report", "job", "loop",
                 "rederive", "recfg", "ctx", "spawn", "join", "analyze", "ctxend", "unmap", "done", "exit"}
  BY DEF Preparing, Looping, Measuring
<1> QED
  BY <1>1, <1>2, <1>3, <1>4 DEF TypeOK

\* Such a step in one piece.
LEMMA QuietStep ==
  ASSUME StudyInv, main \in Preparing, UNCHANGED <<flags, ctx, workers>>,
         main' \in Preparing \cup {"exit", "ctx"}, main' = "ctx" => Configured',
         {thread_num', buffer_size', access_size', iters', buf_slots', buf_slots_mask',
          access_size_bits', sub_op', k'} \subseteq Nat,
         rep_dir_path' \in Dirs, core_ids' \in {"none", "socket", "elsewhere", "absent"},
         repdirs' \in [Dirs -> {"old", "new", "absent"}], fls_of_0' \in BOOLEAN,
         StartInv', LoopInv'
  PROVE  StudyInv'
<1>1. TypeOK'
  BY QuietType DEF StudyInv, Measuring
<1>2. Shape' /\ WorkersInv' /\ OpsInv' /\ DataInv'
  BY Quiet
<1> QED
  BY <1>1, <1>2 DEF StudyInv, Shape

LEMMA Idle ==
  ASSUME StudyInv
  PROVE  /\ TypeOK /\ StartInv /\ LoopInv
         /\ {thread_num, buffer_size, access_size, iters, buf_slots, buf_slots_mask,
             access_size_bits, sub_op, k} \subseteq Nat
         /\ rep_dir_path \in Dirs /\ core_ids \in {"none", "socket", "elsewhere", "absent"}
         /\ repdirs \in [Dirs -> {"old", "new", "absent"}] /\ fls_of_0 \in BOOLEAN
BY DEF StudyInv, TypeOK

\* Flags, cleaning, and the report directories.
LEMMA FirstSteps ==
  ASSUME StudyInv, ParseAndValidateFlags \/ AskClean \/ CleanBeforeRun \/ DestroyGlobalCfg
  PROVE  StudyInv'
<1>1. /\ UNCHANGED <<flags, ctx, workers, cfg, derived, loops, rep_dir_path>>
      /\ main \in {"flags", "ask", "clean", "unmap"}
      /\ main' \in {"exit", "ask", "clean", "init", "done"}
      /\ main' \in {"clean", "init"} => ValidFlags
      /\ core_ids' \in {core_ids, "socket", "elsewhere"}
      /\ repdirs' \in {repdirs, [repdirs EXCEPT ![rep_dir_path] = "absent"]}
  BY Idle DEF ParseAndValidateFlags, AskClean, CleanBeforeRun, DestroyGlobalCfg, CleanRepDir, setup,
     StartInv
<1>2. /\ {thread_num', buffer_size', access_size', iters', buf_slots', buf_slots_mask',
          access_size_bits', sub_op', k'} \subseteq Nat
      /\ rep_dir_path' \in Dirs /\ core_ids' \in {"none", "socket", "elsewhere", "absent"}
      /\ repdirs' \in [Dirs -> {"old", "new", "absent"}] /\ fls_of_0' \in BOOLEAN
  BY <1>1, Idle DEF cfg, derived, loops
<1>3. StartInv' /\ LoopInv'
  BY <1>1 DEF StartInv, LoopInv, Looping, ValidFlags
<1> QED
  BY <1>1, <1>2, <1>3, QuietStep DEF Preparing

LEMMA InitFirstStep ==
  ASSUME StudyInv, InitFirst
  PROVE  StudyInv'
<1>1. /\ UNCHANGED <<flags, ctx, workers, loops, repdirs, core_ids>> /\ main = "init"
      /\ thread_num' = flags.thread_num /\ buffer_size' = flags.buffer_size
      /\ access_size' = flags.access_size /\ iters' = flags.iters /\ rep_dir_path' = flags.rep_dir
      /\ main' \in {"exit", "check"}
  BY DEF InitFirst
<1>2. /\ flags.thread_num \in Nat /\ flags.iters \in Nat /\ flags.rep_dir \in Dirs
      /\ flags.buffer_size \in 0 .. (UINT64 - 1) /\ flags.access_size \in 0 .. (UINT64 - 1)
      /\ UINT64 \in Nat
  BY FlagFacts, Idle, Consts
<1>3. /\ {buf_slots', buf_slots_mask', access_size_bits'} \subseteq Nat /\ fls_of_0' \in BOOLEAN
      /\ main' = "check" => /\ flags.access_size > 0
                            /\ ~fls_of_0' => (buf_slots_mask' + 1) * access_size' <= buffer_size'
  <2>1. CASE flags.map_size = 0 \/ flags.access_size = 0
    BY <2>1, Idle DEF InitFirst, derived
  <2>2. CASE ~(flags.map_size = 0 \/ flags.access_size = 0)
    <3>1. Derive(flags.buffer_size, flags.access_size) /\ flags.access_size \in 1 .. (UINT64 - 1)
      BY <1>2, <2>2 DEF InitFirst
    <3>2. fls_of_0 \in BOOLEAN
      BY Idle
    <3>3. /\ {buf_slots', buf_slots_mask', access_size_bits'} \subseteq Nat /\ fls_of_0' \in BOOLEAN
          /\ ~fls_of_0' => (buf_slots_mask' + 1) * flags.access_size <= flags.buffer_size
      BY <1>2, <3>1, <3>2, DeriveFacts
    <3> QED
      BY <1>1, <1>2, <3>1, <3>3
  <2> QED
    BY <2>1, <2>2
<1>4. StartInv' /\ LoopInv'
  <2>1. ValidFlags
    BY <1>1, Idle DEF StartInv
  <2> QED
    BY <1>1, <1>3, <2>1 DEF StartInv, LoopInv, Looping, ValidFlags
<1>5. /\ {thread_num', buffer_size', access_size', iters', sub_op', k'} \subseteq Nat
      /\ rep_dir_path' \in Dirs /\ core_ids' \in {"none", "socket", "elsewhere", "absent"}
      /\ repdirs' \in [Dirs -> {"old", "new", "absent"}]
  BY <1>1, <1>2, Idle DEF loops
<1> QED
  BY <1>1, <1>3, <1>4, <1>5, QuietStep DEF Preparing

\* CheckGlobalCfg lets only a configuration pass whose buffers fit, unless
\* their product wraps around.
LEMMA CheckSteps ==
  ASSUME StudyInv, CheckGlobalCfg \/ InitRepDir \/ Report
  PROVE  StudyInv'
<1>1. /\ UNCHANGED <<flags, ctx, workers, cfg, derived, setup, loops>>
      /\ main \in {"check", "env", "report"} /\ main' \in {"exit", "env", "report", "job"}
      /\ main' # "exit" => ((main = "check" /\ CfgOK) \/ main \in {"env", "report"})
      /\ repdirs' \in [Dirs -> {"old", "new", "absent"}]
  BY Idle DEF CheckGlobalCfg, InitRepDir, Report
<1>2. /\ {thread_num', buffer_size', access_size', iters', buf_slots', buf_slots_mask',
          access_size_bits', sub_op', k'} \subseteq Nat
      /\ rep_dir_path' \in Dirs /\ core_ids' \in {"none", "socket", "elsewhere", "absent"}
      /\ fls_of_0' \in BOOLEAN
  BY <1>1, Idle DEF cfg, derived, setup, loops
<1>3. main' # "exit" => CheckedFlags /\ core_ids = "socket"
  BY <1>1, Idle DEF StartInv, CfgOK, CheckedFlags
<1>4. StartInv'
  <2>1. thread_num' = thread_num /\ buffer_size' = buffer_size /\ access_size' = access_size
        /\ fls_of_0' = fls_of_0 /\ buf_slots_mask' = buf_slots_mask /\ core_ids' = core_ids
        /\ flags' = flags
    BY <1>1 DEF cfg, derived, setup
  <2> QED
    BY <1>1, <1>3, <2>1, Idle DEF StartInv, CheckedFlags, ValidFlags
<1>5. LoopInv'
  BY <1>1 DEF LoopInv, Looping
<1> QED
  BY <1>1, <1>2, <1>4, <1>5, QuietStep DEF Preparing

\* Without wrap-around the checked product is the size of all buffers.
LEMMA CheckedFit ==
  ASSUME TypeOK, CheckedFlags, NoWrap
  PROVE  flags.buffer_size * flags.thread_num <= AEP_SIZE \div 2
<1>1. flags.buffer_size \in Nat /\ flags.thread_num \in Nat /\ UINT64 \in Nat
  BY FlagFacts, Consts
<1>2. PICK p \in Nat : p = flags.buffer_size * flags.thread_num
  BY <1>1
<1>3. p % UINT64 = p
  BY <1>1, <1>2, ModSmall DEF NoWrap
<1> QED
  BY <1>2, <1>3 DEF CheckedFlags

\* Facts about a configuration that main has checked.
LEMMA CheckedFacts ==
  ASSUME TypeOK, CheckedFlags
  PROVE  /\ flags.thread_num \in Nat /\ flags.thread_num > 0 /\ flags.thread_num < MAX_THREAD_NUM
         /\ flags.buffer_size \in Nat /\ flags.buffer_size < UINT64
         /\ flags.access_size \in Nat /\ flags.access_size > 0 /\ flags.access_size < UINT64
         /\ flags.map_size \in Nat /\ flags.map_size >= AEP_SIZE
<1>1. UINT64 \in Nat /\ MAX_THREAD_NUM \in Nat /\ AEP_SIZE \in Nat
  BY Consts
<1> QED
  BY <1>1, FlagFacts DEF CheckedFlags, ValidFlags

LEMMA StartSteps ==
  ASSUME StudyInv, StartNormal \/ StartVaryAccessSize \/ StartVaryThreadNum
  PROVE  StudyInv'
<1>1. /\ TypeOK /\ CheckedFlags /\ core_ids = "socket"
      /\ thread_num = flags.thread_num /\ buffer_size = flags.buffer_size
      /\ access_size = flags.access_size /\ main = "job"
      /\ ~fls_of_0 => (buf_slots_mask + 1) * access_size <= buffer_size
  BY Idle DEF StartInv, StartNormal, StartVaryAccessSize, StartVaryThreadNum
<1>2. /\ flags.thread_num \in Nat /\ flags.thread_num > 0 /\ flags.thread_num < MAX_THREAD_NUM
      /\ flags.buffer_size \in Nat /\ flags.buffer_size < UINT64
      /\ flags.access_size \in Nat /\ flags.access_size > 0 /\ flags.access_size < UINT64
  BY <1>1, CheckedFacts
<1>3. /\ UINT64 \in Nat /\ MAX_THREAD_NUM \in Nat /\ ACCESS_FIRST \in Nat /\ ACCESS_FIRST > 0
      /\ AEP_SIZE \div 2 \in Nat /\ AEP_SIZE \div 2 < UINT64
  BY Consts
<1>4. /\ UNCHANGED <<flags, ctx, workers, derived, loops, rep_dir_path, repdirs, iters>>
      /\ main' \in {"ctx", "loop"}
  BY DEF StartNormal, StartVaryAccessSize, StartVaryThreadNum, cfg, setup
<1>5. /\ iters' \in Nat /\ {buf_slots', buf_slots_mask', access_size_bits', sub_op', k'} \subseteq Nat
      /\ rep_dir_path' \in Dirs /\ repdirs' \in [Dirs -> {"old", "new", "absent"}]
      /\ fls_of_0' \in BOOLEAN
  BY <1>4, Idle DEF derived, loops
<1>6. StartInv'
  BY <1>4 DEF StartInv
<1>7. CheckedFlags'
  BY <1>1, <1>4 DEF CheckedFlags, ValidFlags
<1>8. CASE StartNormal
  <2>1. /\ UNCHANGED <<thread_num, buffer_size, access_size, core_ids, buf_slots_mask, fls_of_0>>
        /\ main' = "ctx" /\ flags.vary = "none"
    BY <1>8 DEF StartNormal, cfg, setup, derived
  <2>2. BuffersFit' /\ MaskFits'
    BY <1>1, <1>4, <2>1, CheckedFit DEF BuffersFit, MaskFits, NoWrap
  <2>3. Configured'
    BY <1>1, <1>2, <1>3, <1>4, <1>7, <2>1, <2>2 DEF Configured
  <2>4. LoopInv'
    BY <2>1 DEF LoopInv, Looping
  <2>5. /\ {thread_num', buffer_size', access_size'} \subseteq Nat
        /\ core_ids' \in {"none", "socket", "elsewhere", "absent"}
    BY <1>1, <1>2, <2>1
  <2> QED
    BY <1>1, <1>4, <1>5, <1>6, <2>1, <2>3, <2>4, <2>5, QuietStep DEF Preparing
<1>9. CASE StartVaryAccessSize
  <2>1. /\ UNCHANGED <<thread_num, buffer_size, core_ids>> /\ access_size' = ACCESS_FIRST
        /\ main' = "loop" /\ flags.vary = "access_size"
    BY <1>9 DEF StartVaryAccessSize, setup
  <2>2. BuffersFit'
    BY <1>1, <1>4, <2>1, CheckedFit DEF BuffersFit, NoWrap
  <2>3. LoopInv'
    BY <1>1, <1>2, <1>3, <1>4, <1>7, <2>1, <2>2 DEF LoopInv
  <2>4. /\ {thread_num', buffer_size', access_size'} \subseteq Nat
        /\ core_ids' \in {"none", "socket", "elsewhere", "absent"}
    BY <1>1, <1>2, <1>3, <2>1
  <2> QED
    BY <1>1, <1>4, <1>5, <1>6, <2>1, <2>3, <2>4, QuietStep DEF Preparing, Looping
<1>10. CASE StartVaryThreadNum
  <2>1. /\ thread_num' = 1 /\ buffer_size' = AEP_SIZE \div 2 /\ core_ids' = flags.fixed
        /\ access_size' = access_size /\ main' = "loop" /\ flags.vary = "thread_num"
    BY <1>10 DEF StartVaryThreadNum
  <2>2. LoopInv'
    BY <1>1, <1>2, <1>3, <1>4, <1>7, <2>1 DEF LoopInv
  <2>3. /\ {thread_num', buffer_size', access_size'} \subseteq Nat
        /\ core_ids' \in {"none", "socket", "elsewhere", "absent"}
    BY <1>1, <1>2, <1>3, <2>1, FlagFacts
  <2> QED
    BY <1>1, <1>4, <1>5, <1>6, <2>1, <2>2, <2>3, QuietStep DEF Preparing, Looping
<1> QED
  BY <1>8, <1>9, <1>10

LEMMA LoopTestStep ==
  ASSUME StudyInv, LoopTest
  PROVE  StudyInv'
<1>1. /\ TypeOK /\ LoopInv /\ main = "loop"
  BY Idle DEF LoopTest
<1>2. /\ UNCHANGED <<flags, ctx, workers, cfg, derived, loops, setup, repdirs>>
      /\ main' \in {"rederive", "unmap"} /\ (main' = "rederive" => LoopCond)
  BY DEF LoopTest
<1>3. UNCHANGED <<flags, thread_num, buffer_size, access_size, core_ids, buf_slots_mask, fls_of_0>>
  BY <1>2 DEF cfg, derived, setup
<1>4. /\ {thread_num', buffer_size', access_size', iters', buf_slots', buf_slots_mask',
          access_size_bits', sub_op', k'} \subseteq Nat
      /\ rep_dir_path' \in Dirs /\ core_ids' \in {"none", "socket", "elsewhere", "absent"}
      /\ repdirs' \in [Dirs -> {"old", "new", "absent"}] /\ fls_of_0' \in BOOLEAN
  BY <1>2, Idle DEF cfg, derived, setup, loops
<1>5. StartInv'
  BY <1>2 DEF StartInv
<1>6. LoopInv'
  <2>1. CheckedFlags => CheckedFlags'
    BY <1>3 DEF CheckedFlags, ValidFlags
  <2>2. BuffersFit => BuffersFit'
    BY <1>3 DEF BuffersFit, NoWrap
  <2> QED
    BY <1>1, <1>2, <1>3, <2>1, <2>2 DEF LoopInv, LoopCond, Looping
<1> QED
  BY <1>1, <1>2, <1>4, <1>5, <1>6, QuietStep DEF Preparing, Looping

LEMMA InitAgainStep ==
  ASSUME StudyInv, InitAgain
  PROVE  StudyInv'
<1>1. /\ TypeOK /\ LoopInv /\ main = "rederive"
  BY Idle DEF InitAgain
<1>2. /\ UNCHANGED <<flags, ctx, workers, cfg, loops, setup, repdirs>>
      /\ main' = "recfg" /\ Derive(buffer_size, access_size)
  BY DEF InitAgain
<1>3. UNCHANGED <<flags, thread_num, buffer_size, access_size, core_ids>>
  BY <1>2 DEF cfg, setup
<1>4. buffer_size \in 0 .. (UINT64 - 1) /\ access_size \in 1 .. (UINT64 - 1)
  <2>1. /\ CheckedFlags /\ access_size > 0 /\ buffer_size < UINT64
        /\ buffer_size \in Nat /\ access_size \in Nat
        /\ access_size <= ACCESS_LAST \/ access_size = flags.access_size
    BY <1>1, Idle DEF LoopInv, Looping
  <2>2. flags.access_size \in Nat /\ flags.access_size < UINT64
    BY <1>1, <2>1, CheckedFacts
  <2> QED
    BY <2>1, <2>2, Consts
<1>5. /\ {buf_slots', buf_slots_mask', access_size_bits'} \subseteq Nat /\ fls_of_0' \in BOOLEAN
      /\ ~fls_of_0' => (buf_slots_mask' + 1) * access_size <= buffer_size
  BY <1>2, <1>4, DeriveFacts, Idle
<1>6. /\ {thread_num', buffer_size', access_size', iters', sub_op', k'} \subseteq Nat
      /\ rep_dir_path' \in Dirs /\ core_ids' \in {"none", "socket", "elsewhere", "absent"}
      /\ repdirs' \in [Dirs -> {"old", "new", "absent"}]
  BY <1>2, Idle DEF cfg, setup, loops
<1>7. StartInv'
  BY <1>2 DEF StartInv
<1>8. LoopInv'
  <2>1. CheckedFlags => CheckedFlags'
    BY <1>3 DEF CheckedFlags, ValidFlags
  <2>2. BuffersFit => BuffersFit'
    BY <1>3 DEF BuffersFit, NoWrap
  <2>3. MaskFits'
    BY <1>3, <1>5 DEF MaskFits
  <2> QED
    BY <1>1, <1>2, <1>3, <2>1, <2>2, <2>3 DEF LoopInv, Looping
<1> QED
  BY <1>1, <1>2, <1>5, <1>6, <1>7, <1>8, QuietStep DEF Preparing, Looping

LEMMA ItersNat ==
  /\ \A n \in Nat : Clamp(n) \in Nat
  /\ \A n \in Nat : gen_iters(n) \in Nat
<1>1. ITERS_UNIT \in Nat /\ KB \in Nat
  BY Consts
<1>2. 5 * ITERS_UNIT \in Nat /\ ITERS_UNIT * 1 \in Nat /\ ITERS_UNIT * 2 \in Nat
      /\ ITERS_UNIT * 4 \in Nat /\ ITERS_UNIT * 8 \in Nat /\ ITERS_UNIT * 16 \in Nat
  BY <1>1
<1>3. \A n \in Nat : Clamp(n) \in Nat
  BY <1>1, <1>2 DEF Clamp
<1>4. \A n \in Nat : gen_iters(n) \in Nat
  BY <1>1, <1>2 DEF gen_iters
<1> QED
  BY <1>3, <1>4

\* The buffers are resized after the mask was derived: a buffer only grows
\* when the access size varies.
LEMMA ReCfgSteps ==
  ASSUME StudyInv, GenIters \/ ReCfg
  PROVE  StudyInv'
<1>1. /\ TypeOK /\ LoopInv /\ main = "recfg"
  BY Idle DEF GenIters, ReCfg
<1>2. /\ CheckedFlags /\ thread_num \in Nat /\ access_size \in Nat /\ buffer_size \in Nat
      /\ thread_num > 0 /\ access_size > 0 /\ buffer_size < UINT64
      /\ flags.vary \in {"access_size", "thread_num"}
      /\ flags.vary = "access_size" => /\ thread_num = flags.thread_num /\ core_ids = "socket"
                                       /\ access_size <= ACCESS_LAST /\ BuffersFit /\ MaskFits
      /\ flags.vary = "thread_num" => /\ access_size = flags.access_size /\ core_ids = flags.fixed
                                      /\ thread_num <= MAX_THREAD_NUM
      /\ buf_slots_mask \in Nat
  BY <1>1, Idle DEF LoopInv, Looping
<1>3. /\ UNCHANGED <<flags, ctx, workers, thread_num, access_size, derived, loops, setup, repdirs>>
      /\ main' = "ctx"
      /\ UNCHANGED <<core_ids, buf_slots_mask, fls_of_0>>
  BY DEF GenIters, ReCfg, setup, derived
<1>4. /\ AEP_SIZE \div 2 \in Nat /\ AEP_SIZE \div 2 < UINT64 /\ UINT64 \in Nat /\ UINT32 \in Nat
      /\ UINT32 > 0 /\ ACCESS_LAST \in Nat /\ ACCESS_LAST < UINT64 /\ MAX_THREAD_NUM \in Nat
  BY Consts
<1> DEFINE share == (AEP_SIZE \div 2) \div thread_num
<1>5. /\ share \in Nat /\ share * thread_num <= AEP_SIZE \div 2 /\ share < UINT64
  BY <1>2, <1>4, DivFacts
<1>6. /\ iters' \in Nat /\ buffer_size' \in {buffer_size, share}
      /\ flags.vary = "thread_num" => buffer_size' = share
  <2>1. CASE GenIters
    BY <1>2, <2>1, ItersNat DEF GenIters
  <2>2. CASE ReCfg
    <3>1. share \div access_size \in Nat
      BY <1>2, <1>5, DivFacts
    <3>2. (share \div access_size) % UINT32 \in Nat
      BY <1>4, <3>1, ModFacts
    <3> QED
      BY <2>2, <3>2, ItersNat DEF ReCfg, ReCfgWhenThreadNumChange
  <2> QED
    BY <2>1, <2>2
<1>7. buffer_size' \in Nat /\ buffer_size' < UINT64
  BY <1>2, <1>5, <1>6
<1> HIDE DEF share
<1>8. BuffersFit'
  BY <1>2, <1>3, <1>5, <1>6 DEF BuffersFit, NoWrap
<1>9. MaskFits'
  <2> SUFFICES ASSUME flags.vary # "thread_num", NoWrap, ~fls_of_0
               PROVE  (buf_slots_mask + 1) * access_size <= buffer_size'
    BY <1>3 DEF MaskFits, NoWrap
  <2>1. /\ (buf_slots_mask + 1) * access_size <= buffer_size
        /\ buffer_size * thread_num <= AEP_SIZE \div 2
    BY <1>2 DEF MaskFits, BuffersFit
  <2>2. buffer_size <= share
    BY <1>2, <1>4, <2>1, DivLargest DEF share
  <2>3. (buf_slots_mask + 1) * access_size \in Nat
    BY <1>2
  <2> QED
    BY <1>2, <1>5, <1>6, <2>1, <2>2, <2>3
<1>10. Configured'
  <2>1. CheckedFlags'
    BY <1>2, <1>3 DEF CheckedFlags, ValidFlags
  <2>2. thread_num \in 1 .. MAX_THREAD_NUM /\ access_size \in 1 .. (UINT64 - 1)
    <3>1. /\ flags.thread_num \in Nat /\ flags.thread_num < MAX_THREAD_NUM
          /\ flags.access_size \in Nat /\ flags.access_size < UINT64
      BY <1>1, <1>2, CheckedFacts
    <3> QED
      BY <1>2, <1>4, <3>1
  <2>3. core_ids = IF flags.vary = "thread_num" THEN flags.fixed ELSE "socket"
    BY <1>2
  <2> QED
    BY <1>2, <1>3, <1>7, <1>8, <1>9, <2>1, <2>2, <2>3 DEF Configured
<1>11. StartInv' /\ LoopInv'
  BY <1>3 DEF StartInv, LoopInv, Looping
<1>12. /\ {thread_num', access_size', buf_slots', buf_slots_mask', access_size_bits',
           sub_op', k'} \subseteq Nat
       /\ rep_dir_path' \in Dirs /\ core_ids' \in {"none", "socket", "elsewhere", "absent"}
       /\ repdirs' \in [Dirs -> {"old", "new", "absent"}] /\ fls_of_0' \in BOOLEAN
  BY <1>3, Idle DEF setup, loops, derived
<1> QED
  BY <1>1, <1>3, <1>6, <1>7, <1>10, <1>11, <1>12, QuietStep DEF Preparing, Looping

-----------------------------------------------------------------------------
(***************************************************************************)
(* Measuring: the configuration stays as it is.                            *)
(***************************************************************************)
Fixed == UNCHANGED <<flags, cfg, derived, setup, repdirs>>

LEMMA FixedCfg ==
  ASSUME Fixed
  PROVE  /\ Configured => Configured'
         /\ \A w : Task(w)' = Task(w)
         /\ flags' = flags /\ thread_num' = thread_num /\ iters' = iters
         /\ buf_slots_mask' = buf_slots_mask
<1>1. UNCHANGED <<flags, thread_num, buffer_size, access_size, iters, buf_slots_mask, fls_of_0, core_ids>>
  BY DEF Fixed, cfg, derived, setup
<1>2. (CheckedFlags => CheckedFlags') /\ (BuffersFit => BuffersFit') /\ (MaskFits => MaskFits')
  BY <1>1 DEF CheckedFlags, ValidFlags, BuffersFit, MaskFits, NoWrap
<1>3. Configured => Configured'
  BY <1>1, <1>2 DEF Configured
<1>4. \A w : Task(w)' = Task(w)
  BY <1>1 DEF Task, NewTask
<1> QED
  BY <1>1, <1>3, <1>4

LEMMA FixedType ==
  ASSUME TypeOK, Fixed, main' \in Measuring \cup {"exit"}, sub_op' \in Nat, k' \in Nat,
         runs_on' \in [Worker -> {"socket", "elsewhere"}],
         \A w \in Worker : /\ {task'[w].buf, task'[w].buf_size, i'[w], at'[w]} \subseteq Nat
                           /\ job'[w] \in {"none", "bind", "prepare", "test", "op", "returned"}
  PROVE  TypeOK'
<1>1. UNCHANGED <<flags, thread_num, buffer_size, access_size, iters, buf_slots, buf_slots_mask,
                  access_size_bits, fls_of_0, core_ids, rep_dir_path, repdirs>>
  BY DEF Fixed, cfg, derived, setup
<1>2. main' \in {"flags", "ask", "clean", "init", "check", "env", "report", "job", "loop",
                 "rederive", "recfg", "ctx", "spawn", "join", "analyze", "ctxend", "unmap", "done", "exit"}
  BY DEF Measuring
<1> QED
  BY <1>1, <1>2 DEF TypeOK

\* Neither StartInv nor LoopInv speaks of a measurement.
LEMMA MeasuringOnly ==
  ASSUME main' \in Measuring \cup {"exit", "unmap"}
  PROVE  StartInv' /\ LoopInv'
BY DEF StartInv, LoopInv, Looping, Measuring

LEMMA TaskFacts ==
  ASSUME TypeOK, Configured, NEW w \in Worker
  PROVE  /\ Task(w).buf \in Nat /\ Task(w).buf_size = buffer_size /\ Task(w).iters = iters
         /\ Task(w).mask = buf_slots_mask /\ Task(w).core = core_ids
         /\ Task(w).access_size = access_size /\ Task(w).bits = Fls(access_size)
         /\ Task(w).buf = (w * buffer_size) % UINT64
         /\ w \in Nat /\ buffer_size \in Nat
<1>1. w \in Nat /\ buffer_size \in Nat /\ UINT64 \in Nat /\ UINT64 > 0
  BY Consts DEF Worker, TypeOK
<1>2. w * buffer_size \in Int
  BY <1>1
<1>3. (w * buffer_size) % UINT64 \in Nat
  BY <1>1, <1>2, ModFacts
<1> QED
  BY <1>1, <1>3 DEF Task, NewTask

LEMMA InitThreadContextStep ==
  ASSUME StudyInv, InitThreadContext
  PROVE  StudyInv'
<1>1. TypeOK /\ Shape /\ Configured /\ main = "ctx" /\ \A w \in Worker : job[w] = "none"
  BY DEF StudyInv, Shape, WorkersInv, InitThreadContext, Measuring, live
<1>2. Fixed /\ UNCHANGED workers /\ sub_op' = 0 /\ k' = 0
  BY DEF InitThreadContext, Fixed
<1>3. /\ job' = job /\ i' = i /\ at' = at /\ runs_on' = runs_on
  BY <1>2 DEF workers
<1>4. /\ Configured' /\ \A w : Task(w)' = Task(w)
      /\ flags' = flags /\ thread_num' = thread_num /\ iters' = iters
  BY <1>1, <1>2, FixedCfg
<1>5. /\ \A w \in Worker : job'[w] = "none"
  BY <1>1, <1>3
<1>6. CASE main' = "exit" /\ UNCHANGED ctx
  <2>1. task' = task /\ data' = data
    BY <1>6 DEF ctx
  <2>2. TypeOK'
    BY <1>1, <1>2, <1>3, <1>6, <2>1, FixedType DEF TypeOK
  <2>3. Shape' /\ WorkersInv' /\ OpsInv' /\ DataInv'
    BY <1>1, <1>3, <1>5, <1>6, <2>1 DEF Shape, WorkersInv, OpsInv, DataInv, live, Measuring
  <2> QED
    BY <1>6, <2>2, <2>3, MeasuringOnly, StudyParts DEF StudyInv, Shape
<1>7. CASE /\ task' = [w \in Worker |-> IF w < thread_num THEN Task(w) ELSE task[w]]
           /\ data' = [w \in Worker |-> IF w < thread_num THEN [n \in 0 .. (iters - 1) |-> -1]
                                                         ELSE data[w]]
           /\ main' = "spawn"
  <2>1. \A w \in Worker : w < thread_num => /\ task'[w] = Task(w)
                                            /\ DOMAIN data'[w] = 0 .. (iters - 1)
    BY <1>7
  <2>2. \A w \in Worker : {task'[w].buf, task'[w].buf_size, i'[w], at'[w]} \subseteq Nat
    BY <1>1, <1>3, <1>7, TaskFacts DEF TypeOK
  <2>3. TypeOK'
    BY <1>1, <1>2, <1>3, <1>7, <2>2, FixedType DEF TypeOK, Measuring
  <2>4. Shape'
    BY <1>1, <1>3, <1>7 DEF Shape
  <2>5. WorkersInv'
    <3>1. 0 <= thread_num
      BY <1>1 DEF TypeOK
    <3> QED
      BY <1>2, <1>4, <1>5, <1>7, <2>1, <3>1 DEF WorkersInv, live, Measuring
  <2>6. OpsInv'
    BY <1>5 DEF OpsInv
  <2>7. DataInv'
    <3>1. \A w \in Worker : w >= 0
      BY Consts DEF Worker
    <3> QED
      BY <1>2, <1>5, <1>7, <3>1 DEF DataInv, live
  <2>8. StartInv' /\ LoopInv'
    BY <1>7, MeasuringOnly DEF Measuring
  <2> QED
    BY <2>3, <2>4, <2>5, <2>6, <2>7, <2>8 DEF StudyInv, Shape
<1> QED
  BY <1>6, <1>7 DEF InitThreadContext

\* pthread_create: worker k has its task and starts at its first iteration.
LEMMA PthreadCreateStep ==
  ASSUME StudyInv, PthreadCreate
  PROVE  StudyInv'
<1>1. /\ TypeOK /\ Shape /\ WorkersInv /\ OpsInv /\ DataInv /\ Configured /\ main = "spawn"
      /\ k \in Nat /\ thread_num \in Nat /\ k <= thread_num /\ \A w \in Worker : live(w) => w < k
  BY DEF StudyInv, Shape, WorkersInv, PthreadCreate, Measuring, TypeOK
<1>2. Fixed /\ sub_op' = sub_op /\ task' = task /\ data' = data /\ at' = at
  BY DEF PthreadCreate, Fixed, ctx
<1>3. /\ Configured' /\ \A w : Task(w)' = Task(w)
      /\ flags' = flags /\ thread_num' = thread_num /\ iters' = iters
      /\ buf_slots_mask' = buf_slots_mask
  BY <1>1, <1>2, FixedCfg
<1>4. /\ k < thread_num => k \in Worker
      /\ \A w \in Worker : w \in Nat
  BY <1>1, Consts DEF Worker, Configured
<1>5. CASE /\ k < thread_num
           /\ job' = [job EXCEPT ![k] = "bind"]
           /\ i' = [i EXCEPT ![k] = 0]
           /\ runs_on' = [runs_on EXCEPT ![k] = "socket"]
           /\ k' = k + 1 /\ UNCHANGED main
  <2>1. /\ job'[k] = "bind" /\ i'[k] = 0 /\ runs_on'[k] = "socket" /\ k \in Worker
        /\ \A w \in Worker : w # k => job'[w] = job[w] /\ i'[w] = i[w] /\ runs_on'[w] = runs_on[w]
    BY <1>1, <1>4, <1>5 DEF Shape, TypeOK
  <2>2. runs_on' \in [Worker -> {"socket", "elsewhere"}]
    BY <1>1, <1>5 DEF TypeOK
  <2>3. TypeOK'
    BY <1>1, <1>2, <1>5, <2>1, <2>2, FixedType DEF TypeOK, Measuring
  <2>4. Shape'
    BY <1>1, <1>2, <1>5 DEF Shape
  <2>5. WorkersInv'
    <3>1. \A w \in Worker : live(w)' => w < thread_num /\ task[w] = Task(w) /\ w < k + 1
      BY <1>1, <1>4, <1>5, <2>1 DEF WorkersInv, live
    <3> QED
      BY <1>1, <1>2, <1>3, <1>5, <3>1 DEF WorkersInv, Measuring
  <2>6. OpsInv'
    BY <1>1, <1>2, <1>3, <2>1 DEF OpsInv, Slots
  <2>7. DataInv'
    <3>1. \A w \in Worker : (w < thread_num /\ "create" \notin flags.faults) =>
              /\ ~live(w)' => w >= k + 1
              /\ live(w)' => \A m \in 0 .. (iters - 1) : m < i'[w] => data[w][m] = sub_op
      BY <1>1, <1>4, <2>1 DEF DataInv, live, Measured
    <3> QED
      BY <1>1, <1>2, <1>3, <1>5, <3>1 DEF DataInv, Measured
  <2>8. StartInv' /\ LoopInv'
    BY <1>1, <1>5, MeasuringOnly DEF Measuring
  <2> QED
    BY <2>3, <2>4, <2>5, <2>6, <2>7, <2>8 DEF StudyInv, Shape
<1>6. CASE /\ UNCHANGED <<job, i, runs_on>>
           /\ \/ k < thread_num /\ "create" \in flags.faults /\ k' = k + 1 /\ UNCHANGED main
              \/ k = thread_num /\ k' = 0 /\ main' = "join"
  <2>1. TypeOK'
    BY <1>1, <1>2, <1>6, FixedType DEF TypeOK, Measuring
  <2>2. Shape'
    BY <1>1, <1>2, <1>6 DEF Shape
  <2>3. WorkersInv'
    BY <1>1, <1>2, <1>3, <1>4, <1>6 DEF WorkersInv, Measuring, live
  <2>4. OpsInv'
    BY <1>1, <1>2, <1>3, <1>6 DEF OpsInv, Slots
  <2>5. DataInv'
    BY <1>1, <1>2, <1>3, <1>4, <1>6 DEF DataInv, Measured, live
  <2>6. StartInv' /\ LoopInv'
    BY <1>1, <1>6, MeasuringOnly DEF Measuring
  <2> QED
    BY <2>1, <2>2, <2>3, <2>4, <2>5, <2>6 DEF StudyInv, Shape
<1> QED
  BY <1>5, <1>6 DEF PthreadCreate

\* pthread_join: main waits for worker k, which has done all its iterations.
LEMMA PthreadJoinStep ==
  ASSUME StudyInv, PthreadJoin
  PROVE  StudyInv'
<1>1. /\ TypeOK /\ Shape /\ WorkersInv /\ OpsInv /\ DataInv /\ Configured /\ main = "join"
      /\ k \in Nat /\ thread_num \in Nat /\ k <= thread_num /\ \A w \in Worker : live(w) => w >= k
      /\ iters \in Nat
  BY DEF StudyInv, Shape, WorkersInv, PthreadJoin, Measuring, TypeOK
<1>2. Fixed /\ sub_op' = sub_op /\ task' = task /\ data' = data /\ at' = at /\ i' = i /\ runs_on' = runs_on
  BY DEF PthreadJoin, Fixed, ctx
<1>3. /\ Configured' /\ \A w : Task(w)' = Task(w)
      /\ flags' = flags /\ thread_num' = thread_num /\ iters' = iters
      /\ buf_slots_mask' = buf_slots_mask
  BY <1>1, <1>2, FixedCfg
<1>4. /\ k < thread_num => k \in Worker
      /\ \A w \in Worker : w \in Nat
      /\ k = thread_num => \A w \in Worker : ~live(w)
  <2>1. /\ k < thread_num => k \in Worker
        /\ \A w \in Worker : w \in Nat
    BY <1>1, Consts DEF Worker, Configured
  <2>2. k = thread_num => \A w \in Worker : ~live(w)
    BY <1>1, <2>1 DEF WorkersInv
  <2> QED
    BY <2>1, <2>2
<1>5. CASE /\ k < thread_num /\ job[k] = "returned"
           /\ job' = [job EXCEPT ![k] = "none"] /\ UNCHANGED main /\ k' = k + 1
  <2>1. /\ job'[k] = "none" /\ k \in Worker
        /\ \A w \in Worker : w # k => job'[w] = job[w]
    BY <1>1, <1>4, <1>5 DEF Shape
  <2>2. TypeOK'
    BY <1>1, <1>2, <1>5, <2>1, FixedType DEF TypeOK, Measuring
  <2>3. Shape'
    BY <1>1, <1>2, <1>5 DEF Shape
  <2>4. WorkersInv'
    <3>1. \A w \in Worker : live(w)' => w < thread_num /\ task[w] = Task(w) /\ w >= k + 1
      BY <1>1, <1>4, <2>1 DEF WorkersInv, live
    <3> QED
      BY <1>1, <1>2, <1>3, <1>5, <3>1 DEF WorkersInv, Measuring
  <2>5. OpsInv'
    BY <1>1, <1>2, <1>3, <2>1 DEF OpsInv, Slots
  <2>6. "create" \notin flags.faults => Measured(k, iters)
    <3>1. i[k] >= task[k].iters /\ task[k].iters = iters /\ i[k] \in Nat
      BY <1>1, <1>5, <2>1, TaskFacts DEF OpsInv, WorkersInv, TypeOK
    <3>2. "create" \notin flags.faults => Measured(k, i[k])
      BY <1>1, <1>5, <2>1 DEF DataInv, live
    <3> QED
      BY <1>1, <3>1, <3>2 DEF Measured
  <2>7. DataInv'
    <3>1. "create" \notin flags.faults => \A w \in Worker : w < thread_num =>
              /\ ~live(w)' => w < k + 1 /\ Measured(w, iters)
              /\ live(w)' => Measured(w, i[w])
      <4> SUFFICES ASSUME "create" \notin flags.faults, NEW w \in Worker, w < thread_num
                   PROVE  /\ ~live(w)' => w < k + 1 /\ Measured(w, iters)
                          /\ live(w)' => Measured(w, i[w])
        OBVIOUS
      <4>1. CASE w = k
        BY <1>1, <2>1, <2>6, <4>1 DEF live
      <4>2. CASE w # k
        <5>1. /\ ~live(w) => w < k /\ Measured(w, iters)
              /\ live(w) => Measured(w, i[w])
          BY <1>1 DEF DataInv
        <5>2. live(w)' <=> live(w)
          BY <2>1, <4>2 DEF live
        <5>3. w < k => w < k + 1
          BY <1>4, <2>1
        <5> QED
          BY <5>1, <5>2, <5>3
      <4> QED
        BY <4>1, <4>2
    <3> QED
      BY <1>1, <1>2, <1>3, <1>5, <3>1 DEF DataInv, Measured
  <2>8. StartInv' /\ LoopInv'
    BY <1>1, <1>5, MeasuringOnly DEF Measuring
  <2> QED
    BY <2>2, <2>3, <2>4, <2>5, <2>7, <2>8 DEF StudyInv, Shape
<1>6. CASE /\ job' = job
           /\ \/ k < thread_num /\ job[k] = "none" /\ main' \in {"join", "exit"} /\ k' = k + 1
              \/ k = thread_num /\ k' = 0 /\ main' = "analyze"
  <2>1. TypeOK'
    BY <1>1, <1>2, <1>6, FixedType DEF TypeOK, Measuring
  <2>2. Shape'
    BY <1>1, <1>2, <1>6 DEF Shape
  <2>3. WorkersInv'
    <3>1. k < thread_num /\ job[k] = "none" => \A w \in Worker : live(w) => w >= k + 1
      BY <1>1, <1>4 DEF live
    <3>2. \A w \in Worker : live(w)' <=> live(w)
      BY <1>6 DEF live
    <3>3. CASE k < thread_num /\ main' \in {"join", "exit"} /\ k' = k + 1
      BY <1>1, <1>2, <1>3, <1>6, <3>1, <3>2, <3>3 DEF WorkersInv, Measuring
    <3>4. CASE k = thread_num /\ k' = 0 /\ main' = "analyze"
      BY <1>1, <1>2, <1>3, <1>4, <3>2, <3>4 DEF WorkersInv, Measuring
    <3> QED
      BY <1>6, <3>3, <3>4
  <2>4. OpsInv'
    BY <1>1, <1>2, <1>3, <1>6 DEF OpsInv, Slots
  <2>5. DataInv'
    <3>1. CASE k < thread_num
      BY <1>1, <1>2, <1>3, <1>4, <1>6, <3>1 DEF DataInv, Measured, live
    <3>2. CASE k = thread_num
      BY <1>1, <1>2, <1>3, <1>4, <1>6, <3>2 DEF DataInv, Measured, live
    <3> QED
      BY <1>6, <3>1, <3>2
  <2>6. StartInv' /\ LoopInv'
    BY <1>1, <1>6, MeasuringOnly DEF Measuring
  <2> QED
    BY <2>1, <2>2, <2>3, <2>4, <2>5, <2>6 DEF StudyInv, Shape
<1> QED
  BY <1>5, <1>6 DEF PthreadJoin

\* The next sub_op begins with data_ as the last one left it.
LEMMA AnalyzeStep ==
  ASSUME StudyInv, Analyze
  PROVE  StudyInv'
<1>1. /\ TypeOK /\ Shape /\ WorkersInv /\ Configured /\ main = "analyze" /\ k = 0
      /\ \A w \in Worker : job[w] = "none"
  BY DEF StudyInv, Shape, WorkersInv, Analyze, Measuring, live
<1>2. /\ Fixed /\ UNCHANGED <<ctx, workers>> /\ task' = task /\ data' = data /\ at' = at /\ i' = i
      /\ runs_on' = runs_on /\ job' = job /\ k' = k /\ sub_op' \in {sub_op, sub_op + 1}
      /\ main' \in {"exit", "spawn", "ctxend"}
  BY DEF Analyze, Fixed, ctx, workers
<1>3. /\ Configured' /\ \A w : Task(w)' = Task(w)
      /\ thread_num' = thread_num /\ iters' = iters
  BY <1>1, <1>2, FixedCfg
<1>4. TypeOK'
  BY <1>1, <1>2, FixedType DEF TypeOK, Measuring
<1>5. Shape'
  BY <1>1, <1>2 DEF Shape
<1>6. WorkersInv'
  <2>1. 0 <= thread_num
    BY <1>1 DEF TypeOK
  <2> QED
    BY <1>1, <1>2, <1>3, <2>1 DEF WorkersInv, Measuring, live
<1>7. OpsInv'
  BY <1>1, <1>2 DEF OpsInv
<1>8. DataInv'
  <2>1. \A w \in Worker : w >= 0
    BY Consts DEF Worker
  <2> QED
    BY <1>1, <1>2, <2>1 DEF DataInv, live
<1>9. StartInv' /\ LoopInv'
  BY <1>2, MeasuringOnly DEF Measuring
<1> QED
  BY <1>4, <1>5, <1>6, <1>7, <1>8, <1>9 DEF StudyInv, Shape

LEMMA DestroyStep ==
  ASSUME StudyInv, DestroyThreadContext
  PROVE  StudyInv'
<1>1. /\ TypeOK /\ Shape /\ Configured /\ main = "ctxend" /\ \A w \in Worker : job[w] = "none"
  BY DEF StudyInv, Shape, WorkersInv, DestroyThreadContext, Measuring, live
<1>2. /\ UNCHANGED <<flags, buffer_size, iters, derived, setup, loops, workers, repdirs>>
      /\ task' = [w \in Worker |-> IF w < thread_num THEN NoTask ELSE task[w]]
      /\ data' = [w \in Worker |-> IF w < thread_num THEN <<>> ELSE data[w]]
      /\ main' = (IF flags.vary = "none" THEN "unmap" ELSE "loop")
      /\ access_size' = (IF flags.vary = "access_size" THEN 2 * access_size ELSE access_size)
      /\ thread_num' = (IF flags.vary = "thread_num" THEN 2 * thread_num ELSE thread_num)
  BY DEF DestroyThreadContext
<1>3. UNCHANGED <<buf_slots, buf_slots_mask, access_size_bits, fls_of_0, core_ids, rep_dir_path, sub_op, k,
                  job, i, at, runs_on>>
  BY <1>2 DEF derived, setup, loops, workers
<1>4. /\ thread_num \in Nat /\ access_size \in Nat /\ thread_num > 0 /\ access_size > 0
      /\ CheckedFlags /\ BuffersFit /\ buffer_size < UINT64
      /\ flags.vary = "access_size" => thread_num = flags.thread_num
      /\ flags.vary = "thread_num" => access_size = flags.access_size
      /\ core_ids = IF flags.vary = "thread_num" THEN flags.fixed ELSE "socket"
  BY <1>1, Consts DEF Configured, TypeOK
<1>5. access_size' \in Nat /\ access_size' > 0 /\ thread_num' \in Nat /\ thread_num' > 0
  BY <1>2, <1>4
<1>6. TypeOK'
  <2>1. \A w \in Worker : {task'[w].buf, task'[w].buf_size} \subseteq Nat
    BY <1>1, <1>2 DEF TypeOK, NoTask
  <2> QED
    BY <1>1, <1>2, <1>3, <1>5, <2>1 DEF TypeOK
<1>7. Shape'
  BY <1>1, <1>2, <1>3 DEF Shape
<1>8. WorkersInv' /\ OpsInv' /\ DataInv'
  BY <1>1, <1>2, <1>3 DEF WorkersInv, OpsInv, DataInv, live, Measuring
<1>9. StartInv'
  BY <1>2 DEF StartInv
<1>10. LoopInv'
  <2>1. CheckedFlags'
    BY <1>2, <1>4 DEF CheckedFlags, ValidFlags
  <2>2. flags.vary = "access_size" => BuffersFit'
    BY <1>2, <1>4 DEF BuffersFit, NoWrap
  <2>3. flags.vary \in {"none", "access_size", "thread_num"}
    BY <1>1, FlagFacts
  <2> QED
    BY <1>2, <1>3, <1>4, <1>5, <2>1, <2>2, <2>3 DEF LoopInv, Looping
<1> QED
  BY <1>6, <1>7, <1>8, <1>9, <1>10 DEF StudyInv, Shape

-----------------------------------------------------------------------------
(***************************************************************************)
(* The workers.                                                            *)
(***************************************************************************)
\* What a step of worker w, which lives while main spawns or joins, can rely on.
LEMMA WorkerFacts ==
  ASSUME StudyInv, NEW w \in Worker, live(w), main # "exit"
  PROVE  /\ TypeOK /\ Shape /\ WorkersInv /\ OpsInv /\ DataInv /\ Configured
         /\ main \in {"spawn", "join"} /\ w < thread_num /\ task[w] = Task(w)
         /\ task[w].iters = iters /\ DOMAIN data[w] = 0 .. (iters - 1)
         /\ iters \in Nat /\ i[w] \in Nat
<1>1. /\ TypeOK /\ Shape /\ WorkersInv /\ OpsInv /\ DataInv /\ Configured
      /\ main \in {"spawn", "join"} /\ w < thread_num /\ task[w] = Task(w)
  BY DEF StudyInv, Shape, WorkersInv
<1>2. task[w].iters = iters
  BY <1>1, TaskFacts
<1>3. DOMAIN data[w] = 0 .. (iters - 1)
  BY <1>1 DEF WorkersInv
<1> QED
  BY <1>1, <1>2, <1>3 DEF TypeOK

\* A step of w that writes no data: what it changes of its own state decides.
LEMMA WorkerStep ==
  ASSUME StudyInv, NEW w \in Worker, live(w), main # "exit", Fixed,
         UNCHANGED <<main, loops, task>>, DOMAIN data' = Worker,
         DOMAIN data'[w] = 0 .. (iters - 1),
         DOMAIN job' = Worker, DOMAIN i' = Worker, DOMAIN at' = Worker,
         runs_on' \in [Worker -> {"socket", "elsewhere"}],
         job'[w] \in {"bind", "prepare", "test", "op", "returned"},
         i'[w] \in Nat, at'[w] \in Nat,
         \A u \in Worker : u # w => /\ job'[u] = job[u] /\ i'[u] = i[u] /\ at'[u] = at[u]
                                    /\ runs_on'[u] = runs_on[u] /\ data'[u] = data[u],
         job'[w] \in {"bind", "prepare"} => i'[w] = 0,
         job'[w] = "op" => /\ i'[w] < task[w].iters
                           /\ \E idx \in Slots(w)' : at'[w] = task[w].buf + idx * 2 ^ task[w].bits,
         job'[w] = "returned" => i'[w] >= task[w].iters,
         runs_on'[w] \in {"socket", task[w].core},
         "create" \notin flags.faults =>
             \A m \in 0 .. (iters - 1) : m < i'[w] => data'[w][m] = sub_op
  PROVE  StudyInv'
<1>1. /\ TypeOK /\ Shape /\ WorkersInv /\ OpsInv /\ DataInv /\ Configured
      /\ main \in {"spawn", "join"} /\ w < thread_num /\ task[w] = Task(w)
  BY WorkerFacts
<1>2. /\ Configured' /\ \A u : Task(u)' = Task(u)
      /\ flags' = flags /\ thread_num' = thread_num /\ iters' = iters
      /\ buf_slots_mask' = buf_slots_mask
  BY <1>1, FixedCfg
<1>3. main' = main /\ sub_op' = sub_op /\ k' = k /\ task' = task
  BY DEF loops
<1>4. \A u \in Worker : live(u)' <=> live(u)
  BY DEF live
<1>5. TypeOK'
  <2>1. main' \in Measuring \cup {"exit"} /\ sub_op' \in Nat /\ k' \in Nat
    BY <1>1, <1>3 DEF TypeOK, Measuring
  <2>2. \A u \in Worker : /\ {task'[u].buf, task'[u].buf_size, i'[u], at'[u]} \subseteq Nat
                          /\ job'[u] \in {"none", "bind", "prepare", "test", "op", "returned"}
    <3>1. \A u \in Worker : /\ {task[u].buf, task[u].buf_size, i[u], at[u]} \subseteq Nat
                            /\ job[u] \in {"none", "bind", "prepare", "test", "op", "returned"}
      BY <1>1 DEF TypeOK
    <3> QED
      BY <1>3, <3>1
  <2> QED
    BY <1>1, <2>1, <2>2, FixedType
<1>6. Shape'
  BY <1>1, <1>3 DEF Shape
<1>7. WorkersInv'
  <2>1. \A u \in Worker : u < thread_num => DOMAIN data'[u] = 0 .. (iters - 1)
    BY <1>1 DEF WorkersInv
  <2>2. /\ \A u \in Worker : live(u)' =>
            /\ main' \in {"spawn", "join", "exit"}
            /\ u < thread_num' /\ task'[u] = Task(u)'
        /\ main' = "spawn" => k' <= thread_num' /\ \A u \in Worker : live(u)' => u < k'
        /\ main' = "join" => k' <= thread_num' /\ \A u \in Worker : live(u)' => u >= k'
        /\ \A u \in Worker : u < thread_num' => task'[u] = Task(u)'
    BY <1>1, <1>2, <1>3, <1>4 DEF WorkersInv
  <2> QED
    BY <1>1, <1>2, <1>3, <2>1, <2>2 DEF WorkersInv
<1>8. OpsInv'
  <2>1. \A u \in Worker : u # w => Slots(u)' = Slots(u)
    BY <1>2, <1>3 DEF Slots
  <2> QED
    BY <1>1, <1>3, <2>1 DEF OpsInv
<1>9. DataInv'
  <2>1. "create" \notin flags.faults => Measured(w, i[w])'
    BY <1>2, <1>3 DEF Measured
  <2>2. \A u \in Worker : u # w => /\ Measured(u, iters) => Measured(u, iters)'
                                   /\ Measured(u, i[u]) => Measured(u, i[u])'
    BY <1>2, <1>3 DEF Measured
  <2>3. ~(main' = "analyze")
    BY <1>1, <1>3
  <2>4. live(w)'
    BY <1>4
  <2> QED
    BY <1>1, <1>2, <1>3, <1>4, <2>1, <2>2, <2>3, <2>4 DEF DataInv
<1>10. StartInv' /\ LoopInv'
  BY <1>1, <1>3, MeasuringOnly DEF Measuring
<1> QED
  BY <1>5, <1>6, <1>7, <1>8, <1>9, <1>10 DEF StudyInv, Shape

LEMMA BindPrepareStep ==
  ASSUME StudyInv, NEW w \in Worker, main # "exit", CoreBind(w) \/ PrepareJob(w)
  PROVE  StudyInv'
<1>1. live(w) /\ job[w] \in {"bind", "prepare"}
  BY DEF live, CoreBind, PrepareJob
<1>2. /\ TypeOK /\ Shape /\ OpsInv /\ DataInv /\ task[w] = Task(w) /\ main \in {"spawn", "join"}
      /\ DOMAIN data[w] = 0 .. (iters - 1) /\ w < thread_num /\ Configured
  BY <1>1, WorkerFacts
<1>3. /\ Fixed /\ UNCHANGED <<main, loops, task, data, i, at>>
  BY DEF CoreBind, PrepareJob, Fixed, ctx
<1>4. /\ job'[w] \in {"prepare", "test"} /\ DOMAIN job' = Worker
      /\ \A u \in Worker : u # w => job'[u] = job[u]
  BY <1>2 DEF CoreBind, PrepareJob, Shape
<1>5. task[w].core \in {"socket", "elsewhere", "absent"}
  <2>1. task[w].core = core_ids
    BY <1>2, TaskFacts
  <2>2. flags.fixed \in {"socket", "elsewhere", "absent"}
    BY <1>2, FlagFacts
  <2> QED
    BY <1>2, <2>1, <2>2 DEF Configured
<1>6. /\ runs_on' \in [Worker -> {"socket", "elsewhere"}]
      /\ runs_on'[w] \in {"socket", task[w].core}
      /\ \A u \in Worker : u # w => runs_on'[u] = runs_on[u]
  <2>1. runs_on[w] \in {"socket", task[w].core} /\ runs_on \in [Worker -> {"socket", "elsewhere"}]
    BY <1>1, <1>2 DEF OpsInv, TypeOK, live
  <2>2. CASE CoreBind(w)
    BY <1>5, <2>1, <2>2 DEF CoreBind
  <2>3. CASE PrepareJob(w)
    BY <2>1, <2>3 DEF PrepareJob
  <2> QED
    BY <2>2, <2>3
<1>7. i'[w] = 0 /\ i'[w] \in Nat /\ at'[w] \in Nat
  BY <1>1, <1>2, <1>3 DEF OpsInv, TypeOK
<1>8. "create" \notin flags.faults => \A m \in 0 .. (iters - 1) : m < i'[w] => data'[w][m] = sub_op
  BY <1>1, <1>2, <1>3 DEF DataInv, Measured
<1> QED
  BY <1>1, <1>2, <1>3, <1>4, <1>6, <1>7, <1>8, WorkerStep DEF Shape

\* The address of an operation is one of the slots the mask selects.
LEMMA SlotFacts ==
  ASSUME TypeOK, Configured, NEW w \in Worker, task[w] = Task(w)
  PROVE  /\ \A idx \in Slots(w) : idx \in Nat /\ idx <= buf_slots_mask
         /\ flags.access_mode # "random" => \A idx \in Slots(w) : idx <= i[w]
         /\ 2 ^ task[w].bits \in 1 .. access_size
         /\ access_size \in Nat /\ buf_slots_mask \in Nat
<1>1. /\ access_size \in 1 .. (UINT64 - 1) /\ buf_slots_mask \in Nat /\ i[w] \in Nat
      /\ UINT64 \in Nat /\ access_size \in Nat
  BY Consts DEF Configured, TypeOK
<1>2. task[w].mask = buf_slots_mask /\ task[w].bits = Fls(access_size)
  BY TaskFacts
<1>3. i[w] % (buf_slots_mask + 1) \in Nat /\ i[w] % (buf_slots_mask + 1) <= buf_slots_mask
      /\ i[w] % (buf_slots_mask + 1) <= i[w]
  <2>1. buf_slots_mask + 1 \in Nat /\ buf_slots_mask + 1 > 0
    BY <1>1
  <2> QED
    BY <1>1, <2>1, ModFacts
<1>4. 2 ^ task[w].bits \in 1 .. access_size
  BY <1>1, <1>2, FlsAssumption
<1> QED
  BY <1>1, <1>2, <1>3, <1>4 DEF Slots

LEMMA OpSteps ==
  ASSUME StudyInv, NEW w \in Worker, main # "exit", StartOp(w) \/ EndOp(w) \/ ReturnJob(w)
  PROVE  StudyInv'
<1>1. live(w) /\ job[w] \in {"test", "op"}
  BY DEF live, StartOp, EndOp, ReturnJob
<1>2. /\ TypeOK /\ Shape /\ OpsInv /\ DataInv /\ task[w] = Task(w) /\ main \in {"spawn", "join"}
      /\ DOMAIN data[w] = 0 .. (iters - 1) /\ w < thread_num /\ Configured
      /\ task[w].iters = iters /\ iters \in Nat /\ i[w] \in Nat
  BY <1>1, WorkerFacts
<1>3. /\ Fixed /\ UNCHANGED <<main, loops, task, runs_on>>
  BY DEF StartOp, EndOp, ReturnJob, Fixed, ctx
<1>4. /\ runs_on[w] \in {"socket", task[w].core} /\ runs_on' \in [Worker -> {"socket", "elsewhere"}]
  BY <1>1, <1>2, <1>3 DEF OpsInv, TypeOK, live
<1>5. "create" \notin flags.faults => \A m \in 0 .. (iters - 1) : m < i[w] => data[w][m] = sub_op
  BY <1>1, <1>2 DEF DataInv, Measured
<1>6. CASE StartOp(w)
  <2>1. /\ job' = [job EXCEPT ![w] = "op"] /\ i[w] < task[w].iters /\ UNCHANGED <<data, i>>
    BY <1>6 DEF StartOp, ctx
  <2>2. PICK idx \in Slots(w) : at' = [at EXCEPT ![w] = task[w].buf + idx * 2 ^ task[w].bits]
    BY <1>6 DEF StartOp
  <2>3. idx \in Nat /\ 2 ^ task[w].bits \in Nat /\ task[w].buf \in Nat
    <3>1. 2 ^ task[w].bits \in 1 .. access_size /\ access_size \in Nat /\ idx \in Nat
      BY <1>2, SlotFacts
    <3>2. 2 ^ task[w].bits \in Nat
      BY <3>1
    <3> QED
      BY <1>2, <3>1, <3>2 DEF TypeOK
  <2>4. /\ at'[w] = task[w].buf + idx * 2 ^ task[w].bits /\ DOMAIN at' = Worker /\ DOMAIN job' = Worker
        /\ job'[w] = "op" /\ \A u \in Worker : u # w => at'[u] = at[u] /\ job'[u] = job[u]
    BY <1>2, <2>1, <2>2 DEF Shape
  <2>5. at'[w] \in Nat
    BY <2>3, <2>4
  <2>6. Slots(w)' = Slots(w)
    BY <1>3, <2>1, FixedCfg DEF Slots
  <2>7. \E x \in Slots(w)' : at'[w] = task[w].buf + x * 2 ^ task[w].bits
    BY <2>4, <2>6
  <2> QED
    BY <1>1, <1>2, <1>3, <1>4, <1>5, <2>1, <2>4, <2>5, <2>7, WorkerStep DEF Shape
<1>7. CASE EndOp(w)
  <2>1. /\ job[w] = "op" /\ job' = [job EXCEPT ![w] = "test"] /\ i' = [i EXCEPT ![w] = @ + 1]
        /\ at' = [at EXCEPT ![w] = 0] /\ data' = [data EXCEPT ![w][i[w]] = sub_op]
    BY <1>7 DEF EndOp
  <2>2. /\ job'[w] = "test" /\ i'[w] = i[w] + 1 /\ at'[w] = 0
        /\ DOMAIN job' = Worker /\ DOMAIN i' = Worker /\ DOMAIN at' = Worker /\ DOMAIN data' = Worker
        /\ data'[w] = [data[w] EXCEPT ![i[w]] = sub_op]
        /\ \A u \in Worker : u # w => /\ at'[u] = at[u] /\ job'[u] = job[u] /\ i'[u] = i[u]
                                      /\ data'[u] = data[u]
    BY <1>2, <2>1 DEF Shape
  <2>3. DOMAIN data'[w] = 0 .. (iters - 1)
    BY <1>2, <2>2
  <2>4. "create" \notin flags.faults => \A m \in 0 .. (iters - 1) : m < i'[w] => data'[w][m] = sub_op
    <3> SUFFICES ASSUME "create" \notin flags.faults, NEW m \in 0 .. (iters - 1), m < i[w] + 1
                 PROVE  data'[w][m] = sub_op
      BY <2>2
    <3>1. m = i[w] \/ m < i[w]
      BY <1>2
    <3> QED
      BY <1>2, <1>5, <2>2, <3>1
  <2> QED
    BY <1>1, <1>2, <1>3, <1>4, <2>2, <2>3, <2>4, WorkerStep
<1>8. CASE ReturnJob(w)
  <2>1. /\ job' = [job EXCEPT ![w] = "returned"] /\ i[w] >= task[w].iters /\ UNCHANGED <<data, i, at>>
    BY <1>8 DEF ReturnJob, ctx
  <2>2. /\ DOMAIN job' = Worker /\ job'[w] = "returned" /\ \A u \in Worker : u # w => job'[u] = job[u]
    BY <1>2, <2>1 DEF Shape
  <2>3. at'[w] \in Nat
    BY <1>2, <2>1 DEF TypeOK
  <2> QED
    BY <1>1, <1>2, <1>3, <1>4, <1>5, <2>1, <2>2, <2>3, WorkerStep DEF Shape
<1> QED
  BY <1>6, <1>7, <1>8

-----------------------------------------------------------------------------
LEMMA StudyInit == Init => StudyInv
<1> SUFFICES ASSUME Init PROVE StudyInv
  OBVIOUS
<1>1. /\ ACCESS_FIRST \in Nat /\ KB \in Nat /\ DefaultDir \in Dirs
  BY Consts, StudyAssumption
<1>2. /\ main = "flags" /\ task = [w \in Worker |-> NoTask] /\ data = [w \in Worker |-> <<>>]
      /\ job = [w \in Worker |-> "none"] /\ i = [w \in Worker |-> 0] /\ at = [w \in Worker |-> 0]
      /\ runs_on = [w \in Worker |-> "socket"]
  BY DEF Init
<1>3. Shape /\ \A w \in Worker : job[w] = "none"
  BY <1>2 DEF Shape
<1>4. TypeOK
  <2>1. \A w \in Worker : /\ {task[w].buf, task[w].buf_size, i[w], at[w]} \subseteq Nat
                          /\ job[w] \in {"none", "bind", "prepare", "test", "op", "returned"}
    BY <1>2 DEF NoTask
  <2>2. runs_on \in [Worker -> {"socket", "elsewhere"}]
    BY <1>2
  <2>3. /\ flags \in FlagSets
        /\ main \in {"flags", "ask", "clean", "init", "check", "env", "report", "job", "loop",
                     "rederive", "recfg", "ctx", "spawn", "join", "analyze", "ctxend", "unmap",
                     "done", "exit"}
    BY DEF Init
  <2>4. {thread_num, buffer_size, access_size, iters, buf_slots, buf_slots_mask,
         access_size_bits, sub_op, k} \subseteq Nat
    BY <1>1 DEF Init
  <2>5. /\ rep_dir_path \in Dirs
        /\ core_ids \in {"none", "socket", "elsewhere", "absent"}
        /\ fls_of_0 \in BOOLEAN
    BY <1>1 DEF Init
  <2>6. repdirs \in [Dirs -> {"old", "new", "absent"}]
    BY DEF Init
  <2> QED
    BY <2>1, <2>2, <2>3, <2>4, <2>5, <2>6 DEF TypeOK
<1>5. StartInv /\ LoopInv
  BY <1>2 DEF StartInv, LoopInv, Looping
<1>6. WorkersInv /\ OpsInv /\ DataInv
  BY <1>2, <1>3 DEF WorkersInv, OpsInv, DataInv, live, Measuring
<1> QED
  BY <1>3, <1>4, <1>5, <1>6 DEF StudyInv, Shape

LEMMA StudyStutter ==
  ASSUME StudyInv, UNCHANGED vars
  PROVE  StudyInv'
<1>1. UNCHANGED <<flags, main, thread_num, buffer_size, access_size, iters, buf_slots, buf_slots_mask,
                  access_size_bits, fls_of_0, core_ids, rep_dir_path, sub_op, k, task, data,
                  job, i, at, runs_on, repdirs>>
  BY DEF vars, cfg, derived, setup, loops, ctx, workers
<1>2. TypeOK' /\ Shape'
  BY <1>1 DEF StudyInv, TypeOK, Shape
<1>3. StartInv' /\ LoopInv'
  BY <1>1 DEF StudyInv, StartInv, LoopInv, CheckedFlags, ValidFlags, BuffersFit, MaskFits, NoWrap
<1>4. WorkersInv'
  BY <1>1 DEF StudyInv, WorkersInv, Configured, CheckedFlags, ValidFlags, BuffersFit, MaskFits,
     NoWrap, Task, NewTask, live
<1>5. OpsInv' /\ DataInv'
  BY <1>1 DEF StudyInv, OpsInv, Slots, DataInv, Measured, live
<1> QED
  BY <1>2, <1>3, <1>4, <1>5 DEF StudyInv, Shape

LEMMA StudyStep == StudyInv /\ [Next]_vars => StudyInv'
<1> SUFFICES ASSUME StudyInv, [Next]_vars PROVE StudyInv'
  OBVIOUS
<1>1. CASE MainStep
  BY <1>1, FirstSteps, InitFirstStep, CheckSteps, StartSteps, LoopTestStep, InitAgainStep,
     ReCfgSteps, InitThreadContextStep, PthreadCreateStep, PthreadJoinStep, AnalyzeStep,
     DestroyStep DEF MainStep
<1>2. ASSUME NEW w \in Worker, ThreadJob(w) PROVE StudyInv'
  BY <1>2, BindPrepareStep, OpSteps DEF ThreadJob
<1>3. CASE Ended \/ UNCHANGED vars
  BY <1>3, StudyStutter DEF Ended
<1> QED
  BY <1>1, <1>2, <1>3 DEF Next

\* The invariant of the benchmark program, for every size of the mapping,
\* every command line and any number of threads.
THEOREM StudyInvariantHolds == Spec => []StudyInv
BY StudyInit, StudyStep, PTL DEF Spec

\* Types are kept: no division by zero is reached and no address is negative.
THEOREM StudyTypeCorrect == Spec => []TypeOK
<1>1. StudyInv => TypeOK
  BY DEF StudyInv
<1> QED
  BY <1>1, StudyInvariantHolds, PTL

\* What Analyze is given was measured by the present sub_op alone, on all of
\* data_, whose entries are never cleared between two sub_ops; main has
\* joined every worker that could still write to it.
THEOREM FreshDataAnalyzed == Spec => []AnalyzesFreshData
<1>1. StudyInv => AnalyzesFreshData
  <2> SUFFICES ASSUME StudyInv, main = "analyze", "create" \notin flags.faults PROVE Fresh
    BY DEF AnalyzesFreshData
  <2>1. WorkersInv /\ DataInv /\ Configured /\ TypeOK
    <3>1. WorkersInv /\ DataInv /\ TypeOK
      BY DEF StudyInv
    <3> QED
      BY <3>1 DEF WorkersInv, Measuring
  <2>2. 0 \in Worker /\ 0 < thread_num
    BY <2>1, Consts DEF Worker, Configured
  <2>3. DOMAIN data[0] = 0 .. (iters - 1)
    BY <2>1, <2>2 DEF WorkersInv
  <2>4. Measured(0, iters)
    BY <2>1, <2>2 DEF DataInv
  <2>5. \A n \in DOMAIN data[0] : data[0][n] = sub_op
    <3>1. iters \in Nat
      BY <2>1 DEF TypeOK
    <3> QED
      BY <2>3, <2>4, <3>1 DEF Measured
  <2>6. \A w \in Worker : job[w] = "none"
    BY <2>1 DEF WorkersInv, live
  <2> QED
    BY <2>3, <2>5, <2>6 DEF Fresh
<1> QED
  BY <1>1, StudyInvariantHolds, PTL

\* Workers run on the socket of the device, unless vary_thread_num binds them
\* to cores 20..39 and 60..71 and those are elsewhere.
THEOREM SocketKept ==
  Spec => []((flags.vary = "thread_num" /\ flags.fixed = "elsewhere") \/ SameSocket)
<1>1. StudyInv => ((flags.vary = "thread_num" /\ flags.fixed = "elsewhere") \/ SameSocket)
  <2> SUFFICES ASSUME StudyInv, ~(flags.vary = "thread_num" /\ flags.fixed = "elsewhere"),
                      NEW w \in Worker, job[w] \in {"prepare", "test", "op"}
               PROVE  runs_on[w] = "socket"
    BY DEF SameSocket
  <2>1. /\ TypeOK /\ Configured /\ task[w] = Task(w) /\ runs_on[w] \in {"socket", task[w].core}
        /\ runs_on[w] \in {"socket", "elsewhere"}
    BY DEF StudyInv, WorkersInv, OpsInv, live, TypeOK
  <2>2. task[w].core = core_ids
    BY <2>1, TaskFacts
  <2>3. core_ids \in {"socket", "absent"}
    BY <2>1, FlagFacts DEF Configured
  <2> QED
    BY <2>1, <2>2, <2>3
<1> QED
  BY <1>1, StudyInvariantHolds, PTL

-----------------------------------------------------------------------------
(***************************************************************************)
(* Where the workers' operations lie.                                      *)
(***************************************************************************)
LEMMA LiveBuffer ==
  ASSUME StudyInv, BoundedIndex, NEW w \in Worker, live(w)
  PROVE  /\ TypeOK /\ Configured /\ task[w] = Task(w)
         /\ w \in Nat /\ w < thread_num /\ buffer_size \in Nat /\ access_size \in Nat
         /\ w * buffer_size \in Nat
         /\ task[w].buf = w * buffer_size /\ task[w].buf_size = buffer_size
         /\ task[w].access_size = access_size
         /\ w * buffer_size + buffer_size <= AEP_SIZE \div 2
         /\ AEP_SIZE <= flags.map_size
<1>1. /\ TypeOK /\ Configured /\ task[w] = Task(w) /\ w < thread_num
  BY DEF StudyInv, WorkersInv
<1>2. /\ w \in Nat /\ buffer_size \in Nat /\ thread_num \in Nat /\ access_size \in Nat
      /\ w + 1 \in Nat /\ w + 1 <= thread_num
  BY <1>1, Consts DEF Worker, TypeOK
<1>3. buffer_size * thread_num <= AEP_SIZE \div 2
  BY <1>1 DEF Configured, BuffersFit, BoundedIndex
<1>4. w * buffer_size \in Nat /\ w * buffer_size + buffer_size <= AEP_SIZE \div 2
  <2>1. (w + 1) * buffer_size <= thread_num * buffer_size
    BY <1>2, MulMono
  <2>2. thread_num * buffer_size = buffer_size * thread_num
        /\ (w + 1) * buffer_size = w * buffer_size + buffer_size
    BY <1>2
  <2>3. w * buffer_size \in Nat
    BY <1>2, MulMono
  <2>4. thread_num * buffer_size \in Nat
    BY <1>2, MulMono
  <2> QED
    BY <1>2, <1>3, <2>1, <2>2, <2>3, <2>4, Consts
<1>5. (w * buffer_size) % UINT64 = w * buffer_size
  BY <1>2, <1>4, Consts, ModSmall
<1>6. AEP_SIZE <= flags.map_size
  BY <1>1, FlagFacts, Consts DEF Configured, CheckedFlags
<1> QED
  BY <1>1, <1>2, <1>4, <1>5, <1>6, TaskFacts

LEMMA OpInBuffer ==
  ASSUME StudyInv, BoundedIndex, NEW w \in Worker, job[w] = "op"
  PROVE  /\ at[w] \in Nat /\ at[w] >= w * buffer_size
         /\ at[w] + access_size <= w * buffer_size + buffer_size
<1> live(w)
  BY DEF live
<1>1. /\ TypeOK /\ Configured /\ task[w] = Task(w)
      /\ buffer_size \in Nat /\ access_size \in Nat
      /\ w * buffer_size \in Nat /\ task[w].buf = w * buffer_size
  BY LiveBuffer
<1>2. /\ i[w] < task[w].iters
      /\ \E idx \in Slots(w) : at[w] = task[w].buf + idx * 2 ^ task[w].bits
  BY DEF StudyInv, OpsInv
<1>3. PICK idx \in Slots(w) : at[w] = w * buffer_size + idx * 2 ^ task[w].bits
  BY <1>1, <1>2
<1>4. /\ idx \in Nat /\ idx <= buf_slots_mask /\ buf_slots_mask \in Nat
      /\ flags.access_mode # "random" => idx <= i[w]
      /\ 2 ^ task[w].bits \in Nat /\ 2 ^ task[w].bits <= access_size
  BY <1>1, SlotFacts
<1>5. idx * 2 ^ task[w].bits \in Nat /\ idx * 2 ^ task[w].bits <= idx * access_size
  <2> DEFINE size == 2 ^ task[w].bits
  <2> SUFFICES idx * size \in Nat /\ idx * size <= idx * access_size
    OBVIOUS
  <2>1. size \in Nat /\ size <= access_size
    BY <1>4
  <2> HIDE DEF size
  <2>2. size * idx <= access_size * idx /\ size * idx \in Nat
    BY <1>1, <1>4, <2>1, MulMono
  <2> QED
    BY <1>1, <1>4, <2>1, <2>2
<1>6. idx * access_size + access_size <= buffer_size
  <2>1. idx + 1 \in Nat /\ (idx + 1) * access_size = idx * access_size + access_size
    BY <1>1, <1>4
  <2>2. CASE flags.vary # "thread_num" /\ NoWrap /\ ~fls_of_0
    <3>1. (buf_slots_mask + 1) * access_size <= buffer_size
      BY <1>1, <2>2 DEF Configured, MaskFits
    <3>2. (idx + 1) * access_size <= (buf_slots_mask + 1) * access_size
      BY <1>1, <1>4, MulMono
    <3>3. (buf_slots_mask + 1) * access_size \in Nat /\ (idx + 1) * access_size \in Nat
      BY <1>1, <1>4, MulMono
    <3> QED
      BY <1>1, <2>1, <3>1, <3>2, <3>3
  <2>3. CASE /\ flags.vary = "thread_num" /\ flags.access_mode = "seq"
             /\ iters * access_size <= buffer_size
    <3>1. task[w].iters = iters /\ iters \in Nat /\ i[w] \in Nat
      BY <1>1, TaskFacts DEF TypeOK
    <3>2. idx + 1 <= iters
      BY <1>2, <1>4, <2>3, <3>1
    <3>3. (idx + 1) * access_size <= iters * access_size
      BY <1>1, <1>4, <3>1, <3>2, MulMono
    <3>4. iters * access_size \in Nat /\ (idx + 1) * access_size \in Nat
      BY <1>1, <1>4, <3>1, MulMono
    <3> QED
      BY <1>1, <2>1, <2>3, <3>3, <3>4
  <2> QED
    BY <2>2, <2>3 DEF BoundedIndex
<1>7. idx * access_size \in Nat
  BY <1>1, <1>4, MulMono
<1>8. /\ at[w] \in Nat /\ at[w] >= w * buffer_size
      /\ at[w] <= w * buffer_size + idx * access_size
  BY <1>1, <1>3, <1>5, <1>7
<1> QED
  BY <1>1, <1>6, <1>7, <1>8

\* A worker stays in its own buffer.  The hypothesis is what the code gives
\* up: the product in CheckGlobalCfg may wrap around, __fls may be asked about
\* 0, and vary_thread_num masks with the slots of the previous, larger buffer.
THEOREM BufferKept == Spec => [](BoundedIndex => OwnBuffer)
<1>1. StudyInv => (BoundedIndex => OwnBuffer)
  <2> SUFFICES ASSUME StudyInv, BoundedIndex, NEW w \in Worker, job[w] = "op"
               PROVE  /\ at[w] >= task[w].buf
                      /\ at[w] + task[w].access_size <= task[w].buf + task[w].buf_size
    BY DEF OwnBuffer
  <2>1. live(w)
    BY DEF live
  <2> QED
    BY <2>1, LiveBuffer, OpInBuffer
<1> QED
  BY <1>1, StudyInvariantHolds, PTL

\* Neither the warm-up of PrepareJob, however small the buffers are, nor an
\* operation, nor the source of a copy half a mapping above it, leaves the
\* mapping.
THEOREM MappingKept == Spec => [](BoundedIndex => InMapping)
<1>1. StudyInv => (BoundedIndex => InMapping)
  <2> SUFFICES ASSUME StudyInv, BoundedIndex, NEW w \in Worker
               PROVE  /\ job[w] = "prepare" =>
                            \A r \in MappingReads(w) : r[1] + r[2] <= flags.map_size
                      /\ job[w] = "op" =>
                            at[w] + task[w].access_size
                              + (IF flags.rw_type = "cpy" THEN AEP_SIZE \div 2 ELSE 0)
                                 <= flags.map_size
    BY DEF InMapping
  <2>0. /\ flags.map_size \in Nat /\ AEP_SIZE \in Nat /\ AEP_SIZE \div 2 \in Nat
        /\ (AEP_SIZE \div 2) + (AEP_SIZE \div 2) <= AEP_SIZE /\ AEP_TAIL_READ_SIZE \in Nat
    BY FlagFacts, Consts DEF StudyInv
  <2>1. ASSUME job[w] = "prepare"
        PROVE  \A r \in MappingReads(w) : r[1] + r[2] <= flags.map_size
    <3>1. live(w)
      BY <2>1 DEF live
    <3>2. /\ w \in Nat /\ buffer_size \in Nat /\ w * buffer_size \in Nat
          /\ task[w].buf = w * buffer_size /\ task[w].buf_size = buffer_size
          /\ w * buffer_size + buffer_size <= AEP_SIZE \div 2 /\ AEP_SIZE <= flags.map_size
      BY <3>1, LiveBuffer
    <3>3. w * buffer_size + AEP_TAIL_READ_SIZE <= AEP_SIZE \div 2
      <4>1. CASE buffer_size >= AEP_TAIL_READ_SIZE
        BY <2>0, <3>2, <4>1
      <4>2. CASE buffer_size < AEP_TAIL_READ_SIZE
        <5>1. buffer_size * w <= AEP_TAIL_READ_SIZE * w
          BY <2>0, <3>2, <4>2, MulMono
        <5>2. (w + 1) * AEP_TAIL_READ_SIZE <= MAX_THREAD_NUM * AEP_TAIL_READ_SIZE
          <6>1. w + 1 \in Nat /\ MAX_THREAD_NUM \in Nat /\ w + 1 <= MAX_THREAD_NUM
            BY <3>2, Consts DEF Worker
          <6> QED
            BY <2>0, <6>1, MulMono
        <5>3. /\ (w + 1) * AEP_TAIL_READ_SIZE = AEP_TAIL_READ_SIZE * w + AEP_TAIL_READ_SIZE
              /\ buffer_size * w = w * buffer_size /\ AEP_TAIL_READ_SIZE * w \in Nat
          BY <2>0, <3>2
        <5>4. MAX_THREAD_NUM * AEP_TAIL_READ_SIZE \in Nat
          BY Consts, MulMono
        <5> QED
          BY <2>0, <3>2, <5>1, <5>2, <5>3, <5>4, Consts
      <4> QED
        BY <2>0, <3>2, <4>1, <4>2
    <3> SUFFICES ASSUME NEW r \in MappingReads(w) PROVE r[1] + r[2] <= flags.map_size
      OBVIOUS
    <3>4. \/ r = <<w * buffer_size, AEP_TAIL_READ_SIZE>>
          \/ r = <<w * buffer_size + AEP_SIZE \div 2, AEP_TAIL_READ_SIZE>>
          \/ r = <<w * buffer_size, buffer_size>>
      BY <3>2 DEF MappingReads
    <3> QED
      BY <2>0, <3>2, <3>3, <3>4
  <2>2. ASSUME job[w] = "op"
        PROVE  at[w] + task[w].access_size
                 + (IF flags.rw_type = "cpy" THEN AEP_SIZE \div 2 ELSE 0) <= flags.map_size
    <3>1. live(w)
      BY <2>2 DEF live
    <3>2. /\ at[w] \in Nat /\ at[w] + access_size <= w * buffer_size + buffer_size
      BY <2>2, OpInBuffer
    <3>3. /\ task[w].access_size = access_size /\ access_size \in Nat
          /\ w * buffer_size \in Nat /\ buffer_size \in Nat
          /\ w * buffer_size + buffer_size <= AEP_SIZE \div 2 /\ AEP_SIZE <= flags.map_size
      BY <3>1, LiveBuffer
    <3> QED
      BY <2>0, <3>2, <3>3
  <2> QED
    BY <2>1, <2>2
<1> QED
  BY <1>1, StudyInvariantHolds, PTL

LEMMA OpsApart ==
  ASSUME StudyInv, BoundedIndex, NEW v \in Worker, NEW w \in Worker, v < w,
         job[v] = "op", job[w] = "op"
  PROVE  at[v] + access_size <= at[w]
<1>1. live(v) /\ live(w)
  BY DEF live
<1>2. /\ v \in Nat /\ w \in Nat /\ buffer_size \in Nat /\ access_size \in Nat
      /\ v * buffer_size \in Nat /\ w * buffer_size \in Nat
  BY <1>1, LiveBuffer
<1>3. /\ at[v] \in Nat /\ at[w] \in Nat /\ at[w] >= w * buffer_size
      /\ at[v] + access_size <= v * buffer_size + buffer_size
  BY OpInBuffer
<1>4. v * buffer_size + buffer_size <= w * buffer_size
  <2>1. (v + 1) * buffer_size <= w * buffer_size
    BY <1>2, MulMono
  <2>2. (v + 1) * buffer_size = v * buffer_size + buffer_size
    BY <1>2
  <2> QED
    BY <1>2, <2>1, <2>2
<1> QED
  BY <1>2, <1>3, <1>4

\* No two workers write to one byte, and none writes where another one copies
\* from: what the copy functions assume of their callers.
THEOREM WritersKeptApart == Spec => [](BoundedIndex => WritersDisjoint)
<1>1. StudyInv => (BoundedIndex => WritersDisjoint)
  <2> SUFFICES ASSUME StudyInv, BoundedIndex, NEW v \in Worker, NEW w \in Worker, v # w,
                      job[v] = "op", job[w] = "op"
               PROVE  /\ \/ at[v] + task[v].access_size <= at[w]
                         \/ at[w] + task[w].access_size <= at[v]
                      /\ at[v] + task[v].access_size <= at[w] + AEP_SIZE \div 2
    BY DEF WritersDisjoint
  <2>1. live(v) /\ live(w)
    BY DEF live
  <2>2. /\ task[v].access_size = access_size /\ task[w].access_size = access_size
        /\ v \in Nat /\ w \in Nat /\ v * buffer_size \in Nat /\ buffer_size \in Nat
        /\ access_size \in Nat /\ v * buffer_size + buffer_size <= AEP_SIZE \div 2
    BY <2>1, LiveBuffer
  <2>3. at[v] + access_size <= at[w] \/ at[w] + access_size <= at[v]
    <3>1. CASE v < w
      BY <3>1, OpsApart
    <3>2. CASE w < v
      BY <3>2, OpsApart
    <3> QED
      BY <2>2, <3>1, <3>2
  <2>4. at[v] + access_size <= at[w] + AEP_SIZE \div 2
    <3>1. /\ at[v] \in Nat /\ at[w] \in Nat
          /\ at[v] + access_size <= v * buffer_size + buffer_size
      BY OpInBuffer
    <3> QED
      BY <2>2, <3>1, Consts
  <2> QED
    BY <2>2, <2>3, <2>4
<1> QED
  BY <1>1, StudyInvariantHolds, PTL

=============================================================================
