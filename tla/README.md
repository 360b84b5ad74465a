# HLFS: a TLA+ model of the persistent-memory primitives and their benchmark

HLFS is announced as a hybrid log-structured file system. At this commit the
repository holds the layer below it: functions that copy to, store to and load
from byte-addressable persistent memory ("AEP"), helpers that map it and manage
files, and a multi-threaded benchmark that measures the functions. This project
models them, checks them with TLC and proves the central results with TLAPS.

## 1. Inventory

| component | source | state | operations | hard because |
|---|---|---|---|---|
| vector copy/store/load functions | `util/aep.h`, `util/aep_just.h`, `util/instr.h`, `util/instr_just.h` | `dest`, `src`, `len`, `need_flush`; memory behind the cache | six `cpy_*`, five `_just_*`, `cpy_less_16b_noflush`, `clwb_extent` | durability is invisible without a power failure; thresholds and alignment; lines shared by two threads |
| native copy and memset | `util/aep.h` 87-137 | `dest`, `src`, `len` | `cpy_native_*`, `memset_native_*` | line-wise flush with own head and tail |
| timed operations | `bgtest/AEP/aep_study.h` | none | a function, then `clwb_extent`, `sfence`, or PMDK | what is durable when the operation returns |
| benchmark program | `bgtest/AEP/aep_study.cc` | flags, configuration globals, per-thread `Task` and `RunData` | flag checks, `InitGlobalCfg`, three main jobs, `ThreadJob` | workers on one mapping, configuration rederived in loops, data reused between measurements, calls that fail |
| analysis and report | `aep_study.cc` 504-650 | results, report file | `Analyze`, `AnalyzeForCachelineFlush`, `Report` | 32-bit totals, percentile indices, where results go |
| pmem2 mapping | `util/aep.cc` | PMDK objects, descriptors | `Pmem2Map*`, `Pmem2UnMap` | error paths in the middle of a sequence |
| file utilities | `util/file.cc` | file tree, descriptors | open/allocate, create, recursive removal | partial failure; other processes in the same tree |
| persistent memory | hardware | cache, write-combining buffers, media | store, non-temporal store, `clwb`, `sfence`, eviction, power failure | the contract the code relies on |
| bit operations | `util/bitops.h` | none | `__fls` and others | undefined for 0 |
| cpu binding | `util/cpu.*` | affinity | `CoreBind` | its failure is ignored |
| logging | `util/log.*` | `is_init` | `InitLog`, macros | thin wrappers |

How they interact: `main` cleans and sets up the report directory, maps the
device and derives the configuration; `InitThreadContext` gives each worker a
slice of the mapping and a data file, itself mapped; `ThreadJob` binds itself to
a core, warms up and calls a timed operation per iteration, storing its duration;
`main` joins all workers, analyses the data of worker 0, reports, and goes on to
the next operation and the next configuration. The functions below know nothing
of each other: they rely on the caller for disjoint destinations.

What makes each part correct:

* functions: the destination gets the source and nothing else is touched; the
  lines written back are exactly those that must be; no call dies unless its
  arguments make that unavoidable; every call returns;
* operations: when one has returned, its bytes survive a power failure; while it
  runs, each byte is old or new;
* benchmark: workers stay in their slices, in the mapping and on their socket;
  what is reported belongs to the operation that is reported and goes where the
  flags say; an accepted run finishes, one with failing calls ends; undefined
  values are not computed with; reports are removed only on request;
* analysis: a percentile is an entry with the right share of longer ones, an
  average lies between the extremes, sorting loses no sample;
* mapping: nothing is deleted twice, nothing taken by a failed attempt is there
  when the next begins, each round measures with its files mapped, an orderly end
  releases everything;
* files: removal stays inside the directory, terminates, and leaves no directory
  stream open when it succeeds; of several processes that start on one
  directory at least one gets to run unless calls fail.

## 2. Modules

| module | what it is |
|---|---|
| `PMem` | the memory: `mem` (what loads see), `pm` (what survives), `pend` (what the next `sfence` of a thread makes durable) |
| `DurableWrite` | abstract specification: what a timed operation on persistent memory promises |
| `AepOps` | kernels, vector functions and timed operations as records: which instructions, which write-back, what follows |
| `AepCopy` | the common control structure of the eleven functions, one step per store or `clwb`; threads, faults, power failure, restart |
| `AepCopyInv` | its inductive invariant `IInv` |
| `AepCopyRefines` | `AepCopy` implements `DurableWrite` |
| `AepCopyProofs`, `AepCopyDurable`, `AepCopyRefinesProofs` | theorems about `AepCopy`; the last: it implements `DurableWrite` |
| `NativeCopy` | the operations built on `memcpy`, `memset`, word stores and PMDK; implements `DurableWrite` |
| `NativeCopyInv`, `NativeCopyProofs` | its inductive invariant `NativeInv`; theorems |
| `FileUtil` | `util/file.cc` on a file tree, one step per system call, each of which may fail |
| `RepDir` | `CleanRepDir`, `InitRepDir` and the opening of files by one or several processes, on `FileUtil` |
| `RepDirInv`, `RepDirProofs` | its inductive invariant `RepInv` and `InsideInv`; theorems |
| `PmemMap`, `PmemMapProofs` | `util/aep.cc` and its callers; theorems |
| `Analysis`, `AnalysisProofs` | `Analyze` and `AnalyzeForCachelineFlush`; theorems |
| `AepStudy` | the benchmark program |
| `AepStudyInv`, `AepStudyProofs` | its inductive invariant `StudyInv`; theorems |
| `MCAepCopy`, `MCNativeCopy`, `MCRepDir`, `MCPmemMap`, `MCAnalysis`, `MCAepStudy` | instances for TLC |

### PMem and DurableWrite

`Store` puts bytes into the cache and takes them out of every `pend` set;
`NtStore` also enters them into the storing thread's; `Clwb` enters a whole line,
whoever stored its bytes; `Sfence` moves a thread's `pend` to `pm`; `Evict` lets
the hardware write back an 8-byte word at any time. A power failure leaves `pm`.
A fault (signal) does not lose caches, so `mem` stays.

`DurableWrite` knows neither instructions nor lines nor `pend`: a call writes new
values in its destination in any order and portions, the media take over what
readers see whenever they like, and a call may only finish when readers see all of
its destination and the media hold what it promised to save. `ImplementsDurableWrite`
maps `media` to `pm`, `seen` to `mem`, `promise` to the history `may` and
`running` to the calls whose `pc` is not `idle`; `NativeImplementsDurableWrite`
does the same for `NativeCopy`.

### AepOps and AepCopy

The six `cpy_*` and five `_just_*` functions are the same text with other
kernels. `AepOps` says which: e.g. `cpy_load_store_flush` uses the `_noflush`
kernels for single vectors, the `_flush` kernels for blocks, and writes back its
first and last line under `need_flush` (`edges = "need"`); the non-temporal
functions write back after the head and, unguarded, after the tail
(`edges = "always"`). The actions of `AepCopy` follow the function from top to
bottom: `Call`/`Begin`, `HeadSkip`/`Head`/`HeadNext`, `A16`, `A32`, `FlushHead`,
`BlockEnter`/`BlockStore`/`BlockClwb`/`BlockEnd`/`BlockSkip`, `NeedFlush`, `T32`,
`T16`, `Tail`, `FlushEnd`, `Return`, `clwb_extent`, `Fence`. The map in
`PROJECT.json` names the lines of one function; the others have the same step at
the same place.

Abstractions:

* A source byte is its address, so a wrong byte is a wrong number. The `_just_`
  functions store all-ones (`Ones`) or what the registers hold (`Junk`).
* The source is not written during a call. `WritersDisjoint` of `AepStudy` is
  the caller's half of this bargain, as it is of the guard of `Begin`.
* The one or two accesses of `cpy_less_16b_noflush` are one step. No property
  relates two bytes of one piece, so the intermediate state could violate nothing
  that the states before and after do not.
* `_just_less_16b_load` lacks a `return` after its 9..15 case and loads again
  with smaller accesses; loads change nothing here.
* A kernel loads all its vectors before it stores the first, so an unaligned
  source faults before anything is stored (`BlockEnter`).
* Instructions take effect in program order. The kernels' asm statements have no
  `"memory"` clobber, so an optimiser is not obliged to keep plain stores on
  their side of them; this is outside the model.
* History variables: `may[a]` is the set of values byte `a` may have after a
  crash (widened when a call begins, narrowed to the new value by its `sfence`);
  `died` collects the calls that killed the process.

### NativeCopy

`cpy_native_flush` and `memset_native_flush` are `Head`, `Loop`, `Tail`, each a
`memcpy` or `memset` (`Memcpy`, then `Fill` for each `Chunk` of bytes, in any
order, cached or not) followed by `LineClwb`. `aep_native_store_dram` is
`StoreWord`, with the stride its pointer arithmetic really has. PMDK's functions
are external: one called without `PMEM2_F_MEM_NOFLUSH` returns when its bytes are
durable (`PmdkPersist`). The `PMDK` flags that only choose instructions make no
difference here.

### FileUtil and RepDir

A file tree is a fixed set of paths with a `kind` each ("none", "reg", "dir",
"link", "other"). `RemoveDirRecursive` keeps an explicit stack of frames; a
frame is at `access`, `stat`, `unlink`, `opendir`, `readdir`, `closedir` or
`rmdir`, and `todo` is what `readdir` has yet to return, including `.` and `..`. Another
process can change the tree between any two system calls, so an entry can be gone
when its frame gets to it. A cycle of symbolic links ends with `ELOOP` after
`MAXSYMLINKS`, as in the kernel. `Sys(can, good, bad)` is a system call: it
succeeds if it can, and fails if it cannot or a fault is drawn.
`RepDir` adds the callers, with `log_assert` on every result but the one of
`RemoveDirRecursive`, which `CleanRepDir` ignores.

Two processes that start on one directory can both exit: between `FileExists` and
`mkdir` of the one, the other makes the directory, and vice versa one level down.
`LastOneRuns` is what remains true.

### PmemMap

`Config`, `Source`, `Granularity`, `Map`, `Delete` are the calls of
`Pmem2MapFromFd`, each with its error return; `Mapped` is the caller's test of the
result and its `Close`. The device is mapped once, then in each of `Rounds` a data
file per thread is mapped and unmapped. All assertions on the path are
`log_assert` and stay active.

### Analysis

`std::sort` is a parameter, `Sort(_)`, of which `SortAssumption` says what the
C++ standard does: the result has the same entries in ascending order. TLC gets
an implementation and evaluates the assumption. `data` is sorted in place, so `SamplesKept` compares with a copy of what was
measured. `Index` is the product with 0.5, 0.99, 0.999 and so on, truncated:
computed on integers, exact for the sizes that occur. 32-bit
fields are taken modulo `UINT32`, bandwidth is left out.

### AepStudy

`main` follows the program from flag validation to `DestroyGlobalCfg`; workers
are at `bind`, `prepare`, `test`, `op` or `returned`. `Derive` is the part of
`InitGlobalCfg` that also runs in the loops. Configuration values are one variable
each, so the order in which the loops rederive and reassign them is the program's.
An operation is two steps (`StartOp`, `EndOp`), which lets operations of two
workers overlap; `data[w][n]` records which `sub_op` wrote entry `n`. Products of
sizes are taken modulo `UINT64`, masks and slot counts modulo `UINT32`.

`flags.fixed` says where the cores are that `vary_thread_num` uses,
`flags.faults` which calls may fail in a behaviour: "io" (opening or allocating a
file) or "create" (`pthread_create`). The build defines `NDEBUG`, so
`assert` tests nothing while `log_assert` ends the process: the failure of a
`pthread_create` goes unnoticed and `pthread_join` of a thread that never
was either returns or crashes (undefined behaviour), a failed `CoreBind` leaves
the worker where `numa_bind` put the process, on the socket.

Abstractions: a random index is chosen when it is used, from the range it was
drawn from when the `Task` was built; `__fls(0)` may be any bit number; a report
directory is `old` (holds earlier reports), `absent` or `new` (`RepDir` has the
detail); `Analyze` consumes the data without computing numbers (`Analysis` does).

## 3. Runs

| run | states | shows |
|---|---|---|
| `copy_one` | 19,248 | all operations and the bare calls of the unit tests, one call at a time: offsets and lengths at and next to the thresholds, misaligned sources, the end of the mapping, 256 to 1150 bytes (each kernel, the loop taken 0, 1 and 2 times): `TypeOK`, `Contained`, `Copied`, `Durable`, `FaultsExplained`, `WritesBackOwnLines`, `CallsReturn` |
| `copy_two` | 93,709 | two threads in one line, two calls, one power failure anywhere, evictions of the shared words, calls without a fence, loads and calls that die: `Durable`, `IInv`, `ImplementsDurableWrite` |
| `native` | 36,348 | every native and PMDK operation around line boundaries; two threads in one line with a power failure and evictions: `TypeOK`, `FillsAccessSize`, `NativeInv`, `NativeImplementsDurableWrite`, `NativeCallsReturn` |
| `study` | 189,839 | rejected and accepted command lines, 1 to 4 threads, both vary loops, files that cannot be made, threads that cannot be created, cores that are missing: `TypeOK`, `OwnBuffer`, `InMapping`, `SameSocket`, `WritersDisjoint`, `AnalyzesFreshData`, `StudyInv`, `Finishes`, `Ends` |
| `repdir` | 132,844 | one process on ten trees (foreign files, special files, links to a file, to nothing and to the directory itself, a file where a directory is expected), two processes on two trees, a failing call anywhere: `TypeOK`, `RemovesPlainTree`, `NothingLeaks`, `RepInv`, `OnlyInside`, `CleanReturns`, `LastOneRuns` |
| `pmem_map` | 148 | rounds of 1, 2 and 4 threads, each call may fail: `MapTypeOK`, `LeaksDoNotAdd`, `MeasuresMapped`, `AllReleased`, `MapEnds` |
| `analysis` | 1,652 | all arrays of up to 4 of three durations, and sizes around those where a percentile moves: `PercentilesRight`, `AverageBetween`, `SamplesKept` |

The other five runs end in a violation, one per finding below.

Bounds. A line has 64 bytes and the code's thresholds are real numbers, so the
copy runs use real addresses and lengths and bound the choice of requests:
`ShortRequests` has offsets and lengths at and next to the thresholds,
`LongRequests` those of the bigger kernels, 1150 is the length `aep_test.cc` uses.
`MaxCalls` and `MaxFailures` bound histories; one call suffices where the property
is about one call, two for threads that meet in a line or a rewrite of durable
bytes. The theorems remove all these bounds. In `NativeCopy` these bounds come
together as `Workloads`: single calls of many shapes, and pairs of few. `Chunk`
(the bytes `memcpy` stores at once) only bounds the number of intermediate states.

The benchmark's sizes are scaled: one unit stands for 16 bytes,
`KB = ITERS_UNIT = SMALL_BUFFER = 1`, and the ratios that decide which branch is
taken (slots per buffer, buffers per mapping, iterations per slot) are kept small;
`SUB_OPS = 2` is the least number with a predecessor. The thread threshold is
`MAX_THREAD_NUM = 4` (the loop runs with 1, 2 and 4). `WORD` bounds what an
undefined `__fls` returns. `UINT32 = 64` and `UINT64 = 256` stand for 2^32 and
2^64: larger than every product of an ordinary configuration; in `Analysis`
`UINT32 = 256` is more than any single duration and less than a few of them.

`SharedKinds` are the trees on which two processes start. `MaxFaults` bounds the
system calls of `RepDir` that fail for an outside reason; calls that fail because
of the tree are not counted. `MAXSYMLINKS` is far below
the kernel's 40, which changes only when a cycle is noticed. `Rounds` are those of
`vary_thread_num` up to 4 threads; the theorems hold for all.

Symmetry: the two threads of `copy_two` are interchangeable, and the run checks
invariants and a step property, which does not tell them apart. The runs with
liveness use none.

Fairness. `FairSpec` of `AepCopy` and `Spec` of `NativeCopy` assume that a thread
executes its next instruction (weak fairness of `Step`); `AepStudy` the same of
`main` and of each worker, `RepDir` of each process, `PmemMap` of its one thread.
This is what a preemptive scheduler gives threads that do not block;
`pthread_join` is a guard, a system call returns. Fairness of power failures,
evictions or failing calls is not assumed.

## 4. Findings

Each is a run whose counterexample contradicts a line of the repository, quoted
in `PROJECT.json`.

1. `study_stale_mask`, `aep_study.cc:780`: `MainJobVaryThreadNum` derives the slot
   mask before it shrinks `buffer_size`; from the second configuration on, random
   accesses (and sequential ones once they wrap) reach the next worker's buffer.
2. `study_fls_zero`, `aep_study.cc:287`: `vary_access_size` with a buffer smaller
   than an access computes `__fls(0)`, which `bitops.h` says callers must avoid.
3. `study_removes_reports`, `aep_study.cc:895`: the report directory is removed
   before every run, not only with `clean_rep_dir`, and before `rep_dir_path` is
   read from the flags (with `clean_rep_dir` too, line 891), so it is the
   default directory that goes.
4. `study_create_fails`, `aep_study.cc:863`: a failed `pthread_create` is tested
   by `assert` alone, which the build removes; data that was not measured is then
   analysed. `AnalyzesFreshData` is what holds when threads can be created.
5. `analysis_total`, `aep_study.cc:528`: totals are reported modulo 2^32 ns.

Seen while modelling, outside what the runs' instances contain:

* `aep_study.cc:771`: `vary_thread_num` replaces the checked cores by fixed
  numbers, which need not be on the socket (`flags.fixed = "elsewhere"` breaks
  `SameSocket`);
* `aep_study.cc:248`: the product in the size check wraps for buffers of 2^63
  bytes (two of `UINT64 \div 2` break `InMapping`);
* `aep_study.cc:658`: the warm-up of `idx_` starts one pair of entries past its end;
* `aep_study.cc:583`: the constructor of `Report` falls through to `use_std`, so
  results go to stdout in any case;
* `aep_study.h:236`: the loop of `aep_native_store_dram` counts bytes and indexes
  words, so of more than eight bytes it stores one word in eight, up to eight times
  as far as asked (a request of 16 bytes breaks `FillsAccessSize`); the operation
  is commented out of its table;
* `file.cc:86`: `stat` follows a link to a directory elsewhere, whose contents are
  then removed (such a link in the tree breaks `OnlyInside`);
* `file.cc:13`: the mode is decimal 666, so the owner of a new file may write and
  not read it, unless it is root;
* the help text `thread number <= 64` against the validator's `< 32`; `access
  size, unit 8 B` against bytes in code and `aep_test_flags`.

## 5. Proofs

For arbitrary `Thread`, `Addr`, `Requests`, bounds and evictions, from the
assumptions stated in the modules: addresses are naturals, requests lie within
the mapping (a function called with mapped memory), a load-only request has one
pointer, the bounds are naturals.

* `AepCopyProofs`: `TypeCorrect` (`Spec => []TypeOK`), `FaultsAreExplained`
  (`Spec => []FaultsExplained`) and `WriteBackConfined` (`Spec => WritesBackOwnLines`). Even the type invariant needs facts about the
  control, since `len` must not wrap: the kernel in progress must fit what is
  left (`BlockOK`). Faults need the alignment facts `CursorOK` and `AlignOK`:
  `dest` is a multiple of 16, 32 and 64 at the points where vectors of that size
  can follow, and `src` moves with it. The write-backs need `need_flush`
  (`NeedOK`: it is set at the end only if the last byte lies in the line of
  `dest`) and that `clwb_extent` walks whole lines from the first (`ExtentOK`).
* `AepCopyDurable`: `InvariantHolds` (`Spec => []IInv`) and from it
  `DurableCorrect`, `ContainedCorrect`, `CopiedCorrect`.
* `AepCopyRefinesProofs`: `Refinement` (`Spec => ImplementsDurableWrite`). A store
  is a `Write` (its effect, `PutEffect`, is the one the invariant's proof uses), an
  instruction that stores nothing is a `Write` of nothing, `Return` of an operation
  without a fence and `Fence` are `Finish`, `Call` is `Start`, a fault `Die`, a
  power failure `LosePower`, an eviction `WriteBack`, a restart a stutter. `Finish`
  is where the invariant is needed: the destination is filled when the function
  has returned, and all of it is on its way at the fence. One fact is added to the
  invariant, `FencedOnly`: only an operation with a fence comes to it.

`Durable` is not inductive: that the media are right after `sfence` depends on
each line having been written back after its last store. `IInv` says so at each
point of each function: up to where the destination is filled (`FilledOK`), and
that the filled bytes not yet on their way (`Unsent`) all lie in the one line the
next `clwb` addresses (`SentOK`): the first line during the head, the pair of
vectors in a kernel, the last line in the tail, nothing at the fence.
`NeedOK` ties `need_flush` to this. `CallsOK` has what other threads must
not do. The proof has one step per action; lemmas state how each kind of memory
step changes the three parts for the acting thread and for the others, and the
arithmetic of lines and alignment.

**`NativeCopyProofs`**, for every mapping, workload, chunk size and number of
threads: `NativeTypeCorrect`, `NativeInvariantHolds` (`Spec => []NativeInv`),
`NativeRefinement` (`Spec => NativeImplementsDurableWrite`) and
`NativeFillsAccessSize`. The invariant is harder than that of `AepCopy` in one
place and simpler in the others: `memcpy` and `memset` fill their bytes in any
order, so "filled" is not "below a pointer" but "below the end of the present
call and not in `todo`" (`Done`). `CallOK` says that the present call of a
line-wise function ends where its line or the destination ends, so that the
`clwb` that follows reaches all of it; `SentOK` that the filled bytes not yet sent
lie in that line, or in the lines `clwb_extent` has yet to visit.
`NativeFillsAccessSize` has the hypothesis that requests of
`aep_native_store_dram` have at most 8 bytes. That is the function's own limit: of
more it stores one word in eight (section 4).

**`AepStudyProofs`**, for every mapping size, thread limit and set of command
lines: `StudyInvariantHolds`, `StudyTypeCorrect`, `FreshDataAnalyzed`,
`SocketKept`, `BufferKept`, `MappingKept` and `WritersKeptApart`. None of these is
inductive: whether a worker leaves its buffer depends on `buf_slots_mask`, which
depends on the sizes when it was derived, which depends on what `CheckGlobalCfg`
let pass several steps earlier and what the loops changed since. `StudyInv` keeps
that chain: the flags that passed (`CheckedFlags`), what they imply before and
in the loops (`StartInv`, `LoopInv`), what a `Task` is made from (`Configured`),
that the configuration does not change while a worker lives (`WorkersInv`), the
worker's loop (`OpsInv`), and which entries of `data_` the present `sub_op` has
written (`DataInv`). Three results are stated for the states in which the code
keeps its promise, and the exceptions are findings:

* `BufferKept`, `MappingKept`, `WritersKeptApart` are of the form
  `Spec => [](BoundedIndex => ...)`. `BoundedIndex` fails when `vary_thread_num`
  uses the stale mask (finding 1; it holds there for sequential runs too short to
  wrap), when `__fls(0)` has been computed (finding 2), and when the product in
  the size check wraps around. All states of the `study` run with an operation
  under way satisfy it, through either disjunct.
* `SocketKept`: the workers are on the socket, or the job is `vary_thread_num`
  and its fixed cores are elsewhere.
* `AnalyzesFreshData` speaks of behaviours in which threads can be created
  (finding 4).

`FlsAssumption` says that the highest bit of a positive number exists: a fact of
arithmetic that the provers, which know no powers, cannot derive. TLC evaluates
it for the numbers of the instance.

**`RepDirProofs`**, for every tree, any number of processes and of failing calls:
`RepInvariantHolds`, `RepTypeCorrect`, `NothingLeaksCorrect`, `PlainTreeRemoved`
and `OutsideUntouched`. The tree is arbitrary: `TreeAssumption` says that every
path lies below `Top` (otherwise there would be no induction on depth, and in a
file system there is no other path) and that only directories hold anything.
`StackOK` and `FdOK` count streams and descriptors at each point. For the removal,
`RemoveOK` follows one process that nobody disturbs: its frames are a chain of
directories (`Chain`), each entry left in a directory is still to be descended
to or is where the next frame is (`Remaining`), a directory about to be removed is
empty (`Innermost`). A tree that holds something `RemoveDirRecursive` cannot
remove (a device, a dangling link) is `Stuck` for good, and the claim is about
the others. `OutsideUntouched` needs the second invariant, `InsideInv`: all
frames and all entries they have read lie inside. It has the hypothesis that no
link in the tree leads to a directory outside (`LinksStay`), which is exactly
what `stat` and `opendir` make necessary (section 4).

For every nonempty sequence `Rounds` of positive numbers, `PmemMapProofs` has
`MapTypeCorrect`, `LeaksDoNotAddCorrect`, `MeasuresMappedCorrect` and
`AllReleasedCorrect`. The invariant `MapInv` counts: at each point how many
configs and sources exist (`ObjectsOK`), whether a descriptor is open (`FdsOK`),
whether the device is mapped (`DevOK`), and which threads' files are
(`DataOK`: those below `k` while mapping, those from `k` on while unmapping). The
error returns leave objects behind, but only `exit` follows, which is why nothing
adds up.

**`AnalysisProofs`**, for arrays of every length: `PercentilesCorrect`,
`AverageCorrect` and `SamplesKeptCorrect`. The invariant is short (what is in the
array at each point, and that the result is that of the part analysed); the work
is in the operators. Induction over the array is done with a least
counterexample (`NatLeast`), which needs no operator parameter: the partial sums
exist, and they lie between `n * min` and `n * max` (`SumBounds`). From the
contract of `std::sort`, equal counts of each value, follows a rearrangement of
the places (`SortRearranges`), from that the number of longer samples
(`SortLonger`, `LongerThanEntry`) and, extended by the entries outside the part,
that none is lost.

Only model-checked: the liveness properties `CallsReturn`, `NativeCallsReturn`,
`Finishes`, `Ends`, `CleanReturns`, `LastOneRuns` and `MapEnds` (liveness is out
of the prover's reach). Every invariant and every action property that a passing
run checks is a theorem, under the hypotheses named above.

## 6. Not modelled, and the plan

Next, in this order:

1. `BoundedIndex` replaced by conditions on the command line, so that
   `BufferKept`, `MappingKept` and `WritersKeptApart` say which flags are safe.
2. The existence of the highest bit (`FlsAssumption`) as a lemma, with powers of
   two written as a recursive function.

Left out:

* `src/log.cc`: 27,590 lines of preprocessor output (glog and the standard
  headers), in no build file. It is five sixths of the repository's lines, so the
  share of lines that the map covers stays small whatever is modelled.
* `tool_test/` and the other experiments in `bgtest/AEP`: stand-alone trials of
  libraries and instructions that no part of the program calls.
* `cpy_64b_MOVDIR64B` (an unfinished trial in no table), the 32-vector kernels
  (commented out), the time measurement and bandwidth (floating point).
* `InitLog` and the logging macros; `CoreBindQuery` and time stamps, which only
  read; `DropCache`, the unused file functions and bit operations.
* `ValidateCoreIds` writes up to 80 core numbers into an array of 32 before the
  count is checked: what lies behind the array is up to the linker.
* The compiler's freedom around asm statements without a `"memory"` clobber.
* `env/env.h` is empty.
