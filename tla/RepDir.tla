------------------------------- MODULE RepDir -------------------------------
(***************************************************************************)
(* How bgtest/AEP/aep_study.cc sets up its report directory: CleanRepDir   *)
(* removes what earlier runs left, InitRepDir makes the directories,       *)
(* Report and RunData open their files there.  Several benchmark processes *)
(* may be started on one directory; the code takes no lock.                *)
(***************************************************************************)
EXTENDS FileUtil

CONSTANTS rep_dir_path, internal_dir, report_dir,   \* paths in Node
          report_path, data_path,  \* for each process, the paths of its files
          SharedKinds   \* the initial trees on which several processes start

ASSUME PathsAssumption ==
    /\ {rep_dir_path, internal_dir, report_dir} \subseteq Node
    /\ Parent[internal_dir] = rep_dir_path /\ Parent[report_dir] = rep_dir_path
    /\ report_path \in [Proc -> Node] /\ data_path \in [Proc -> Node]
    /\ \A p \in Proc : /\ Parent[report_path[p]] = report_dir
                       /\ Parent[data_path[p]] = internal_dir

VARIABLE main   \* where each process's main thread is

vars == <<fileVars, main>>

Goto(p, l) == main' = [main EXCEPT ![p] = l]
Exit(p) == Goto(p, "exit")

CleanRepDir(p) ==
    /\ main[p] = "clean"
    /\ RemoveDirRecursive(p, rep_dir_path)
    /\ Goto(p, "walk")

Walk(p) == main[p] = "walk" /\ WalkStep(p) /\ UNCHANGED main

\* The result of RemoveDirRecursive is ignored.
Cleaned(p) ==
    /\ main[p] = "walk" /\ result[p] # "running"
    /\ Goto(p, IF result[p] = "crash" THEN "exit" ELSE "rep?")
    /\ UNCHANGED fileVars

\* if (!FileExists(n)): the test and the mkdir are two system calls.
Test(p, at, n, no, yes) ==
    /\ main[p] = at
    /\ Sys(FileExists(n), Goto(p, yes), Goto(p, no))
    /\ UNCHANGED <<kind, walk, fds>>

\* ret = CreateDir(n); log_assert(!ret);
Make(p, at, n, next) == main[p] = at /\ CreateDir(n, Goto(p, next), Exit(p))

\* Mutant: the directories below are not looked at when rep_dir_path exists.
InitRepDirShallow(p) ==
    \/ Test(p, "rep?", rep_dir_path, "rep", "ready")
    \/ Make(p, "rep", rep_dir_path, "internal")
    \/ Make(p, "internal", internal_dir, "report")
    \/ Make(p, "report", report_dir, "ready")

InitRepDir(p) ==
    \/ Test(p, "rep?", rep_dir_path, "rep", "internal?")
    \/ Make(p, "rep", rep_dir_path, "internal")
    \/ Make(p, "internal", internal_dir, "report")
    \/ Make(p, "report", report_dir, "ready")
    \/ Test(p, "internal?", internal_dir, "internal!", "report?")
    \/ Make(p, "internal!", internal_dir, "report?")
    \/ Test(p, "report?", report_dir, "report", "ready")

\* Report: OpenAndAllocAtSize(report_path, 0), which leaves the file's size
OpenReport(p) == main[p] = "ready" /\ Open(p, report_path[p], Goto(p, "data"), Exit(p))

\* RunData: OpenAndAllocAtSize(data_path, size); log_assert(data_fd_ > 0)
OpenData(p) == main[p] = "data" /\ Open(p, data_path[p], Goto(p, "truncate"), Exit(p))

Truncate(p) == main[p] = "truncate" /\ Alloc(p, Goto(p, "fallocate"), Exit(p))

Fallocate(p) == main[p] = "fallocate" /\ Alloc(p, Goto(p, "map"), Exit(p))

\* The file is mapped (module PmemMap) and closed.
CloseData(p) == main[p] = "map" /\ Close(p) /\ Goto(p, "running")

ProcStep(p) ==
    \/ CleanRepDir(p) \/ Walk(p) \/ Cleaned(p) \/ InitRepDir(p)
    \/ OpenReport(p) \/ OpenData(p) \/ Truncate(p) \/ Fallocate(p) \/ CloseData(p)

\* All processes are measuring or have ended.
Settled == (\A p \in Proc : main[p] \in {"running", "exit"}) /\ UNCHANGED vars

\* The processes in S are started; the others count as ended.
Init ==
    /\ FileInit
    /\ \E S \in SUBSET Proc :
          /\ IF kind \in SharedKinds THEN S = Proc ELSE Cardinality(S) = 1
          /\ main = [p \in Proc |-> IF p \in S THEN "clean" ELSE "exit"]

Next == (\E p \in Proc : ProcStep(p)) \/ Settled

\* The scheduler runs every process that can run.
Spec == Init /\ [][Next]_vars /\ \A p \in Proc : WF_vars(ProcStep(p))

-----------------------------------------------------------------------------
\* The type invariant.
TypeOK ==
    /\ kind \in [Node -> Kinds]
    /\ result \in [Proc -> {"none", "running", "ok", "error", "crash"}]
    /\ open \in [Proc -> Nat] /\ fds \in [Proc -> Nat]
    /\ faults \in 0 .. MaxFaults
    /\ main \in [Proc -> {"clean", "walk", "rep?", "rep", "internal", "report", "internal?",
                          "internal!", "report?", "ready", "data", "truncate", "fallocate",
                          "map", "running", "exit"}]

\* The paths at or below rep_dir_path: the smallest set that holds it and, with
\* a path, all that lie in it.
Inside == {n \in Node : \A S \in SUBSET Node :
              rep_dir_path \in S /\ (\A c \in Node : Parent[c] \in S => c \in S) => n \in S}

\* Nothing outside the report directory is touched by RemoveDirRecursive
\* (file.cc skips "." and "..").
OnlyInside == [][\A n \in Node \ Inside : kind'[n] = kind[n]]_vars

PlainTree == \A n \in Node : kind[n] \in {"none", "reg", "dir"}

\* Nothing is left of a tree of plain files and directories, if no system call
\* of RemoveDirRecursive fails and no other process has begun to work on it.
RemovesPlainTree ==
    \A p \in Proc :
        /\ main[p] = "rep?" /\ faults = MaxFaults /\ PlainTree
        /\ \A q \in Proc \ {p} : result[q] = "none"
        => \A n \in Inside : kind[n] = "none"

\* RemoveDirRecursive that returns 0 has closed every directory stream, and a
\* process that measures has one descriptor open, its report's (RunData closes
\* its own); the error path of OpenAndAllocAtSize leaves none behind.
NothingLeaks ==
    \A p \in Proc : /\ result[p] = "ok" => open[p] = 0
                    /\ main[p] = "running" => fds[p] = 1
                    /\ main[p] = "exit" => fds[p] <= 1

\* RemoveDirRecursive returns, whatever links, even circular ones, the tree
\* holds and whatever the other process does to it.
CleanReturns == \A p \in Proc : main[p] = "walk" ~> main[p] # "walk"

\* A process that has cleaned the directory and comes to InitRepDir when all
\* others are measuring or have ended gets through to its own measurement,
\* whatever part of the tree its own removal and the others' failures have
\* left behind, provided that no file is where a directory should be.
LastOneRuns ==
    \A p \in Proc :
        /\ main[p] = "rep?" /\ faults = 0
        /\ \A q \in Proc \ {p} : main[q] \in {"running", "exit"}
        /\ \A n \in {rep_dir_path, internal_dir, report_dir} : kind[n] \in {"none", "dir"}
        ~> main[p] = "running"
=============================================================================
