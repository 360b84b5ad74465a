----------------------------- MODULE RepDirInv -----------------------------
(***************************************************************************)
(* The inductive invariant of RepDir: the shape of the stack of            *)
(* RemoveDirRecursive, the descriptors open at each point of main, and     *)
(* what is left of the tree while one process removes it undisturbed.      *)
(***************************************************************************)
EXTENDS RepDir

WalkPCs == {"access", "stat", "unlink", "opendir", "readdir", "rmdir"}
Entry == [name : {"child", ".", ".."}, n : Node]
FrameSet == [n : Node, pc : WalkPCs, todo : SUBSET Entry, links : Nat]

\* The path that frame m of process p works on, where it is, and the entries
\* it has still to descend to.
Path(p, m) == stack[p][m].n
Place(p, m) == stack[p][m].pc
Todo(p, m) == {c \in Node : [name |-> "child", n |-> c] \in stack[p][m].todo}

\* All calls but the innermost wait in their readdir loop, with one directory
\* stream open each.
StackOK(p) ==
    /\ result[p] = "running" <=> stack[p] # <<>>
    /\ \A m \in 1 .. (Len(stack[p]) - 1) : Place(p, m) = "readdir"
    /\ result[p] = "running" =>
          open[p] = IF Place(p, Len(stack[p])) = "readdir" THEN Len(stack[p])
                                                          ELSE Len(stack[p]) - 1
    /\ result[p] \in {"none", "ok"} => open[p] = 0
    /\ result[p] = "none" => main[p] \in {"clean", "exit"}
    /\ main[p] = "clean" => result[p] = "none"
    /\ result[p] = "running" => main[p] = "walk"

\* The descriptors open: that of the report, and for a while that of the data.
FdOK(p) ==
    /\ main[p] \in {"data", "running"} => fds[p] = 1
    /\ main[p] \in {"truncate", "fallocate", "map"} => fds[p] = 2
    /\ main[p] = "exit" => fds[p] <= 1
    /\ main[p] \notin {"data", "running", "truncate", "fallocate", "map", "exit"} => fds[p] = 0

\* p works alone, and no system call has failed that could succeed.
Solo(p) == faults = MaxFaults /\ \A q \in Proc \ {p} : result[q] = "none"

\* Only directories hold anything.
WellFormed == \A n \in Node \ {Top} : kind[n] # "none" => kind[Parent[n]] = "dir"

\* RemoveDirRecursive never removes a device or socket, nor a link to anything
\* but a file.
Stuck == \E n \in Node : kind[n] = "other" \/ (kind[n] = "link" /\ kind[LinkTo[n]] # "reg")

\* The calls work on a chain of directories, each in the one before.
Chain(p) ==
    /\ Path(p, 1) = rep_dir_path
    /\ \A m \in 1 .. Len(stack[p]) : stack[p][m].links = 0
    /\ \A m \in 1 .. (Len(stack[p]) - 1) :
          Path(p, m + 1) # Top /\ Parent[Path(p, m + 1)] = Path(p, m)

\* What is left in a directory is still to be descended to, or is where the
\* next call is.
Remaining(p) ==
    \A m \in 1 .. Len(stack[p]) : Place(p, m) = "readdir" =>
        /\ kind[Path(p, m)] = "dir"
        /\ Todo(p, m) \subseteq Children(Path(p, m))
        /\ Children(Path(p, m)) \subseteq
              Todo(p, m) \cup (IF m < Len(stack[p]) THEN {Path(p, m + 1)} ELSE {})
        /\ m < Len(stack[p]) => /\ Path(p, m + 1) \notin Todo(p, m)
                                /\ kind[Path(p, m + 1)] # "none"

\* What the innermost call knows of its path.
Innermost(p) ==
    LET n == Path(p, Len(stack[p]))
        pc == Place(p, Len(stack[p]))
    IN  /\ pc = "stat" => kind[n] # "none" /\ kind[Res(n)] # "none"
        /\ pc \in {"opendir", "rmdir"} => kind[n] = "dir"
        /\ pc = "rmdir" => Children(n) = {}

\* Only what stat took for a file is unlinked.
UnlinksFiles(p) ==
    Place(p, Len(stack[p])) = "unlink" => kind[Res(Path(p, Len(stack[p])))] = "reg"

\* While p removes the tree undisturbed, it forgets nothing; when it is done,
\* nothing is left; unless the tree holds what cannot be removed.
RemoveOK(p) ==
    Solo(p) /\ main[p] \in {"clean", "walk", "rep?"} =>
        /\ WellFormed
        /\ result[p] = "running" => UnlinksFiles(p)
        /\ \/ Stuck
           \/ /\ result[p] = "running" => Chain(p) /\ Remaining(p) /\ Innermost(p)
              /\ main[p] # "clean" /\ result[p] # "running" => kind[rep_dir_path] = "none"

\* The inductive invariant of the report directory: each call of
\* RemoveDirRecursive holds one stream while it reads, each point of main its
\* descriptors, and an undisturbed removal forgets no entry.
RepInv ==
    /\ TypeOK
    /\ stack \in [Proc -> Seq(FrameSet)]
    /\ \A p \in Proc : StackOK(p) /\ FdOK(p) /\ RemoveOK(p)

\* No link of the report directory leads to a directory outside.
LinksStay(K) ==
    \A n \in Inside : K[n] = "link" => LinkTo[n] \in Inside \/ K[LinkTo[n]] # "dir"

\* RemoveDirRecursive works on paths at or below rep_dir_path only.
InsideInv ==
    /\ LinksStay(kind)
    /\ \A p \in Proc : \A m \in 1 .. Len(stack[p]) :
          Path(p, m) \in Inside /\ Todo(p, m) \subseteq Inside
=============================================================================
