------------------------------ MODULE FileUtil ------------------------------
(***************************************************************************)
(* util/file.cc: the directory tree as its functions use it, and           *)
(* RemoveDirRecursive one system call at a time, run by several processes  *)
(* on one file system.  Every system call may fail, at most MaxFaults      *)
(* times.                                                                  *)
(*                                                                         *)
(* A node stands for a path.  Its kind is "none" while nothing has that    *)
(* name.  A path that goes through a symbolic link reaches the nodes of    *)
(* the directory the link names.                                           *)
(***************************************************************************)
EXTENDS Integers, Sequences, SequencesExt

CONSTANTS
    Proc,           \* processes
    Node,           \* paths
    Parent,         \* the directory a path is in; Top is its own parent
    Top,
    LinkTo,         \* what a path names when it is a symbolic link
    InitialKinds,   \* the trees considered
    MAXSYMLINKS,    \* links the kernel follows in one path (40)
    MaxFaults       \* bound: system calls that fail

Kinds == {"none", "reg", "dir", "link", "other"}

\* All paths lie below Top, and only directories hold anything.
ASSUME TreeAssumption ==
    /\ Parent \in [Node -> Node] /\ Top \in Node /\ Parent[Top] = Top
    /\ \A S \in SUBSET (Node \ {Top}) : (\A n \in S : Parent[n] \in S) => S = {}
    /\ LinkTo \in [Node -> Node]
    /\ InitialKinds \subseteq [Node -> Kinds]
    /\ \A K \in InitialKinds : \A n \in Node \ {Top} : K[n] # "none" => K[Parent[n]] = "dir"
    /\ MAXSYMLINKS \in Nat \ {0} /\ MaxFaults \in Nat

VARIABLES
    kind,       \* what each path names
    stack,      \* for each process, the running calls of RemoveDirRecursive
    result,     \* what the outermost call returned
    open,       \* directory streams open
    fds,        \* file descriptors open
    faults      \* system calls that may still fail

walk == <<stack, result, open>>
fileVars == <<kind, walk, fds, faults>>

\* A system call succeeds when it can, and may fail for reasons of its own.
Sys(can, good, bad) ==
    \/ can /\ good /\ UNCHANGED faults
    \/ ~can /\ bad /\ UNCHANGED faults
    \/ faults > 0 /\ faults' = faults - 1 /\ bad

\* Where a path leads, and whether anything is there.
Res(n) == IF kind[n] = "link" THEN LinkTo[n] ELSE n
FileExists(n) == kind[Res(n)] # "none"

Children(d) == {c \in Node \ {Top} : Parent[c] = d /\ kind[c] # "none"}

-----------------------------------------------------------------------------
(***************************************************************************)
(* RemoveDirRecursive.  A frame holds its path n, the place in the code,   *)
(* the directory entries still to be read and the links its path follows.  *)
(***************************************************************************)
Frame(n, links) == [n |-> n, pc |-> "access", todo |-> {}, links |-> links]

\* "." and ".." are entries too.
Entries(d) == {[name |-> "child", n |-> c] : c \in Children(d)}
              \cup {[name |-> ".", n |-> d], [name |-> "..", n |-> Parent[d]]}

RemoveDirRecursive(p, n) ==
    /\ stack' = [stack EXCEPT ![p] = <<Frame(n, 0)>>]
    /\ result' = [result EXCEPT ![p] = "running"]
    /\ UNCHANGED <<kind, open, fds, faults>>

At(p, pc) == stack[p] # <<>> /\ Last(stack[p]).pc = pc
This(p) == Last(stack[p])
SetThis(p, f) == stack' = [stack EXCEPT ![p] = Append(Front(@), f)]

\* return 0
Return0(p) ==
    /\ stack' = [stack EXCEPT ![p] = Front(@)]
    /\ result' = [result EXCEPT ![p] = IF Len(stack[p]) = 1 THEN "ok" ELSE @]

\* A nonzero result passes through all callers: if (ret) return ret;
ReturnError(p, how) ==
    /\ stack' = [stack EXCEPT ![p] = <<>>]
    /\ result' = [result EXCEPT ![p] = how]

LinksOf(f) == f.links + IF kind[f.n] = "link" THEN 1 ELSE 0

Access(p) ==
    /\ At(p, "access")
    /\ Sys(FileExists(This(p).n) /\ LinksOf(This(p)) <= MAXSYMLINKS,
           SetThis(p, [This(p) EXCEPT !.pc = "stat"]) /\ UNCHANGED result,
           ReturnError(p, "error"))
    /\ UNCHANGED <<kind, open, fds>>

\* stat follows links; a type other than file and directory ends the walk.
Stat(p) ==
    /\ At(p, "stat")
    /\ LET type == kind[Res(This(p).n)]
       IN  Sys(type \in {"reg", "dir"},
               /\ SetThis(p, [This(p) EXCEPT !.pc = IF type = "reg" THEN "unlink"
                                                                     ELSE "opendir"])
               /\ UNCHANGED result,
               ReturnError(p, "error"))
    /\ UNCHANGED <<kind, open, fds>>

Unlink(p) ==
    /\ At(p, "unlink")
    /\ Sys(kind[This(p).n] \in {"reg", "link", "other"},
           kind' = [kind EXCEPT ![This(p).n] = "none"],
           UNCHANGED kind)
    /\ Return0(p)
    /\ UNCHANGED <<open, fds>>

\* opendir, and the readdir that fetches the entries; readdir(NULL) is the
\* end of the process.
OpenDir(p) ==
    /\ At(p, "opendir")
    /\ LET d == Res(This(p).n)
       IN  Sys(kind[d] = "dir",
               /\ SetThis(p, [This(p) EXCEPT !.pc = "readdir", !.todo = Entries(d)])
               /\ open' = [open EXCEPT ![p] = @ + 1]
               /\ UNCHANGED result,
               ReturnError(p, "crash") /\ UNCHANGED open)
    /\ UNCHANGED <<kind, fds>>

\* Mutants: the loop ends after one entry; it closes the stream; only "." is
\* skipped.
ReadDirOnce(p) ==
    /\ At(p, "readdir") /\ This(p).todo # {}
    /\ \E e \in This(p).todo :
          LET rest == [This(p) EXCEPT !.todo = {}]
          IN  IF e.name \in {".", ".."} THEN SetThis(p, rest)
              ELSE stack' = [stack EXCEPT ![p] = Append(Append(Front(@), rest),
                                                        Frame(e.n, LinksOf(This(p))))]
    /\ UNCHANGED <<kind, result, open, fds, faults>>

ReadDirCloses(p) ==
    /\ At(p, "readdir") /\ This(p).todo # {}
    /\ \E e \in This(p).todo :
          LET rest == [This(p) EXCEPT !.todo = @ \ {e}]
          IN  IF e.name \in {".", ".."} THEN SetThis(p, rest)
              ELSE stack' = [stack EXCEPT ![p] = Append(Append(Front(@), rest),
                                                        Frame(e.n, LinksOf(This(p))))]
    /\ open' = [open EXCEPT ![p] = @ - 1]
    /\ UNCHANGED <<kind, result, fds, faults>>

ReadDirUp(p) ==
    /\ At(p, "readdir") /\ This(p).todo # {}
    /\ \E e \in This(p).todo :
          LET rest == [This(p) EXCEPT !.todo = @ \ {e}]
          IN  IF e.name = "." THEN SetThis(p, rest)
              ELSE stack' = [stack EXCEPT ![p] = Append(Append(Front(@), rest),
                                                        Frame(e.n, LinksOf(This(p))))]
    /\ UNCHANGED <<kind, result, open, fds, faults>>

ReadDir(p) ==
    /\ At(p, "readdir") /\ This(p).todo # {}
    /\ \E e \in This(p).todo :
          LET rest == [This(p) EXCEPT !.todo = @ \ {e}]
          IN  IF e.name \in {".", ".."} THEN SetThis(p, rest)
              ELSE stack' = [stack EXCEPT ![p] = Append(Append(Front(@), rest),
                                                        Frame(e.n, LinksOf(This(p))))]
    /\ UNCHANGED <<kind, result, open, fds, faults>>

CloseDir(p) ==
    /\ At(p, "readdir") /\ This(p).todo = {}
    /\ SetThis(p, [This(p) EXCEPT !.pc = "rmdir"])
    /\ open' = [open EXCEPT ![p] = @ - 1]
    /\ UNCHANGED <<kind, result, fds, faults>>

\* Mutant: rmdir is repeated until it succeeds.
RmDirRetries(p) ==
    /\ At(p, "rmdir")
    /\ kind[This(p).n] = "dir" /\ Children(This(p).n) = {}
    /\ kind' = [kind EXCEPT ![This(p).n] = "none"]
    /\ Return0(p)
    /\ UNCHANGED <<open, fds, faults>>

\* rmdir, whose result is ignored
RmDir(p) ==
    /\ At(p, "rmdir")
    /\ Sys(kind[This(p).n] = "dir" /\ Children(This(p).n) = {},
           kind' = [kind EXCEPT ![This(p).n] = "none"],
           UNCHANGED kind)
    /\ Return0(p)
    /\ UNCHANGED <<open, fds>>

WalkStep(p) == \/ Access(p) \/ Stat(p) \/ Unlink(p) \/ OpenDir(p) \/ ReadDir(p)
               \/ CloseDir(p) \/ RmDir(p)

-----------------------------------------------------------------------------
(***************************************************************************)
(* The other functions: one system call each.                              *)
(***************************************************************************)
\* CreateDir: mkdir
CreateDir(n, good, bad) ==
    /\ Sys(kind[n] = "none" /\ kind[Res(Parent[n])] = "dir",
           kind' = [kind EXCEPT ![n] = "dir"] /\ good,
           UNCHANGED kind /\ bad)
    /\ UNCHANGED <<walk, fds>>

\* The open of OpenAndAllocAtSize: O_RDWR | O_CREAT.  The program runs as
\* root, so permission bits do not stop it.
Open(p, f, good, bad) ==
    /\ Sys(kind[f] \in {"none", "reg"} /\ kind[Res(Parent[f])] = "dir",
           /\ kind' = [kind EXCEPT ![f] = "reg"]
           /\ fds' = [fds EXCEPT ![p] = @ + 1]
           /\ good,
           UNCHANGED <<kind, fds>> /\ bad)
    /\ UNCHANGED walk

\* Mutant: the error path returns without closing the descriptor.
AllocLeaks(p, good, bad) ==
    /\ Sys(TRUE, good, bad)
    /\ UNCHANGED <<kind, walk, fds>>

\* Its ftruncate and posix_fallocate, and the label err.
Alloc(p, good, bad) ==
    /\ Sys(TRUE, good /\ UNCHANGED fds, bad /\ fds' = [fds EXCEPT ![p] = @ - 1])
    /\ UNCHANGED <<kind, walk>>

Close(p) ==
    /\ fds' = [fds EXCEPT ![p] = @ - 1]
    /\ UNCHANGED <<kind, walk, faults>>

FileInit ==
    /\ kind \in InitialKinds
    /\ stack = [p \in Proc |-> <<>>]
    /\ result = [p \in Proc |-> "none"]
    /\ open = [p \in Proc |-> 0]
    /\ fds = [p \in Proc |-> 0]
    /\ faults = MaxFaults
=============================================================================
