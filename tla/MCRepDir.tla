------------------------------ MODULE MCRepDir ------------------------------
(***************************************************************************)
(* Instances of RepDir for TLC: a report directory with its two            *)
(* directories, a data and a report file, one entry that does not belong   *)
(* there, and a directory outside.                                         *)
(***************************************************************************)
EXTENDS RepDirInv

CONSTANTS p1, p2, top, rep, int, rpt, dat, txt, extra, loop, alias, dangling,
          out, outfile, nothing

Nodes == {top, rep, int, rpt, dat, txt, extra, loop, alias, dangling, out, outfile, nothing}

ParentOf == [n \in Nodes |->
    CASE n \in {top, rep, out, nothing} -> top
      [] n = outfile -> out
      [] n = dat -> int
      [] n = txt -> rpt
      [] OTHER -> rep]

\* loop names the directory it is in, alias a file outside, dangling nothing.
Links == [n \in Nodes |-> CASE n = loop -> rep [] n = alias -> outfile [] OTHER -> nothing]

\* n is of kind k; of the others, dirs are directories and regs files.
Tree(dirs, regs, n, k) ==
    [m \in Nodes |-> IF m = n THEN k
                     ELSE IF m \in dirs \cup {top, out} THEN "dir"
                     ELSE IF m \in regs \cup {outfile} THEN "reg" ELSE "none"]

Full(n, k) == Tree({rep, int, rpt}, {dat, txt}, n, k)

OneTrees ==
    {Full(extra, k) : k \in {"none", "reg", "dir", "other"}}
    \cup {Full(loop, "link"), Full(alias, "link"), Full(dangling, "link")}
    \cup {Tree({}, {}, extra, "none"), Tree({}, {rep}, extra, "none"),
          Tree({rep, int}, {dat}, rpt, "reg"), Tree({rep}, {}, extra, "none")}

TwoTrees == {Tree({rep, int}, {dat}, extra, "none"), Tree({}, {}, extra, "none")}

Trees == OneTrees \cup TwoTrees

Two == {p1, p2}
ReportPath == [p \in Two |-> txt]
DataPath == [p \in Two |-> dat]
=============================================================================
