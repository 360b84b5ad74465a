SPECIFICATION Spec
CONSTANTS
    p1 = p1
    p2 = p2
    top = top
    rep = rep
    int = int
    rpt = rpt
    dat = dat
    txt = txt
    extra = extra
    loop = loop
    alias = alias
    dangling = dangling
    out = out
    outfile = outfile
    nothing = nothing
    Proc <- Two
    Node <- Nodes
    Parent <- ParentOf
    Top = top
    LinkTo <- Links
    InitialKinds <- Trees
    SharedKinds <- TwoTrees
    MAXSYMLINKS = 1
    MaxFaults = 1
    rep_dir_path = rep
    internal_dir = int
    report_dir = rpt
    report_path <- ReportPath
    data_path <- DataPath
INVARIANTS TypeOK RemovesPlainTree NothingLeaks RepInv
PROPERTIES OnlyInside CleanReturns LastOneRuns
