---------------------------- MODULE RepDirProofs ----------------------------
(***************************************************************************)
(* Proofs about RepDir: the inductive invariant RepInv and what follows    *)
(* from it, for every tree, every set of links and any number of           *)
(* processes.                                                              *)
(***************************************************************************)
EXTENDS RepDirInv, SequenceTheorems, TLAPS

Results == {"none", "running", "ok", "error", "crash"}

Stacks == stack \in [Proc -> Seq(FrameSet)]

-----------------------------------------------------------------------------
(***************************************************************************)
(* What the steps do to a stack.                                           *)
(***************************************************************************)
Others(p) == \A q \in Proc : q # p => stack'[q] = stack[q]

Replaced(p, f) ==
    /\ Len(stack'[p]) = Len(stack[p]) /\ stack'[p][Len(stack[p])] = f
    /\ \A m \in 1 .. (Len(stack[p]) - 1) : stack'[p][m] = stack[p][m]

Popped(p) ==
    /\ Len(stack'[p]) = Len(stack[p]) - 1
    /\ \A m \in 1 .. (Len(stack[p]) - 1) : stack'[p][m] = stack[p][m]

Pushed(p, f, g) ==
    /\ Len(stack'[p]) = Len(stack[p]) + 1
    /\ stack'[p][Len(stack[p])] = f /\ stack'[p][Len(stack[p]) + 1] = g
    /\ \A m \in 1 .. (Len(stack[p]) - 1) : stack'[p][m] = stack[p][m]

LEMMA UpTo ==
  ASSUME NEW L \in Nat, L >= 1
  PROVE  /\ 1 \in 1 .. L /\ L \in 1 .. L
         /\ \A m \in 1 .. (L - 1) : m \in 1 .. L /\ m + 1 \in 1 .. L /\ m # L /\ m < L
         /\ \A m \in 1 .. L : m # L => m \in 1 .. (L - 1)
         /\ \A m \in 1 .. L : m \in Nat /\ m >= 1
OBVIOUS

LEMMA FrontFacts ==
  ASSUME NEW S, NEW s \in Seq(S), s # <<>>
  PROVE  /\ Len(s) \in Nat /\ Len(s) >= 1 /\ Last(s) = s[Len(s)] /\ Last(s) \in S
         /\ Front(s) \in Seq(S) /\ Len(Front(s)) = Len(s) - 1
         /\ \A m \in 1 .. (Len(s) - 1) : Front(s)[m] = s[m]
<1>1. Len(s) \in Nat /\ Len(s) # 0 /\ Len(s) >= 1
  BY EmptySeq, LenProperties
<1>2. s[Len(s)] \in S
  BY <1>1, ElementOfSeq
<1>3. /\ SubSeq(s, 1, Len(s) - 1) \in Seq(S)
      /\ Len(SubSeq(s, 1, Len(s) - 1)) = Len(s) - 1
      /\ \A m \in 1 .. (Len(s) - 1) : SubSeq(s, 1, Len(s) - 1)[m] = s[m]
  <2> DEFINE l == Len(s) - 1
  <2>1. l \in Int /\ 1 \in Int /\ l - 1 + 1 = l /\ l >= 0
    BY <1>1
  <2>2. \A j \in 1 .. l : s[j] \in S
    BY <1>1, ElementOfSeq
  <2> HIDE DEF l
  <2>3. /\ SubSeq(s, 1, l) \in Seq(S)
        /\ Len(SubSeq(s, 1, l)) = IF 1 <= l THEN l - 1 + 1 ELSE 0
        /\ \A j \in 1 .. (l - 1 + 1) : SubSeq(s, 1, l)[j] = s[1 + j - 1]
    BY <2>1, <2>2, SubSeqProperties
  <2>4. Len(SubSeq(s, 1, l)) = l /\ \A j \in 1 .. l : SubSeq(s, 1, l)[j] = s[j]
    BY <2>1, <2>3
  <2> QED
    BY <2>3, <2>4 DEF l
<1> QED
  BY <1>1, <1>2, <1>3 DEF Front, Last

LEMMA AppendFacts ==
  ASSUME NEW S, NEW s \in Seq(S), NEW e \in S
  PROVE  /\ Append(s, e) \in Seq(S) /\ Len(Append(s, e)) = Len(s) + 1
         /\ Append(s, e)[Len(s) + 1] = e
         /\ \A m \in 1 .. Len(s) : Append(s, e)[m] = s[m]
OBVIOUS

LEMMA TopFrame ==
  ASSUME Stacks, NEW p \in Proc, stack[p] # <<>>
  PROVE  /\ This(p) \in FrameSet /\ This(p) = stack[p][Len(stack[p])]
         /\ Len(stack[p]) \in Nat /\ Len(stack[p]) >= 1
BY FrontFacts DEF Stacks, This

LEMMA SetThisFacts ==
  ASSUME Stacks, NEW p \in Proc, stack[p] # <<>>, NEW f \in FrameSet, SetThis(p, f)
  PROVE  Stacks' /\ Others(p) /\ Replaced(p, f) /\ stack'[p] # <<>>
<1> DEFINE s == stack[p]
           t == Append(Front(s), f)
<1>1. s \in Seq(FrameSet) /\ s # <<>>
  BY DEF Stacks
<1>2. stack' = [stack EXCEPT ![p] = t]
  BY DEF SetThis
<1>3. /\ Front(s) \in Seq(FrameSet) /\ Len(Front(s)) = Len(s) - 1 /\ Len(s) \in Nat /\ Len(s) >= 1
      /\ \A m \in 1 .. (Len(s) - 1) : Front(s)[m] = s[m]
  BY <1>1, FrontFacts
<1>4. /\ t \in Seq(FrameSet) /\ Len(t) = Len(s) /\ t[Len(s)] = f
      /\ \A m \in 1 .. (Len(s) - 1) : t[m] = s[m]
  BY <1>3, AppendFacts
<1>5. stack'[p] = t
  BY <1>2 DEF Stacks
<1>6. Replaced(p, f) /\ stack'[p] # <<>>
  BY <1>3, <1>4, <1>5 DEF Replaced
<1> QED
  BY <1>2, <1>4, <1>6 DEF Stacks, Others

LEMMA PushFacts ==
  ASSUME Stacks, NEW p \in Proc, stack[p] # <<>>, NEW f \in FrameSet, NEW g \in FrameSet,
         stack' = [stack EXCEPT ![p] = Append(Append(Front(@), f), g)]
  PROVE  Stacks' /\ Others(p) /\ Pushed(p, f, g) /\ stack'[p] # <<>>
<1> DEFINE s == stack[p]
           t == Append(Front(s), f)
           u == Append(t, g)
<1>1. s \in Seq(FrameSet) /\ s # <<>>
  BY DEF Stacks
<1>2. stack' = [stack EXCEPT ![p] = u]
  OBVIOUS
<1>3. /\ Front(s) \in Seq(FrameSet) /\ Len(Front(s)) = Len(s) - 1 /\ Len(s) \in Nat /\ Len(s) >= 1
      /\ \A m \in 1 .. (Len(s) - 1) : Front(s)[m] = s[m]
  BY <1>1, FrontFacts
<1>4. /\ t \in Seq(FrameSet) /\ Len(t) = Len(s) /\ t[Len(s)] = f
      /\ \A m \in 1 .. (Len(s) - 1) : t[m] = s[m]
  BY <1>3, AppendFacts
<1>5. /\ u \in Seq(FrameSet) /\ Len(u) = Len(s) + 1 /\ u[Len(s) + 1] = g
      /\ \A m \in 1 .. Len(s) : u[m] = t[m]
  <2> HIDE DEF t
  <2> QED
    BY <1>4, AppendFacts
<1>6. u[Len(s)] = f /\ \A m \in 1 .. (Len(s) - 1) : u[m] = s[m]
  BY <1>3, <1>4, <1>5
<1>7. stack'[p] = u
  BY <1>2 DEF Stacks
<1> HIDE DEF u
<1>8. Pushed(p, f, g) /\ stack'[p] # <<>>
  BY <1>3, <1>5, <1>6, <1>7 DEF Pushed
<1> QED
  BY <1>2, <1>5, <1>8 DEF Stacks, Others

LEMMA PopFacts ==
  ASSUME Stacks, NEW p \in Proc, stack[p] # <<>>, stack' = [stack EXCEPT ![p] = Front(@)]
  PROVE  /\ Stacks' /\ Others(p) /\ Popped(p)
         /\ stack'[p] = <<>> <=> Len(stack[p]) = 1
<1> DEFINE s == stack[p]
<1>1. s \in Seq(FrameSet) /\ s # <<>>
  BY DEF Stacks
<1>3. /\ Front(s) \in Seq(FrameSet) /\ Len(Front(s)) = Len(s) - 1 /\ Len(s) \in Nat /\ Len(s) >= 1
      /\ \A m \in 1 .. (Len(s) - 1) : Front(s)[m] = s[m]
  BY <1>1, FrontFacts
<1>5. stack'[p] = Front(s)
  BY DEF Stacks
<1>6. Popped(p)
  BY <1>3, <1>5 DEF Popped
<1>7. stack'[p] = <<>> <=> Len(stack[p]) = 1
  <2>1. Front(s) = <<>> <=> Len(Front(s)) = 0
    BY <1>3, EmptySeq
  <2> QED
    BY <1>3, <1>5, <2>1
<1> QED
  BY <1>3, <1>6, <1>7 DEF Stacks, Others

LEMMA EmptyFacts ==
  ASSUME Stacks, NEW p \in Proc, NEW how \in Results, ReturnError(p, how),
         result \in [Proc -> Results]
  PROVE  /\ Stacks' /\ Others(p) /\ stack'[p] = <<>>
         /\ result' \in [Proc -> Results] /\ result'[p] = how
         /\ \A q \in Proc : q # p => result'[q] = result[q]
<1>1. <<>> \in Seq(FrameSet)
  OBVIOUS
<1> QED
  BY <1>1 DEF Stacks, Others, ReturnError
LEMMA Return0Facts ==
  ASSUME Stacks, NEW p \in Proc, stack[p] # <<>>, Return0(p), result \in [Proc -> Results]
  PROVE  /\ Stacks' /\ Others(p) /\ Popped(p)
         /\ stack'[p] = <<>> <=> Len(stack[p]) = 1
         /\ result' \in [Proc -> Results]
         /\ result'[p] = IF Len(stack[p]) = 1 THEN "ok" ELSE result[p]
         /\ \A q \in Proc : q # p => result'[q] = result[q]
<1>1. /\ stack' = [stack EXCEPT ![p] = Front(@)]
      /\ result' = [result EXCEPT ![p] = IF Len(stack[p]) = 1 THEN "ok" ELSE @]
  BY DEF Return0
<1>2. /\ result' \in [Proc -> Results]
      /\ result'[p] = IF Len(stack[p]) = 1 THEN "ok" ELSE result[p]
      /\ \A q \in Proc : q # p => result'[q] = result[q]
  BY <1>1 DEF Results
<1> QED
  BY <1>1, <1>2, PopFacts

-----------------------------------------------------------------------------
(***************************************************************************)
(* The steps of RemoveDirRecursive, by their effect.  The frame at work is *)
(* This(p).                                                                *)
(***************************************************************************)
Known == TypeOK /\ Stacks

\* Of the other processes, nothing changes but the tree and the faults left.
Framed(p) ==
    /\ Stacks' /\ Others(p)
    /\ result' \in [Proc -> Results] /\ \A q \in Proc : q # p => result'[q] = result[q]
    /\ faults' \in 0 .. MaxFaults
    /\ kind' \in [Node -> Kinds]
    /\ UNCHANGED fds
    /\ DOMAIN open' = Proc /\ \A q \in Proc : q # p => open'[q] = open[q]

Advances(p, from, to) ==
    /\ This(p).pc = from /\ Replaced(p, [This(p) EXCEPT !.pc = to]) /\ stack'[p] # <<>>
    /\ kind' = kind /\ faults' = faults /\ result'[p] = result[p]

Checks(p) ==
    /\ Advances(p, "access", "stat") /\ FileExists(This(p).n)
    /\ open'[p] = open[p]

Sorts(p) ==
    /\ \/ Advances(p, "stat", "unlink") /\ kind[Res(This(p).n)] = "reg"
       \/ Advances(p, "stat", "opendir") /\ kind[Res(This(p).n)] = "dir"
    /\ open'[p] = open[p]

Opens(p) ==
    /\ This(p).pc = "opendir" /\ stack'[p] # <<>>
    /\ Replaced(p, [This(p) EXCEPT !.pc = "readdir", !.todo = Entries(Res(This(p).n))])
    /\ kind[Res(This(p).n)] = "dir"
    /\ kind' = kind /\ faults' = faults /\ result'[p] = result[p]
    /\ open'[p] = open[p] + 1

Skips(p) ==
    /\ This(p).pc = "readdir" /\ stack'[p] # <<>>
    /\ \E e \in This(p).todo : e.name # "child" /\
          Replaced(p, [This(p) EXCEPT !.todo = This(p).todo \ {e}])
    /\ kind' = kind /\ faults' = faults /\ result'[p] = result[p]
    /\ open'[p] = open[p]

Descends(p) ==
    /\ This(p).pc = "readdir" /\ stack'[p] # <<>>
    /\ \E e \in This(p).todo : e.name = "child" /\
          Pushed(p, [This(p) EXCEPT !.todo = This(p).todo \ {e}], Frame(e.n, LinksOf(This(p))))
    /\ kind' = kind /\ faults' = faults /\ result'[p] = result[p]
    /\ open'[p] = open[p]

Closes(p) ==
    /\ Advances(p, "readdir", "rmdir") /\ This(p).todo = {}
    /\ open'[p] = open[p] - 1

Removable(p) ==
    IF This(p).pc = "unlink" THEN kind[This(p).n] \in {"reg", "link", "other"}
    ELSE kind[This(p).n] = "dir" /\ Children(This(p).n) = {}

Removes(p) ==
    /\ This(p).pc \in {"unlink", "rmdir"}
    /\ Popped(p) /\ (stack'[p] = <<>> <=> Len(stack[p]) = 1)
    /\ result'[p] = IF Len(stack[p]) = 1 THEN "ok" ELSE result[p]
    /\ \/ Removable(p) /\ kind' = [kind EXCEPT ![This(p).n] = "none"]
       \/ (faults' # faults \/ ~Removable(p)) /\ kind' = kind
    /\ open'[p] = open[p]

Fails(p) ==
    /\ \/ faults' # faults
       \/ /\ This(p).pc = "access"
          /\ ~(FileExists(This(p).n) /\ LinksOf(This(p)) <= MAXSYMLINKS)
       \/ This(p).pc = "stat" /\ kind[Res(This(p).n)] \notin {"reg", "dir"}
       \/ This(p).pc = "opendir" /\ kind[Res(This(p).n)] # "dir"
    /\ stack'[p] = <<>> /\ result'[p] \in {"error", "crash"}
    /\ kind' = kind /\ open'[p] = open[p]

LEMMA FaultFacts ==
  ASSUME Known, faults' = faults \/ (faults > 0 /\ faults' = faults - 1)
  PROVE  faults' \in 0 .. MaxFaults
BY TreeAssumption DEF Known, TypeOK

LEMMA FrameTypes ==
  ASSUME Known, NEW p \in Proc, stack[p] # <<>>
  PROVE  /\ This(p) \in FrameSet /\ This(p).n \in Node /\ This(p).links \in Nat
         /\ This(p).todo \subseteq Entry
         /\ Res(This(p).n) \in Node /\ LinksOf(This(p)) \in Nat
         /\ \A pc \in WalkPCs : [This(p) EXCEPT !.pc = pc] \in FrameSet
         /\ \A pc \in WalkPCs, todo \in SUBSET Entry :
               [This(p) EXCEPT !.pc = pc, !.todo = todo] \in FrameSet
         /\ \A todo \in SUBSET Entry : [This(p) EXCEPT !.todo = todo] \in FrameSet
         /\ \A n \in Node : Entries(n) \subseteq Entry
         /\ \A e \in This(p).todo : Frame(e.n, LinksOf(This(p))) \in FrameSet
<1>1. This(p) \in FrameSet
  BY TopFrame DEF Known
<1>2. /\ This(p).n \in Node /\ This(p).links \in Nat /\ This(p).todo \subseteq Entry
  BY <1>1 DEF FrameSet
<1>3. Res(This(p).n) \in Node /\ LinksOf(This(p)) \in Nat
  BY <1>2, TreeAssumption DEF Res, LinksOf
<1>4. /\ \A pc \in WalkPCs : [This(p) EXCEPT !.pc = pc] \in FrameSet
      /\ \A pc \in WalkPCs, todo \in SUBSET Entry :
            [This(p) EXCEPT !.pc = pc, !.todo = todo] \in FrameSet
      /\ \A todo \in SUBSET Entry : [This(p) EXCEPT !.todo = todo] \in FrameSet
  BY <1>1 DEF FrameSet
<1>5. \A n \in Node : Entries(n) \subseteq Entry
  BY TreeAssumption DEF Entries, Entry, Children
<1>6. \A e \in This(p).todo : Frame(e.n, LinksOf(This(p))) \in FrameSet
  BY <1>2, <1>3 DEF Frame, FrameSet, Entry, WalkPCs
<1> QED
  BY <1>1, <1>2, <1>3, <1>4, <1>5, <1>6

LEMMA AtFacts ==
  ASSUME NEW p \in Proc, NEW pc, At(p, pc)
  PROVE  stack[p] # <<>> /\ This(p).pc = pc
BY DEF At, This

\* A step that replaces the frame at work and lets the results be.
LEMMA ReplaceFramed ==
  ASSUME Known, NEW p \in Proc, stack[p] # <<>>, NEW f \in FrameSet, SetThis(p, f),
         UNCHANGED <<kind, result, fds, faults>>,
         DOMAIN open' = Proc, \A q \in Proc : q # p => open'[q] = open[q]
  PROVE  Framed(p) /\ Replaced(p, f) /\ stack'[p] # <<>> /\ result'[p] = result[p]
BY SetThisFacts DEF Known, Framed, TypeOK, Results

LEMMA ErrorFramed ==
  ASSUME Known, NEW p \in Proc, stack[p] # <<>>, NEW how \in {"error", "crash"},
         ReturnError(p, how), UNCHANGED <<kind, fds, open>>,
         faults' = faults \/ (faults > 0 /\ faults' = faults - 1)
  PROVE  Framed(p) /\ stack'[p] = <<>> /\ result'[p] \in {"error", "crash"}
                   /\ open'[p] = open[p] /\ kind' = kind
<1>1. result \in [Proc -> Results] /\ how \in Results /\ DOMAIN open = Proc /\ kind \in [Node -> Kinds]
  BY DEF Known, TypeOK, Results
<1>2. faults' \in 0 .. MaxFaults
  BY FaultFacts
<1> QED
  BY <1>1, <1>2, EmptyFacts DEF Known, Framed

LEMMA FaultCount ==
  ASSUME Known
  PROVE  faults \in Nat /\ faults - 1 # faults
BY TreeAssumption DEF Known, TypeOK

LEMMA AccessEffect ==
  ASSUME Known, NEW p \in Proc, Access(p)
  PROVE  stack[p] # <<>> /\ Framed(p) /\ (Checks(p) \/ Fails(p))
<1> DEFINE f == [This(p) EXCEPT !.pc = "stat"]
           can == FileExists(This(p).n) /\ LinksOf(This(p)) <= MAXSYMLINKS
<1>1. stack[p] # <<>> /\ This(p).pc = "access"
  BY AtFacts DEF Access
<1>2. UNCHANGED <<kind, open, fds>> /\ DOMAIN open = Proc
  BY DEF Access, Known, TypeOK
<1>3. \/ can /\ SetThis(p, f) /\ UNCHANGED <<result, faults>>
      \/ ~can /\ ReturnError(p, "error") /\ UNCHANGED faults
      \/ faults > 0 /\ faults' = faults - 1 /\ ReturnError(p, "error")
  BY DEF Access, Sys
<1>4. CASE can /\ SetThis(p, f) /\ UNCHANGED <<result, faults>>
  <2>1. f \in FrameSet
    BY <1>1, FrameTypes DEF WalkPCs
  <2>2. Framed(p) /\ Replaced(p, f) /\ stack'[p] # <<>> /\ result'[p] = result[p]
    BY <1>1, <1>2, <1>4, <2>1, ReplaceFramed
  <2> QED
    BY <1>1, <1>2, <1>4, <2>2 DEF Checks, Advances
<1>5. CASE ~can /\ ReturnError(p, "error") /\ UNCHANGED faults
  BY <1>1, <1>2, <1>5, ErrorFramed DEF Fails
<1>6. CASE faults > 0 /\ faults' = faults - 1 /\ ReturnError(p, "error")
  BY <1>1, <1>2, <1>6, ErrorFramed, FaultCount DEF Fails
<1> QED
  BY <1>1, <1>3, <1>4, <1>5, <1>6

LEMMA StatEffect ==
  ASSUME Known, NEW p \in Proc, Stat(p)
  PROVE  stack[p] # <<>> /\ Framed(p) /\ (Sorts(p) \/ Fails(p))
<1> DEFINE type == kind[Res(This(p).n)]
           f == [This(p) EXCEPT !.pc = IF type = "reg" THEN "unlink" ELSE "opendir"]
           can == type \in {"reg", "dir"}
<1>1. stack[p] # <<>> /\ This(p).pc = "stat"
  BY AtFacts DEF Stat
<1>2. UNCHANGED <<kind, open, fds>> /\ DOMAIN open = Proc
  BY DEF Stat, Known, TypeOK
<1>3. \/ can /\ SetThis(p, f) /\ UNCHANGED <<result, faults>>
      \/ ~can /\ ReturnError(p, "error") /\ UNCHANGED faults
      \/ faults > 0 /\ faults' = faults - 1 /\ ReturnError(p, "error")
  BY DEF Stat, Sys
<1>4. CASE can /\ SetThis(p, f) /\ UNCHANGED <<result, faults>>
  <2>1. f \in FrameSet
    BY <1>1, FrameTypes DEF WalkPCs
  <2>2. Framed(p) /\ Replaced(p, f) /\ stack'[p] # <<>> /\ result'[p] = result[p]
    BY <1>1, <1>2, <1>4, <2>1, ReplaceFramed
  <2>3. CASE type = "reg"
    BY <1>1, <1>2, <1>4, <2>2, <2>3 DEF Sorts, Advances
  <2>4. CASE type = "dir"
    BY <1>1, <1>2, <1>4, <2>2, <2>4 DEF Sorts, Advances
  <2> QED
    BY <1>4, <2>3, <2>4
<1>5. CASE ~can /\ ReturnError(p, "error") /\ UNCHANGED faults
  BY <1>1, <1>2, <1>5, ErrorFramed DEF Fails
<1>6. CASE faults > 0 /\ faults' = faults - 1 /\ ReturnError(p, "error")
  BY <1>1, <1>2, <1>6, ErrorFramed, FaultCount DEF Fails
<1> QED
  BY <1>1, <1>3, <1>4, <1>5, <1>6

LEMMA OpenDirEffect ==
  ASSUME Known, NEW p \in Proc, OpenDir(p)
  PROVE  stack[p] # <<>> /\ Framed(p) /\ (Opens(p) \/ Fails(p))
<1> DEFINE d == Res(This(p).n)
           f == [This(p) EXCEPT !.pc = "readdir", !.todo = Entries(d)]
           can == kind[d] = "dir"
<1>1. stack[p] # <<>> /\ This(p).pc = "opendir"
  BY AtFacts DEF OpenDir
<1>2. UNCHANGED <<kind, fds>> /\ open \in [Proc -> Nat]
  BY DEF OpenDir, Known, TypeOK
<1>3. \/ /\ can /\ SetThis(p, f) /\ UNCHANGED <<result, faults>>
         /\ open' = [open EXCEPT ![p] = @ + 1]
      \/ ~can /\ ReturnError(p, "crash") /\ UNCHANGED <<open, faults>>
      \/ faults > 0 /\ faults' = faults - 1 /\ ReturnError(p, "crash") /\ UNCHANGED open
  BY DEF OpenDir, Sys
<1>4. CASE /\ can /\ SetThis(p, f) /\ UNCHANGED <<result, faults>>
           /\ open' = [open EXCEPT ![p] = @ + 1]
  <2>1. f \in FrameSet
    <3>1. Entries(d) \in SUBSET Entry
      BY <1>1, FrameTypes
    <3> QED
      BY <1>1, <3>1, FrameTypes DEF WalkPCs
  <2>2. DOMAIN open' = Proc /\ open'[p] = open[p] + 1 /\ \A q \in Proc : q # p => open'[q] = open[q]
    BY <1>2, <1>4
  <2>3. Framed(p) /\ Replaced(p, f) /\ stack'[p] # <<>> /\ result'[p] = result[p]
    BY <1>1, <1>2, <1>4, <2>1, <2>2, ReplaceFramed
  <2> QED
    BY <1>1, <1>2, <1>4, <2>2, <2>3 DEF Opens
<1>5. CASE ~can /\ ReturnError(p, "crash") /\ UNCHANGED <<open, faults>>
  BY <1>1, <1>2, <1>5, ErrorFramed DEF Fails
<1>6. CASE faults > 0 /\ faults' = faults - 1 /\ ReturnError(p, "crash") /\ UNCHANGED open
  BY <1>1, <1>2, <1>6, ErrorFramed, FaultCount DEF Fails
<1> QED
  BY <1>1, <1>3, <1>4, <1>5, <1>6

LEMMA ReadDirEffect ==
  ASSUME Known, NEW p \in Proc, ReadDir(p)
  PROVE  stack[p] # <<>> /\ Framed(p) /\ (Skips(p) \/ Descends(p))
<1>1. stack[p] # <<>> /\ This(p).pc = "readdir"
  BY AtFacts DEF ReadDir
<1>2. UNCHANGED <<kind, result, open, fds, faults>>
  BY DEF ReadDir
<1>3. /\ DOMAIN open = Proc /\ result \in [Proc -> Results] /\ kind \in [Node -> Kinds]
      /\ faults \in 0 .. MaxFaults
  BY DEF Known, TypeOK, Results
<1>4. PICK e \in This(p).todo :
        LET rest == [This(p) EXCEPT !.todo = @ \ {e}]
        IN  IF e.name \in {".", ".."} THEN SetThis(p, rest)
            ELSE stack' = [stack EXCEPT ![p] = Append(Append(Front(@), rest),
                                                      Frame(e.n, LinksOf(This(p))))]
  BY DEF ReadDir
<1> DEFINE rest == [This(p) EXCEPT !.todo = This(p).todo \ {e}]
           next == Frame(e.n, LinksOf(This(p)))
<1>5. e.name \in {"child", ".", ".."}
  BY <1>1, FrameTypes DEF Entry
<1>6. rest \in FrameSet /\ next \in FrameSet
  <2>1. This(p).todo \ {e} \in SUBSET Entry
    BY <1>1, FrameTypes
  <2> QED
    BY <1>1, <2>1, FrameTypes
<1>7. CASE e.name \in {".", ".."}
  <2>1. SetThis(p, rest)
    BY <1>4, <1>7
  <2>2. Framed(p) /\ Replaced(p, rest) /\ stack'[p] # <<>> /\ result'[p] = result[p]
    <3> HIDE DEF rest
    <3> QED
      BY <1>1, <1>2, <1>3, <1>6, <2>1, ReplaceFramed
  <2>3. Skips(p)
    BY <1>1, <1>2, <1>7, <2>2 DEF Skips
  <2> QED
    BY <1>1, <2>2, <2>3
<1>8. CASE e.name = "child"
  <2>1. stack' = [stack EXCEPT ![p] = Append(Append(Front(@), rest), next)]
    BY <1>4, <1>8
  <2>2. Stacks' /\ Others(p) /\ Pushed(p, rest, next) /\ stack'[p] # <<>>
    <3> HIDE DEF rest, next
    <3> QED
      BY <1>1, <1>6, <2>1, PushFacts DEF Known
  <2>3. Framed(p)
    BY <1>2, <1>3, <2>2 DEF Framed
  <2>4. Descends(p)
    BY <1>1, <1>2, <1>8, <2>2 DEF Descends
  <2> QED
    BY <1>1, <2>3, <2>4
<1> QED
  BY <1>5, <1>7, <1>8

LEMMA CloseDirEffect ==
  ASSUME Known, NEW p \in Proc, CloseDir(p)
  PROVE  stack[p] # <<>> /\ Framed(p) /\ Closes(p)
<1> DEFINE f == [This(p) EXCEPT !.pc = "rmdir"]
<1>1. stack[p] # <<>> /\ This(p).pc = "readdir" /\ This(p).todo = {}
  BY AtFacts DEF CloseDir
<1>2. /\ UNCHANGED <<kind, result, fds, faults>> /\ open' = [open EXCEPT ![p] = @ - 1]
      /\ SetThis(p, f)
  BY DEF CloseDir
<1>3. f \in FrameSet
  BY <1>1, FrameTypes DEF WalkPCs
<1>4. DOMAIN open' = Proc /\ open'[p] = open[p] - 1 /\ \A q \in Proc : q # p => open'[q] = open[q]
  BY <1>2 DEF Known, TypeOK
<1>5. Framed(p) /\ Replaced(p, f) /\ stack'[p] # <<>> /\ result'[p] = result[p]
  BY <1>1, <1>2, <1>3, <1>4, ReplaceFramed
<1> QED
  BY <1>1, <1>2, <1>4, <1>5 DEF Closes, Advances

LEMMA RemoveEffect ==
  ASSUME Known, NEW p \in Proc, Unlink(p) \/ RmDir(p)
  PROVE  stack[p] # <<>> /\ Framed(p) /\ Removes(p)
<1>1. stack[p] # <<>> /\ This(p).pc \in {"unlink", "rmdir"}
  BY AtFacts DEF Unlink, RmDir
<1>2. Return0(p) /\ UNCHANGED <<open, fds>>
  BY DEF Unlink, RmDir
<1>3. \/ Removable(p) /\ kind' = [kind EXCEPT ![This(p).n] = "none"] /\ UNCHANGED faults
      \/ ~Removable(p) /\ UNCHANGED <<kind, faults>>
      \/ faults > 0 /\ faults' = faults - 1 /\ UNCHANGED kind
  <2>1. CASE Unlink(p)
    BY <2>1, AtFacts DEF Unlink, Sys, Removable
  <2>2. CASE RmDir(p)
    BY <2>2, AtFacts DEF RmDir, Sys, Removable
  <2> QED
    BY <2>1, <2>2
<1>4. /\ DOMAIN open = Proc /\ result \in [Proc -> Results] /\ kind \in [Node -> Kinds]
  BY DEF Known, TypeOK, Results
<1>5. faults' \in 0 .. MaxFaults
  BY <1>3, FaultFacts
<1>6. /\ Stacks' /\ Others(p) /\ Popped(p)
      /\ stack'[p] = <<>> <=> Len(stack[p]) = 1
      /\ result' \in [Proc -> Results]
      /\ result'[p] = IF Len(stack[p]) = 1 THEN "ok" ELSE result[p]
      /\ \A q \in Proc : q # p => result'[q] = result[q]
  BY <1>1, <1>2, <1>4, Return0Facts DEF Known
<1>7. kind' \in [Node -> Kinds]
  BY <1>3, <1>4 DEF Kinds
<1>8. \/ Removable(p) /\ kind' = [kind EXCEPT ![This(p).n] = "none"]
      \/ (faults' # faults \/ ~Removable(p)) /\ kind' = kind
  BY <1>3, FaultCount
<1> QED
  BY <1>1, <1>2, <1>4, <1>5, <1>6, <1>7, <1>8 DEF Framed, Removes

LEMMA WalkEffect ==
  ASSUME Known, NEW p \in Proc, WalkStep(p)
  PROVE  /\ stack[p] # <<>> /\ Framed(p)
         /\ \/ Checks(p) \/ Sorts(p) \/ Opens(p) \/ Skips(p) \/ Descends(p) \/ Closes(p)
            \/ Removes(p) \/ Fails(p)
BY AccessEffect, StatEffect, OpenDirEffect, ReadDirEffect, CloseDirEffect, RemoveEffect
   DEF WalkStep

-----------------------------------------------------------------------------
(***************************************************************************)
(* The streams and descriptors.                                            *)
(***************************************************************************)
LEMMA RunningTop ==
  ASSUME Known, NEW p \in Proc, StackOK(p), stack[p] # <<>>
  PROVE  /\ result[p] = "running" /\ main[p] = "walk" /\ open[p] \in Nat
         /\ Len(stack[p]) \in Nat /\ Len(stack[p]) >= 1
         /\ This(p) = stack[p][Len(stack[p])] /\ This(p) \in FrameSet
         /\ open[p] = IF This(p).pc = "readdir" THEN Len(stack[p]) ELSE Len(stack[p]) - 1
         /\ \A m \in 1 .. (Len(stack[p]) - 1) : stack[p][m].pc = "readdir"
BY TopFrame DEF StackOK, Place, Known, TypeOK

\* The stack after the step, its innermost call at pc.
LEMMA StackOKNext ==
  ASSUME NEW p \in Proc, stack'[p] # <<>>, NEW pc,
         result'[p] = "running", main'[p] = "walk",
         stack'[p][Len(stack'[p])].pc = pc,
         \A m \in 1 .. (Len(stack'[p]) - 1) : stack'[p][m].pc = "readdir",
         open'[p] = IF pc = "readdir" THEN Len(stack'[p]) ELSE Len(stack'[p]) - 1
  PROVE  StackOK(p)'
BY DEF StackOK, Place

LEMMA StackOKDone ==
  ASSUME NEW p \in Proc, stack'[p] = <<>>, result'[p] \in {"ok", "error", "crash"},
         main'[p] # "clean", result'[p] = "ok" => open'[p] = 0
  PROVE  StackOK(p)'
<1>1. Len(stack'[p]) = 0
  OBVIOUS
<1>2. \A m \in 1 .. (Len(stack'[p]) - 1) : stack'[p][m].pc = "readdir"
  BY <1>1
<1> QED
  BY <1>2 DEF StackOK, Place

LEMMA WalkStack ==
  ASSUME Known, NEW p \in Proc, StackOK(p), WalkStep(p), main' = main
  PROVE  StackOK(p)' /\ open'[p] \in Nat
<1> DEFINE L == Len(stack[p])
<1>1. stack[p] # <<>> /\ Stacks'
  BY WalkEffect DEF Framed
<1>2. /\ result[p] = "running" /\ main[p] = "walk" /\ L \in Nat /\ L >= 1
      /\ This(p) = stack[p][L] /\ This(p) \in FrameSet /\ open[p] \in Nat
      /\ open[p] = IF This(p).pc = "readdir" THEN L ELSE L - 1
      /\ \A m \in 1 .. (L - 1) : stack[p][m].pc = "readdir"
  BY <1>1, RunningTop
<1>3. /\ \A pc \in WalkPCs : [This(p) EXCEPT !.pc = pc].pc = pc
      /\ \A todo : [This(p) EXCEPT !.pc = "readdir", !.todo = todo].pc = "readdir"
      /\ \A todo : [This(p) EXCEPT !.todo = todo].pc = This(p).pc
  BY <1>2 DEF FrameSet
<1>4. ASSUME NEW f, Replaced(p, f), stack'[p] # <<>>, result'[p] = result[p],
             open'[p] = IF f.pc = "readdir" THEN L ELSE L - 1
      PROVE  StackOK(p)' /\ open'[p] \in Nat
  <2>1. /\ Len(stack'[p]) = L /\ stack'[p][Len(stack'[p])].pc = f.pc
        /\ \A m \in 1 .. (Len(stack'[p]) - 1) : stack'[p][m].pc = "readdir"
    BY <1>2, <1>4 DEF Replaced
  <2>2. StackOK(p)'
    BY <1>2, <1>4, <2>1, StackOKNext
  <2> QED
    BY <1>2, <1>4, <2>2
<1>5. ASSUME NEW from \in WalkPCs, NEW to \in WalkPCs, Advances(p, from, to),
             open'[p] = IF to = "readdir" THEN L ELSE L - 1
      PROVE  StackOK(p)' /\ open'[p] \in Nat
  BY <1>3, <1>4, <1>5 DEF Advances
<1>6. CASE Checks(p) \/ Sorts(p) \/ Closes(p)
  <2>1. CASE Checks(p)
    BY <1>2, <1>5, <2>1 DEF Checks, Advances, WalkPCs
  <2>2. CASE Sorts(p)
    BY <1>2, <1>5, <2>2 DEF Sorts, Advances, WalkPCs
  <2>3. CASE Closes(p)
    BY <1>2, <1>5, <2>3 DEF Closes, Advances, WalkPCs
  <2> QED
    BY <1>6, <2>1, <2>2, <2>3
<1>11. CASE Opens(p)
  <2> DEFINE f == [This(p) EXCEPT !.pc = "readdir", !.todo = Entries(Res(This(p).n))]
  <2>1. f.pc = "readdir"
    BY <1>3
  <2>2. Replaced(p, f) /\ stack'[p] # <<>> /\ result'[p] = result[p] /\ open'[p] = L
    BY <1>2, <1>11 DEF Opens
  <2> QED
    BY <1>4, <2>1, <2>2
<1>7. CASE Skips(p)
  BY <1>2, <1>3, <1>4, <1>7 DEF Skips
<1>8. CASE Descends(p)
  <2>1. PICK e \in This(p).todo :
           Pushed(p, [This(p) EXCEPT !.todo = This(p).todo \ {e}], Frame(e.n, LinksOf(This(p))))
    BY <1>8 DEF Descends
  <2>2. /\ Len(stack'[p]) = L + 1 /\ stack'[p][Len(stack'[p])].pc = "access"
        /\ stack'[p][L].pc = "readdir" /\ \A m \in 1 .. (L - 1) : stack'[p][m].pc = "readdir"
    BY <1>2, <1>3, <1>8, <2>1 DEF Pushed, Frame, Descends
  <2>3. \A m \in 1 .. (Len(stack'[p]) - 1) : stack'[p][m].pc = "readdir"
    BY <1>2, <2>2
  <2> QED
    BY <1>2, <1>8, <2>2, <2>3, StackOKNext DEF Descends
<1>9. CASE Removes(p)
  <2>1. /\ Len(stack'[p]) = L - 1 /\ \A m \in 1 .. (L - 1) : stack'[p][m] = stack[p][m]
        /\ stack'[p] = <<>> <=> L = 1
        /\ result'[p] = (IF L = 1 THEN "ok" ELSE result[p]) /\ open'[p] = L - 1
    BY <1>2, <1>9 DEF Removes, Popped
  <2>2. CASE L = 1
    BY <1>2, <2>1, <2>2, StackOKDone
  <2>3. CASE L # 1
    <3>0. \A m \in 1 .. (L - 1) : stack'[p][m].pc = "readdir"
      BY <1>2, <2>1
    <3>1. /\ stack'[p][Len(stack'[p])].pc = "readdir" /\ open'[p] = Len(stack'[p])
          /\ \A m \in 1 .. (Len(stack'[p]) - 1) : stack'[p][m].pc = "readdir"
      <4>0. L \in Nat /\ L >= 2
        <5>1. L \in Nat /\ L >= 1
          BY <1>2
        <5> HIDE DEF L
        <5> QED
          BY <2>3, <5>1
      <4>1. L - 1 \in 1 .. (L - 1) /\ \A m \in 1 .. (L - 1 - 1) : m \in 1 .. (L - 1)
        <5> HIDE DEF L
        <5> QED
          BY <4>0
      <4>2. stack'[p][L - 1].pc = "readdir"
        BY <3>0, <4>1
      <4>3. \A m \in 1 .. (L - 1 - 1) : stack'[p][m].pc = "readdir"
        BY <3>0, <4>1
      <4>4. Len(stack'[p]) = L - 1 /\ open'[p] = L - 1
        BY <2>1
      <4> HIDE DEF L
      <4> QED
        BY <4>2, <4>3, <4>4
    <3>2. stack'[p] # <<>> /\ result'[p] = "running" /\ main'[p] = "walk" /\ open'[p] \in Nat
      BY <1>2, <2>1, <2>3
    <3> QED
      BY <3>1, <3>2, StackOKNext
  <2> QED
    BY <2>2, <2>3
<1>10. CASE Fails(p)
  BY <1>2, <1>10, StackOKDone DEF Fails
<1> QED
  BY <1>1, <1>6, <1>7, <1>8, <1>9, <1>10, <1>11, WalkEffect

MainPCs == {"clean", "walk", "rep?", "rep", "internal", "report", "internal?", "internal!",
            "report?", "ready", "data", "truncate", "fallocate", "map", "running", "exit"}

\* Where main has no descriptor open and the removal is behind it.
NoFds == {"rep?", "rep", "internal", "report", "internal?", "internal!", "report?", "ready"}

BaseInv == Known /\ \A q \in Proc : StackOK(q) /\ FdOK(q)

\* A step of p is no step of another process.
Kept(p) == \A q \in Proc : q # p => /\ stack'[q] = stack[q] /\ result'[q] = result[q]
                                    /\ open'[q] = open[q] /\ fds'[q] = fds[q]
                                    /\ main'[q] = main[q]

Based(p) == Known' /\ Kept(p) /\ StackOK(p)' /\ FdOK(p)' /\ result'[p] # "none"

LEMMA Types ==
  ASSUME Known
  PROVE  /\ kind \in [Node -> Kinds] /\ result \in [Proc -> Results]
         /\ open \in [Proc -> Nat] /\ fds \in [Proc -> Nat] /\ faults \in 0 .. MaxFaults
         /\ main \in [Proc -> MainPCs] /\ Stacks
BY DEF Known, TypeOK, Results, MainPCs

LEMMA KnownNext ==
  ASSUME kind' \in [Node -> Kinds], result' \in [Proc -> Results],
         open' \in [Proc -> Nat], fds' \in [Proc -> Nat], faults' \in 0 .. MaxFaults,
         main' \in [Proc -> MainPCs], Stacks'
  PROVE  Known'
BY DEF Known, TypeOK, Results, MainPCs

LEMMA WalkBase ==
  ASSUME BaseInv, NEW p \in Proc, Walk(p)
  PROVE  Based(p)
<1>1. WalkStep(p) /\ main' = main /\ main[p] = "walk" /\ Known /\ StackOK(p) /\ FdOK(p)
  BY DEF Walk, BaseInv
<1>2. Framed(p) /\ StackOK(p)' /\ open'[p] \in Nat
  BY <1>1, WalkEffect, WalkStack
<1>3. open' \in [Proc -> Nat]
  <2>1. \A q \in Proc : open'[q] \in Nat
    BY <1>1, <1>2, Types DEF Framed
  <2>2. open' = [q \in Proc |-> open'[q]]
    <3>1. \/ open' = open
          \/ open' = [open EXCEPT ![p] = @ + 1]
          \/ open' = [open EXCEPT ![p] = @ - 1]
      BY <1>1 DEF WalkStep, Access, Stat, Unlink, OpenDir, ReadDir, CloseDir, RmDir, Sys
    <3> QED
      BY <1>1, <3>1, Types
  <2> QED
    BY <2>1, <2>2
<1>4. Known'
  BY <1>1, <1>2, <1>3, Types, KnownNext DEF Framed
<1>5. FdOK(p)'
  BY <1>1, <1>2 DEF FdOK, Framed
<1>6. Kept(p)
  BY <1>1, <1>2 DEF Kept, Framed, Others
<1>7. result'[p] # "none"
  <2>1. result[p] = "running"
    BY <1>1, WalkEffect, RunningTop
  <2> QED
    BY <1>1, <2>1, WalkEffect
       DEF Checks, Sorts, Opens, Skips, Descends, Closes, Removes, Fails, Advances
<1> QED
  BY <1>2, <1>4, <1>5, <1>6, <1>7 DEF Based

LEMMA CleanBase ==
  ASSUME BaseInv, NEW p \in Proc, CleanRepDir(p)
  PROVE  Based(p)
<1> DEFINE f == Frame(rep_dir_path, 0)
<1>1. /\ main[p] = "clean" /\ main' = [main EXCEPT ![p] = "walk"]
      /\ stack' = [stack EXCEPT ![p] = <<f>>] /\ result' = [result EXCEPT ![p] = "running"]
      /\ UNCHANGED <<kind, open, fds, faults>>
  BY DEF CleanRepDir, RemoveDirRecursive, Goto
<1>2. Known /\ StackOK(p) /\ FdOK(p)
  BY DEF BaseInv
<1>3. f \in FrameSet /\ f.pc = "access"
  BY PathsAssumption DEF Frame, FrameSet, WalkPCs
<1>4. <<f>> \in Seq(FrameSet) /\ Len(<<f>>) = 1 /\ <<f>>[1] = f /\ <<f>> # <<>>
  <2> HIDE DEF f
  <2> QED
    BY <1>3
<1>5. /\ stack'[p] = <<f>> /\ Stacks' /\ result'[p] = "running" /\ main'[p] = "walk"
      /\ result' \in [Proc -> Results] /\ main' \in [Proc -> MainPCs]
  BY <1>1, <1>2, <1>4, Types DEF Stacks, Results, MainPCs
<1>6. open'[p] = 0 /\ fds'[p] = 0
  BY <1>1, <1>2 DEF StackOK, FdOK
<1>7. StackOK(p)'
  <2>1. /\ stack'[p] # <<>> /\ Len(stack'[p]) = 1 /\ stack'[p][Len(stack'[p])].pc = "access"
        /\ open'[p] = Len(stack'[p]) - 1
    BY <1>3, <1>4, <1>5, <1>6
  <2>2. \A m \in 1 .. (Len(stack'[p]) - 1) : stack'[p][m].pc = "readdir"
    BY <2>1
  <2> QED
    BY <1>5, <2>1, <2>2, StackOKNext
<1>8. FdOK(p)'
  BY <1>5, <1>6 DEF FdOK
<1>9. Known'
  BY <1>1, <1>2, <1>5, Types, KnownNext
<1>10. Kept(p)
  BY <1>1, <1>2, Types DEF Kept, Stacks
<1> QED
  BY <1>5, <1>7, <1>8, <1>9, <1>10 DEF Based

\* The removal is behind p.
LEMMA Behind ==
  ASSUME BaseInv, NEW p \in Proc,
         main[p] \notin {"clean", "walk", "exit"} \/ (main[p] = "walk" /\ result[p] # "running")
  PROVE  /\ stack[p] = <<>> /\ result[p] \in {"ok", "error", "crash"}
         /\ result[p] = "ok" => open[p] = 0
BY Types DEF BaseInv, StackOK, Results

Past(p) ==
    main[p] \notin {"clean", "walk", "exit"} \/ (main[p] = "walk" /\ result[p] # "running")

FaultStep == faults' = faults \/ (faults > 0 /\ faults' = faults - 1)

\* x descriptors at place l of main.
FdsAt(l, x) ==
    \/ l \in {"data", "running"} /\ x = 1
    \/ l \in {"truncate", "fallocate", "map"} /\ x = 2
    \/ l = "exit" /\ x \in {0, 1}
    \/ l \in NoFds /\ x = 0

FdStep(p, x) == fds' \in [Proc -> Nat] /\ fds'[p] = x /\ \A q \in Proc : q # p => fds'[q] = fds[q]

\* A step of main that is no part of the removal.
LEMMA OtherBase ==
  ASSUME BaseInv, NEW p \in Proc, NEW l \in MainPCs \ {"clean"}, NEW x, Past(p),
         UNCHANGED walk, main' = [main EXCEPT ![p] = l],
         kind' \in [Node -> Kinds], FaultStep, FdStep(p, x), FdsAt(l, x)
  PROVE  Based(p)
<1>1. /\ stack[p] = <<>> /\ result[p] \in {"ok", "error", "crash"}
      /\ result[p] = "ok" => open[p] = 0
  BY Behind DEF Past
<1>2. Known
  BY DEF BaseInv
<1>3. /\ main' \in [Proc -> MainPCs] /\ main'[p] = l /\ \A q \in Proc : q # p => main'[q] = main[q]
  BY <1>2, Types
<1>4. fds' \in [Proc -> Nat] /\ fds'[p] = x /\ \A q \in Proc : q # p => fds'[q] = fds[q]
  BY DEF FdStep
<1>5. stack' = stack /\ result' = result /\ open' = open
  BY DEF walk
<1>6. faults' \in 0 .. MaxFaults
  BY <1>2, FaultFacts DEF FaultStep
<1>7. Known'
  BY <1>2, <1>3, <1>4, <1>5, <1>6, Types, KnownNext DEF Stacks
<1>8. StackOK(p)'
  BY <1>1, <1>3, <1>5, StackOKDone
<1>9. FdOK(p)'
  BY <1>3, <1>4 DEF FdOK, FdsAt, NoFds
<1>10. Kept(p)
  BY <1>3, <1>4, <1>5 DEF Kept
<1> QED
  BY <1>1, <1>5, <1>7, <1>8, <1>9, <1>10 DEF Based

LEMMA SameFds ==
  ASSUME Known, NEW p \in Proc, fds' = fds
  PROVE  FdStep(p, fds[p])
BY Types DEF FdStep

LEMMA CleanedBase ==
  ASSUME BaseInv, NEW p \in Proc, Cleaned(p)
  PROVE  Based(p)
<1>1. PICK l \in {"exit", "rep?"} : main' = [main EXCEPT ![p] = l]
  BY DEF Cleaned, Goto
<1>2. /\ Past(p) /\ main[p] = "walk" /\ UNCHANGED <<kind, walk, fds, faults>>
  BY DEF Cleaned, fileVars, Past
<1>3. Known /\ fds[p] = 0
  BY <1>2 DEF BaseInv, FdOK
<1>4. /\ kind' \in [Node -> Kinds] /\ l \in MainPCs \ {"clean"} /\ FdsAt(l, 0) /\ FaultStep
  BY <1>2, <1>3, Types DEF MainPCs, FdsAt, NoFds, FaultStep
<1>5. FdStep(p, 0)
  BY <1>2, <1>3, SameFds
<1> QED
  BY <1>1, <1>2, <1>4, <1>5, OtherBase

LEMMA TestBase ==
  ASSUME BaseInv, NEW p \in Proc, NEW at \in NoFds, NEW n \in Node,
         NEW no \in NoFds, NEW yes \in NoFds, Test(p, at, n, no, yes)
  PROVE  Based(p)
<1>1. main[p] = at /\ UNCHANGED <<kind, walk, fds>>
  BY DEF Test
<1>2. FaultStep
  BY DEF Test, Sys, FaultStep
<1>3. PICK l \in NoFds : main' = [main EXCEPT ![p] = l]
  BY DEF Test, Sys, Goto
<1>4. Known /\ fds[p] = 0 /\ Past(p)
  BY <1>1 DEF BaseInv, FdOK, NoFds, Past
<1>5. /\ kind' \in [Node -> Kinds] /\ l \in MainPCs \ {"clean"} /\ FdsAt(l, 0)
  BY <1>1, <1>4, Types DEF MainPCs, NoFds, FdsAt
<1>6. FdStep(p, 0)
  BY <1>1, <1>4, SameFds
<1> QED
  BY <1>1, <1>2, <1>3, <1>4, <1>5, <1>6, OtherBase

LEMMA MakeBase ==
  ASSUME BaseInv, NEW p \in Proc, NEW at \in NoFds, NEW n \in Node, NEW next \in NoFds,
         Make(p, at, n, next)
  PROVE  Based(p)
<1>1. main[p] = at /\ UNCHANGED <<walk, fds>>
  BY DEF Make, CreateDir
<1>2. FaultStep
  BY DEF Make, CreateDir, Sys, FaultStep
<1>3. PICK l \in NoFds \cup {"exit"} : main' = [main EXCEPT ![p] = l]
  BY DEF Make, CreateDir, Sys, Goto, Exit
<1>4. Known /\ fds[p] = 0 /\ Past(p)
  BY <1>1 DEF BaseInv, FdOK, NoFds, Past
<1>5. kind' = kind \/ kind' = [kind EXCEPT ![n] = "dir"]
  BY DEF Make, CreateDir, Sys
<1>6. /\ kind' \in [Node -> Kinds] /\ l \in MainPCs \ {"clean"} /\ FdsAt(l, 0)
  BY <1>4, <1>5, Types DEF MainPCs, NoFds, Kinds, FdsAt
<1>7. FdStep(p, 0)
  BY <1>1, <1>4, SameFds
<1> QED
  BY <1>1, <1>2, <1>3, <1>4, <1>6, <1>7, OtherBase

LEMMA InitRepDirBase ==
  ASSUME BaseInv, NEW p \in Proc, InitRepDir(p)
  PROVE  Based(p)
<1>1. \E at \in NoFds, n \in Node, no \in NoFds, yes \in NoFds :
         Test(p, at, n, no, yes) \/ Make(p, at, n, yes)
  BY PathsAssumption DEF InitRepDir, NoFds
<1> QED
  BY <1>1, TestBase, MakeBase

\* The opens: the first leaves one descriptor, the second two.
LEMMA OpenBase ==
  ASSUME BaseInv, NEW p \in Proc, NEW f \in Node, NEW l \in {"data", "truncate"},
         main[p] = IF l = "data" THEN "ready" ELSE "data",
         Open(p, f, Goto(p, l), Exit(p))
  PROVE  Based(p)
<1> DEFINE x == IF l = "data" THEN 0 ELSE 1
<1>1. Known /\ Past(p) /\ fds[p] = x /\ fds \in [Proc -> Nat]
  BY Types DEF BaseInv, FdOK, Past
<1>2. UNCHANGED walk
  BY DEF Open
<1>3. FaultStep
  BY DEF Open, Sys, FaultStep
<1>4. kind' \in [Node -> Kinds]
  <2>1. kind' = kind \/ kind' = [kind EXCEPT ![f] = "reg"]
    BY DEF Open, Sys
  <2> QED
    BY <1>1, <2>1, Types DEF Kinds
<1>5. \/ main' = [main EXCEPT ![p] = l] /\ fds' = [fds EXCEPT ![p] = @ + 1]
      \/ main' = [main EXCEPT ![p] = "exit"] /\ fds' = fds
  BY DEF Open, Sys, Goto, Exit
<1>6. /\ l \in MainPCs \ {"clean"} /\ "exit" \in MainPCs \ {"clean"} /\ x + 1 \in Nat
      /\ FdsAt(l, x + 1) /\ FdsAt("exit", x)
  BY DEF MainPCs, FdsAt
<1>7. CASE main' = [main EXCEPT ![p] = l] /\ fds' = [fds EXCEPT ![p] = @ + 1]
  <2>1. FdStep(p, x + 1)
    BY <1>1, <1>6, <1>7 DEF FdStep
  <2> HIDE DEF x
  <2> QED
    BY <1>1, <1>2, <1>3, <1>4, <1>6, <1>7, <2>1, OtherBase
<1>8. CASE main' = [main EXCEPT ![p] = "exit"] /\ fds' = fds
  <2>1. FdStep(p, x)
    BY <1>1, <1>8, SameFds
  <2> HIDE DEF x
  <2> QED
    BY <1>1, <1>2, <1>3, <1>4, <1>6, <1>8, <2>1, OtherBase
<1> QED
  BY <1>5, <1>7, <1>8

LEMMA AllocBase ==
  ASSUME BaseInv, NEW p \in Proc, NEW l \in {"fallocate", "map"},
         main[p] \in {"truncate", "fallocate"}, Alloc(p, Goto(p, l), Exit(p))
  PROVE  Based(p)
<1>1. Known /\ Past(p) /\ fds[p] = 2 /\ fds \in [Proc -> Nat] /\ kind \in [Node -> Kinds]
  BY Types DEF BaseInv, FdOK, Past
<1>2. UNCHANGED <<kind, walk>>
  BY DEF Alloc
<1>3. FaultStep
  BY DEF Alloc, Sys, FaultStep
<1>4. \/ main' = [main EXCEPT ![p] = l] /\ fds' = fds
      \/ main' = [main EXCEPT ![p] = "exit"] /\ fds' = [fds EXCEPT ![p] = @ - 1]
  BY DEF Alloc, Sys, Goto, Exit
<1>5. /\ l \in MainPCs \ {"clean"} /\ "exit" \in MainPCs \ {"clean"}
      /\ FdsAt(l, 2) /\ FdsAt("exit", 1)
  BY DEF MainPCs, FdsAt
<1>6. CASE main' = [main EXCEPT ![p] = l] /\ fds' = fds
  <2>1. FdStep(p, 2)
    BY <1>1, <1>6, SameFds
  <2> QED
    BY <1>1, <1>2, <1>3, <1>5, <1>6, <2>1, OtherBase
<1>7. CASE main' = [main EXCEPT ![p] = "exit"] /\ fds' = [fds EXCEPT ![p] = @ - 1]
  <2>1. FdStep(p, 1)
    BY <1>1, <1>7 DEF FdStep
  <2> QED
    BY <1>1, <1>2, <1>3, <1>5, <1>7, <2>1, OtherBase
<1> QED
  BY <1>4, <1>6, <1>7

LEMMA CloseBase ==
  ASSUME BaseInv, NEW p \in Proc, CloseData(p)
  PROVE  Based(p)
<1>1. main[p] = "map" /\ main' = [main EXCEPT ![p] = "running"]
  BY DEF CloseData, Goto
<1>2. fds' = [fds EXCEPT ![p] = @ - 1] /\ UNCHANGED <<kind, walk, faults>>
  BY DEF CloseData, Close
<1>3. Known /\ Past(p) /\ fds[p] = 2 /\ fds \in [Proc -> Nat] /\ kind \in [Node -> Kinds]
  BY <1>1, Types DEF BaseInv, FdOK, Past
<1>4. FdStep(p, 1)
  BY <1>2, <1>3 DEF FdStep
<1>5. "running" \in MainPCs \ {"clean"} /\ FdsAt("running", 1) /\ FaultStep
  BY <1>2 DEF MainPCs, FdsAt, FaultStep
<1> QED
  BY <1>1, <1>2, <1>3, <1>4, <1>5, OtherBase

LEMMA ProcBase ==
  ASSUME BaseInv, NEW p \in Proc, ProcStep(p)
  PROVE  Based(p)
<1>1. report_path[p] \in Node /\ data_path[p] \in Node
  BY PathsAssumption
<1>2. CASE OpenReport(p) \/ OpenData(p)
  BY <1>1, <1>2, OpenBase DEF OpenReport, OpenData
<1>3. CASE Truncate(p) \/ Fallocate(p)
  BY <1>3, AllocBase DEF Truncate, Fallocate
<1> QED
  BY <1>2, <1>3, WalkBase, CleanBase, CleanedBase, InitRepDirBase, CloseBase DEF ProcStep

-----------------------------------------------------------------------------
(***************************************************************************)
(* The undisturbed removal.                                                *)
(***************************************************************************)
LEMMA RemoveWellFormed ==
  ASSUME WellFormed, kind \in [Node -> Kinds], NEW n \in Node, Children(n) = {},
         kind' = [kind EXCEPT ![n] = "none"]
  PROVE  WellFormed'
BY TreeAssumption DEF WellFormed, Children

LEMMA NoChildren ==
  ASSUME WellFormed, NEW n \in Node, kind[n] # "dir"
  PROVE  Children(n) = {}
BY DEF WellFormed, Children

LEMMA RemoveStuck ==
  ASSUME Stuck, kind \in [Node -> Kinds], NEW n \in Node,
         kind[n] \notin {"other", "link"} \/ (kind[n] = "link" /\ kind[LinkTo[n]] = "reg"),
         kind' = [kind EXCEPT ![n] = "none"]
  PROVE  Stuck'
<1>1. PICK m \in Node : kind[m] = "other" \/ (kind[m] = "link" /\ kind[LinkTo[m]] # "reg")
  BY DEF Stuck
<1>2. m # n /\ kind'[m] = kind[m]
  BY <1>1
<1>3. LinkTo[m] \in Node /\ (kind'[LinkTo[m]] = kind[LinkTo[m]] \/ kind'[LinkTo[m]] = "none")
  BY TreeAssumption
<1> QED
  BY <1>1, <1>2, <1>3 DEF Stuck

\* In a tree no call works on the path of another one.
LEMMA ChainDistinct ==
  ASSUME Known, NEW p \in Proc, Chain(p), NEW m \in Nat, NEW j \in Nat,
         1 <= m, m < j, j <= Len(stack[p])
  PROVE  Path(p, m) # Path(p, j)
<1> SUFFICES ASSUME Path(p, m) = Path(p, j) PROVE FALSE
  OBVIOUS
<1> DEFINE L == Len(stack[p])
           S == {Path(p, x) : x \in m .. (j - 1)}
<1>1. stack[p] \in Seq(FrameSet) /\ L \in Nat
  BY Types DEF Stacks
<1>2. \A x \in 1 .. L : Path(p, x) \in Node
  <2>1. \A x \in 1 .. L : stack[p][x] \in FrameSet
    BY <1>1, ElementOfSeq
  <2> QED
    BY <2>1 DEF Path, FrameSet
<1>3. \A x \in 1 .. (L - 1) : Path(p, x + 1) # Top /\ Parent[Path(p, x + 1)] = Path(p, x)
  BY DEF Chain
<1>4. \A x \in m .. (j - 1) : Path(p, x) # Top /\ Parent[Path(p, x)] \in S /\ Path(p, x) \in Node
  <2> SUFFICES ASSUME NEW x \in m .. (j - 1)
               PROVE  Path(p, x) # Top /\ Parent[Path(p, x)] \in S /\ Path(p, x) \in Node
    OBVIOUS
  <2>1. CASE x = m
    <3>1. j - 1 \in 1 .. (L - 1) /\ (j - 1) + 1 = j /\ j - 1 \in m .. (j - 1) /\ m \in 1 .. L
      BY <1>1
    <3>2. Path(p, j) # Top /\ Parent[Path(p, j)] = Path(p, j - 1)
      BY <1>3, <3>1
    <3> QED
      BY <1>2, <2>1, <3>1, <3>2
  <2>2. CASE x # m
    <3>1. x - 1 \in 1 .. (L - 1) /\ (x - 1) + 1 = x /\ x - 1 \in m .. (j - 1) /\ x \in 1 .. L
      BY <1>1, <2>2
    <3>2. Path(p, x) # Top /\ Parent[Path(p, x)] = Path(p, x - 1)
      BY <1>3, <3>1
    <3> QED
      BY <1>2, <3>1, <3>2
  <2> QED
    BY <2>1, <2>2
<1>5. S \in SUBSET (Node \ {Top}) /\ \A n \in S : Parent[n] \in S
  BY <1>4
<1>6. m \in m .. (j - 1)
  OBVIOUS
<1>7. Path(p, m) \in S
  BY <1>6
<1> QED
  BY <1>5, <1>7, TreeAssumption

\* A step that replaces the innermost frame by one for the same path.
LEMMA GoodAdvance ==
  ASSUME Known, NEW p \in Proc, stack[p] # <<>>, Chain(p), Remaining(p), kind' = kind,
         NEW f \in FrameSet, Replaced(p, f), f.n = This(p).n, f.links = This(p).links,
         f.pc = "readdir" => /\ kind[f.n] = "dir"
                             /\ {c \in Node : [name |-> "child", n |-> c] \in f.todo}
                                   = Children(f.n),
         f.pc = "stat" => kind[f.n] # "none" /\ kind[Res(f.n)] # "none",
         f.pc \in {"opendir", "rmdir"} => kind[f.n] = "dir",
         f.pc = "rmdir" => Children(f.n) = {}
  PROVE  Chain(p)' /\ Remaining(p)' /\ Innermost(p)'
<1> DEFINE L == Len(stack[p])
<1>1. L \in Nat /\ L >= 1 /\ This(p) = stack[p][L]
  BY TopFrame DEF Known
<1>2. /\ Len(stack'[p]) = L /\ stack'[p][L] = f
      /\ \A m \in 1 .. (L - 1) : stack'[p][m] = stack[p][m]
  BY DEF Replaced
<1>3. /\ \A m \in 1 .. L : Path(p, m)' = Path(p, m) /\ stack'[p][m].links = stack[p][m].links
      /\ \A m \in 1 .. (L - 1) : Todo(p, m)' = Todo(p, m) /\ Place(p, m)' = Place(p, m)
      /\ Place(p, L)' = f.pc /\ Path(p, L)' = f.n
  BY <1>1, <1>2 DEF Path, Todo, Place
<1>4. \A n : Children(n)' = Children(n) /\ Res(n)' = Res(n)
  BY DEF Children, Res
<1>5. Chain(p)'
  <2>1. /\ Path(p, 1)' = rep_dir_path
        /\ \A m \in 1 .. L : stack'[p][m].links = 0
        /\ \A m \in 1 .. (L - 1) : /\ Path(p, m + 1)' # Top
                                   /\ Parent[Path(p, m + 1)'] = Path(p, m)'
    <3>1. \A m \in 1 .. (L - 1) : m \in 1 .. L /\ m + 1 \in 1 .. L
      BY <1>1, UpTo
    <3>2. 1 \in 1 .. L
      BY <1>1, UpTo
    <3> HIDE DEF L
    <3>3. /\ Path(p, 1) = rep_dir_path
          /\ \A m \in 1 .. L : stack[p][m].links = 0
          /\ \A m \in 1 .. (L - 1) : /\ Path(p, m + 1) # Top
                                     /\ Parent[Path(p, m + 1)] = Path(p, m)
      BY DEF Chain, L
    <3> QED
      BY <1>3, <3>1, <3>2, <3>3
  <2> QED
    BY <1>2, <2>1 DEF Chain
<1>6. Innermost(p)'
  BY <1>2, <1>3, <1>4 DEF Innermost
<1>7. Remaining(p)'
  <2> SUFFICES ASSUME NEW m \in 1 .. L, Place(p, m)' = "readdir"
               PROVE  /\ kind'[Path(p, m)'] = "dir"
                      /\ Todo(p, m)' \subseteq Children(Path(p, m))'
                      /\ Children(Path(p, m))' \subseteq
                            Todo(p, m)' \cup (IF m < L THEN {Path(p, m + 1)'} ELSE {})
                      /\ m < L => /\ Path(p, m + 1)' \notin Todo(p, m)'
                                  /\ kind'[Path(p, m + 1)'] # "none"
    BY <1>2 DEF Remaining
  <2>0. CASE m = L
    <3>1. /\ Path(p, m)' = f.n /\ f.pc = "readdir" /\ ~(m < L)
          /\ Todo(p, m)' = {c \in Node : [name |-> "child", n |-> c] \in f.todo}
      BY <1>1, <1>2, <2>0 DEF Path, Place, Todo
    <3>2. Children(Path(p, m))' = Children(f.n)
      BY <3>1 DEF Children
    <3> QED
      BY <3>1, <3>2
  <2>1. CASE m # L
    <3>1. m \in 1 .. (L - 1) /\ m + 1 \in 1 .. L /\ m < L
      <4> HIDE DEF L
      <4> QED
        BY <1>1, <2>1, UpTo
    <3>2. /\ Path(p, m)' = Path(p, m) /\ Path(p, m + 1)' = Path(p, m + 1)
          /\ Todo(p, m)' = Todo(p, m) /\ Place(p, m) = "readdir"
      BY <1>3, <3>1
    <3>3. Children(Path(p, m))' = Children(Path(p, m))
      BY <3>2 DEF Children
    <3>4. /\ kind[Path(p, m)] = "dir"
          /\ Todo(p, m) \subseteq Children(Path(p, m))
          /\ Children(Path(p, m)) \subseteq Todo(p, m) \cup {Path(p, m + 1)}
          /\ Path(p, m + 1) \notin Todo(p, m) /\ kind[Path(p, m + 1)] # "none"
      BY <3>1, <3>2 DEF Remaining
    <3> QED
      BY <3>1, <3>2, <3>3, <3>4
  <2> QED
    BY <2>0, <2>1
<1> QED
  BY <1>5, <1>6, <1>7

Good(p) == Chain(p) /\ Remaining(p) /\ Innermost(p)

\* What is known of the frame at work.
LEMMA GoodTop ==
  ASSUME Known, NEW p \in Proc, stack[p] # <<>>, Good(p)
  PROVE  /\ This(p).n \in Node /\ This(p).links = 0 /\ This(p).pc \in WalkPCs
         /\ This(p).pc = "stat" => kind[This(p).n] # "none" /\ kind[Res(This(p).n)] # "none"
         /\ This(p).pc \in {"opendir", "rmdir"} => kind[This(p).n] = "dir"
         /\ This(p).pc = "rmdir" => Children(This(p).n) = {}
         /\ This(p).pc = "readdir" =>
               /\ kind[This(p).n] = "dir"
               /\ {c \in Node : [name |-> "child", n |-> c] \in This(p).todo} = Children(This(p).n)
         /\ Len(stack[p]) = 1 => This(p).n = rep_dir_path
         /\ \A m \in 1 .. (Len(stack[p]) - 1) :
               (Place(p, m) = "readdir" /\ m = Len(stack[p]) - 1) => kind[This(p).n] # "none"
<1> DEFINE L == Len(stack[p])
<1>1. L \in Nat /\ L >= 1 /\ This(p) = stack[p][L] /\ This(p) \in FrameSet
  BY TopFrame DEF Known
<1>2. /\ Path(p, L) = This(p).n /\ Place(p, L) = This(p).pc
      /\ Todo(p, L) = {c \in Node : [name |-> "child", n |-> c] \in This(p).todo}
  BY <1>1 DEF Path, Place, Todo
<1>3. L \in 1 .. L /\ ~(L < L)
  <2> HIDE DEF L
  <2> QED
    BY <1>1, UpTo
<1>4. This(p).n \in Node /\ This(p).pc \in WalkPCs
  BY <1>1 DEF FrameSet
<1>5. This(p).links = 0 /\ (L = 1 => This(p).n = rep_dir_path)
  BY <1>1, <1>2, <1>3 DEF Good, Chain
<1>6. This(p).pc = "readdir" =>
               /\ kind[This(p).n] = "dir"
               /\ {c \in Node : [name |-> "child", n |-> c] \in This(p).todo} = Children(This(p).n)
  BY <1>2, <1>3 DEF Good, Remaining
<1>7. \A m \in 1 .. (L - 1) : Place(p, m) = "readdir" => (m = L - 1 => kind[This(p).n] # "none")
  <2> SUFFICES ASSUME NEW m \in 1 .. (L - 1), Place(p, m) = "readdir", m = L - 1
               PROVE  kind[This(p).n] # "none"
    OBVIOUS
  <2>1. m \in 1 .. L /\ m < L /\ m + 1 = L
    <3> HIDE DEF L
    <3> QED
      BY <1>1, UpTo
  <2>2. kind[Path(p, m + 1)] # "none"
    BY <2>1 DEF Good, Remaining
  <2> QED
    BY <1>2, <2>1, <2>2
<1>8. /\ This(p).pc = "stat" => kind[This(p).n] # "none" /\ kind[Res(This(p).n)] # "none"
      /\ This(p).pc \in {"opendir", "rmdir"} => kind[This(p).n] = "dir"
      /\ This(p).pc = "rmdir" => Children(This(p).n) = {}
  BY <1>2 DEF Good, Innermost
<1> QED
  BY <1>4, <1>5, <1>6, <1>7, <1>8

LEMMA GoodReplace ==
  ASSUME Known, NEW p \in Proc, stack[p] # <<>>, Good(p), ~Stuck,
         Checks(p) \/ Sorts(p) \/ Opens(p) \/ Skips(p) \/ Closes(p)
  PROVE  Good(p)'
<1> DEFINE n == This(p).n
<1>1. This(p) \in FrameSet /\ This(p).todo \subseteq Entry /\ n \in Node
  BY FrameTypes
<1>2. ASSUME kind[Res(n)] \in {"dir", "reg"}
      PROVE  kind[n] # "none" /\ (kind[Res(n)] = "dir" => kind[n] = "dir" /\ Res(n) = n)
  BY <1>1, <1>2 DEF Res, Stuck
<1>3. CASE Checks(p)
  <2> DEFINE f == [This(p) EXCEPT !.pc = "stat"]
  <2>1. Replaced(p, f) /\ kind' = kind /\ kind[Res(n)] # "none"
    BY <1>3 DEF Checks, Advances, FileExists
  <2>2. kind[n] # "none"
    BY <2>1 DEF Res
  <2>3. f \in FrameSet /\ f.n = n /\ f.links = This(p).links /\ f.pc = "stat"
    BY <1>1 DEF FrameSet, WalkPCs
  <2> HIDE DEF f
  <2> QED
    BY <2>1, <2>2, <2>3, GoodAdvance DEF Good
<1>4. CASE Sorts(p)
  <2>1. CASE Advances(p, "stat", "unlink") /\ kind[Res(n)] = "reg"
    <3> DEFINE f == [This(p) EXCEPT !.pc = "unlink"]
    <3>1. Replaced(p, f) /\ kind' = kind
      BY <2>1 DEF Advances
    <3>2. f \in FrameSet /\ f.n = n /\ f.links = This(p).links /\ f.pc = "unlink"
      BY <1>1 DEF FrameSet, WalkPCs
    <3> HIDE DEF f
    <3> QED
      BY <3>1, <3>2, GoodAdvance DEF Good
  <2>2. CASE Advances(p, "stat", "opendir") /\ kind[Res(n)] = "dir"
    <3> DEFINE f == [This(p) EXCEPT !.pc = "opendir"]
    <3>1. Replaced(p, f) /\ kind' = kind /\ kind[n] = "dir"
      BY <1>2, <2>2 DEF Advances
    <3>2. f \in FrameSet /\ f.n = n /\ f.links = This(p).links /\ f.pc = "opendir"
      BY <1>1 DEF FrameSet, WalkPCs
    <3> HIDE DEF f
    <3> QED
      BY <3>1, <3>2, GoodAdvance DEF Good
  <2> QED
    BY <1>4, <2>1, <2>2 DEF Sorts
<1>5. CASE Opens(p)
  <2> DEFINE f == [This(p) EXCEPT !.pc = "readdir", !.todo = Entries(Res(n))]
  <2>1. Replaced(p, f) /\ kind' = kind /\ kind[n] = "dir" /\ Res(n) = n
    BY <1>2, <1>5 DEF Opens
  <2>2. /\ f \in FrameSet /\ f.n = n /\ f.links = This(p).links /\ f.pc = "readdir"
        /\ f.todo = Entries(n)
    <3>1. Entries(Res(n)) \in SUBSET Entry
      BY <1>1, <2>1, FrameTypes
    <3> QED
      BY <1>1, <2>1, <3>1 DEF FrameSet, WalkPCs
  <2>3. {c \in Node : [name |-> "child", n |-> c] \in Entries(n)} = Children(n)
    <3>1. \A c \in Node : [name |-> "child", n |-> c] \in Entries(n) => c \in Children(n)
      BY DEF Entries
    <3>2. \A c \in Children(n) : [name |-> "child", n |-> c] \in Entries(n) /\ c \in Node
      BY DEF Entries, Children
    <3> QED
      BY <3>1, <3>2
  <2> HIDE DEF f
  <2> QED
    BY <2>1, <2>2, <2>3, GoodAdvance DEF Good
<1>6. CASE Skips(p)
  <2>1. PICK e \in This(p).todo : /\ e.name # "child"
                                  /\ Replaced(p, [This(p) EXCEPT !.todo = This(p).todo \ {e}])
    BY <1>6 DEF Skips
  <2> DEFINE f == [This(p) EXCEPT !.todo = This(p).todo \ {e}]
  <2>2. Replaced(p, f) /\ kind' = kind /\ This(p).pc = "readdir"
    BY <1>6, <2>1 DEF Skips
  <2>3. /\ f \in FrameSet /\ f.n = n /\ f.links = This(p).links /\ f.pc = "readdir"
        /\ f.todo = This(p).todo \ {e}
    BY <1>1, <2>2 DEF FrameSet
  <2>4. {c \in Node : [name |-> "child", n |-> c] \in f.todo}
           = {c \in Node : [name |-> "child", n |-> c] \in This(p).todo}
    <3>1. \A c \in Node : [name |-> "child", n |-> c] # e
      BY <2>1
    <3> QED
      BY <2>3, <3>1
  <2>5. kind[n] = "dir" /\ {c \in Node : [name |-> "child", n |-> c] \in f.todo} = Children(n)
    BY <2>2, <2>4, GoodTop
  <2> HIDE DEF f
  <2> QED
    BY <2>2, <2>3, <2>5, GoodAdvance DEF Good
<1>7. CASE Closes(p)
  <2> DEFINE f == [This(p) EXCEPT !.pc = "rmdir"]
  <2>1. Replaced(p, f) /\ kind' = kind /\ This(p).pc = "readdir" /\ This(p).todo = {}
    BY <1>7 DEF Closes, Advances
  <2>2. kind[n] = "dir" /\ Children(n) = {}
    BY <2>1, GoodTop
  <2>3. f \in FrameSet /\ f.n = n /\ f.links = This(p).links /\ f.pc = "rmdir"
    BY <1>1 DEF FrameSet, WalkPCs
  <2> HIDE DEF f
  <2> QED
    BY <2>1, <2>2, <2>3, GoodAdvance DEF Good
<1> QED
  BY <1>3, <1>4, <1>5, <1>6, <1>7

LEMMA GoodDescend ==
  ASSUME Known, NEW p \in Proc, stack[p] # <<>>, Good(p), Descends(p)
  PROVE  Good(p)'
<1> DEFINE L == Len(stack[p])
           n == This(p).n
<1>1. /\ L \in Nat /\ L >= 1 /\ This(p) = stack[p][L] /\ This(p) \in FrameSet
      /\ This(p).todo \subseteq Entry
  BY TopFrame, FrameTypes DEF Known
<1>2. PICK e \in This(p).todo : /\ e.name = "child"
                                /\ Pushed(p, [This(p) EXCEPT !.todo = This(p).todo \ {e}],
                                          Frame(e.n, LinksOf(This(p))))
  BY DEF Descends
<1> DEFINE f == [This(p) EXCEPT !.todo = This(p).todo \ {e}]
           g == Frame(e.n, LinksOf(This(p)))
           T == {c \in Node : [name |-> "child", n |-> c] \in This(p).todo}
           U == {c \in Node : [name |-> "child", n |-> c] \in f.todo}
<1>3. /\ This(p).pc = "readdir" /\ kind' = kind /\ kind[n] = "dir" /\ T = Children(n)
      /\ This(p).links = 0
  BY GoodTop DEF Descends
<1>4. /\ f.n = n /\ f.links = 0 /\ f.pc = "readdir" /\ f.todo = This(p).todo \ {e}
      /\ g.n = e.n /\ g.links = 0 /\ g.pc = "access"
  BY <1>1, <1>3 DEF FrameSet, Frame, LinksOf
<1>5. e.n \in Node /\ e = [name |-> "child", n |-> e.n]
  BY <1>1, <1>2 DEF Entry
<1>6. e.n \in T /\ U = T \ {e.n}
  <2>1. \A c \in Node : [name |-> "child", n |-> c] = e <=> c = e.n
    BY <1>5
  <2> QED
    BY <1>4, <1>5, <2>1
<1>7. e.n # Top /\ Parent[e.n] = n /\ kind[e.n] # "none"
  BY <1>3, <1>6 DEF Children
<1>8. /\ Len(stack'[p]) = L + 1 /\ stack'[p][L] = f /\ stack'[p][L + 1] = g
      /\ \A m \in 1 .. (L - 1) : stack'[p][m] = stack[p][m]
  BY <1>2 DEF Pushed
<1> HIDE DEF f, g, L
<1>9. \A m \in 1 .. (L + 1) : m \in 1 .. (L - 1) \/ m = L \/ m = L + 1
  BY <1>1
<1>10. /\ \A m \in 1 .. (L - 1) : m \in 1 .. L /\ m + 1 \in 1 .. L /\ m # L /\ m < L
       /\ 1 \in 1 .. L /\ \A m \in 1 .. L : m \in 1 .. (L - 1) \/ m = L
  BY <1>1, UpTo
<1>11. /\ Path(p, 1) = rep_dir_path
       /\ \A m \in 1 .. L : stack[p][m].links = 0
       /\ \A m \in 1 .. (L - 1) : /\ Path(p, m + 1) # Top
                                  /\ Parent[Path(p, m + 1)] = Path(p, m)
  BY DEF Good, Chain, L
<1>12. \A m \in 1 .. L : Path(p, m)' = Path(p, m) /\ stack'[p][m].links = stack[p][m].links
  BY <1>1, <1>3, <1>4, <1>8, <1>10 DEF Path
<1>13. Chain(p)'
  <2>1. /\ Path(p, 1)' = rep_dir_path
        /\ \A m \in 1 .. (L + 1) : stack'[p][m].links = 0
    BY <1>4, <1>8, <1>9, <1>10, <1>11, <1>12
  <2>2. ASSUME NEW m \in 1 .. L
        PROVE  Path(p, m + 1)' # Top /\ Parent[Path(p, m + 1)'] = Path(p, m)'
    <3>1. CASE m = L
      <4>1. Path(p, m + 1)' = e.n /\ Path(p, m)' = n
        BY <1>4, <1>8, <3>1 DEF Path
      <4> QED
        BY <1>7, <4>1
    <3>2. CASE m # L
      BY <1>10, <1>11, <1>12, <3>2
    <3> QED
      BY <3>1, <3>2
  <2>3. Len(stack'[p]) - 1 = L
    BY <1>1, <1>8
  <2> QED
    BY <1>8, <2>1, <2>2, <2>3 DEF Chain
<1>14. Innermost(p)'
  BY <1>4, <1>8 DEF Innermost, Path, Place
<1>15. Remaining(p)'
  <2> SUFFICES ASSUME NEW m \in 1 .. (L + 1), Place(p, m)' = "readdir"
               PROVE  /\ kind'[Path(p, m)'] = "dir"
                      /\ Todo(p, m)' \subseteq Children(Path(p, m))'
                      /\ Children(Path(p, m))' \subseteq
                            Todo(p, m)' \cup (IF m < L + 1 THEN {Path(p, m + 1)'} ELSE {})
                      /\ m < L + 1 => /\ Path(p, m + 1)' \notin Todo(p, m)'
                                      /\ kind'[Path(p, m + 1)'] # "none"
    BY <1>8 DEF Remaining
  <2>1. m # L + 1
    BY <1>4, <1>8 DEF Place
  <2>2. CASE m = L
    <3>1. /\ Path(p, m)' = n /\ Path(p, m + 1)' = e.n /\ Todo(p, m)' = U
      BY <1>4, <1>8, <2>2 DEF Path, Todo
    <3>2. Children(Path(p, m))' = T
      BY <1>3, <3>1 DEF Children
    <3> HIDE DEF T, U
    <3> QED
      BY <1>1, <1>3, <1>6, <1>7, <2>2, <3>1, <3>2
  <2>3. CASE m \in 1 .. (L - 1)
    <3>1. m \in 1 .. L /\ m + 1 \in 1 .. L /\ m < L /\ m < L + 1
      BY <1>1, <1>10, <2>3
    <3>2. /\ Path(p, m)' = Path(p, m) /\ Path(p, m + 1)' = Path(p, m + 1)
          /\ Todo(p, m)' = Todo(p, m) /\ Place(p, m) = "readdir"
      BY <1>8, <1>12, <2>3, <3>1 DEF Todo, Place
    <3>3. Children(Path(p, m))' = Children(Path(p, m))
      BY <1>3, <3>2 DEF Children
    <3>4. /\ kind[Path(p, m)] = "dir"
          /\ Todo(p, m) \subseteq Children(Path(p, m))
          /\ Children(Path(p, m)) \subseteq Todo(p, m) \cup {Path(p, m + 1)}
          /\ Path(p, m + 1) \notin Todo(p, m) /\ kind[Path(p, m + 1)] # "none"
      BY <3>1, <3>2 DEF Good, Remaining, L
    <3> QED
      BY <1>3, <3>1, <3>2, <3>3, <3>4
  <2> QED
    BY <1>9, <2>1, <2>2, <2>3
<1> QED
  BY <1>13, <1>14, <1>15 DEF Good

\* The innermost call removes its path and returns to the loop of its caller.
LEMMA GoodReturn ==
  ASSUME Known, NEW p \in Proc, stack[p] # <<>>, StackOK(p), Good(p), Popped(p),
         Len(stack[p]) # 1, Children(This(p).n) = {},
         kind' = [kind EXCEPT ![This(p).n] = "none"]
  PROVE  Good(p)'
<1> DEFINE L == Len(stack[p])
           n == This(p).n
<1>1. /\ L \in Nat /\ L >= 1 /\ This(p) = stack[p][L] /\ n \in Node
      /\ \A m \in 1 .. (L - 1) : Place(p, m) = "readdir"
  BY RunningTop, FrameTypes DEF Place
<1>2. /\ Len(stack'[p]) = L - 1
      /\ \A m \in 1 .. (L - 1) : stack'[p][m] = stack[p][m]
  BY DEF Popped
<1>3. /\ Path(p, 1) = rep_dir_path /\ Path(p, L) = n
      /\ \A m \in 1 .. L : stack[p][m].links = 0
      /\ \A m \in 1 .. (L - 1) : /\ Path(p, m + 1) # Top
                                 /\ Parent[Path(p, m + 1)] = Path(p, m)
  BY <1>1 DEF Good, Chain, Path
<1>4. \A m \in 1 .. (L - 1) :
         /\ kind[Path(p, m)] = "dir"
         /\ Todo(p, m) \subseteq Children(Path(p, m))
         /\ Children(Path(p, m)) \subseteq Todo(p, m) \cup {Path(p, m + 1)}
         /\ Path(p, m + 1) \notin Todo(p, m) /\ kind[Path(p, m + 1)] # "none"
  <2>1. \A m \in 1 .. (L - 1) : m \in 1 .. L /\ m < L
    <3> HIDE DEF L
    <3> QED
      BY <1>1, UpTo
  <2> QED
    BY <1>1, <2>1 DEF Good, Remaining
<1>5. \A m \in 1 .. L : Path(p, m) \in Node
  <2>1. \A m \in 1 .. L : stack[p][m] \in FrameSet
    BY Types, ElementOfSeq DEF Stacks
  <2> QED
    BY <2>1 DEF Path, FrameSet
<1>6. \A m \in 1 .. (L - 1) : m < L - 1 => Path(p, m) # Path(p, L - 1)
  <2> SUFFICES ASSUME NEW m \in 1 .. (L - 1), m < L - 1 PROVE Path(p, m) # Path(p, L - 1)
    OBVIOUS
  <2>1. m \in Nat /\ L - 1 \in Nat /\ 1 <= m /\ L - 1 <= L
    <3> HIDE DEF L
    <3> QED
      BY <1>1
  <2> QED
    BY <2>1, ChainDistinct DEF Good
<1> HIDE DEF L
<1>7. /\ L - 1 \in 1 .. (L - 1) /\ (L - 1) + 1 = L
      /\ \A m \in 1 .. (L - 1) : m \in 1 .. L /\ m + 1 \in 1 .. L /\ (m < L - 1 \/ m = L - 1)
      /\ \A m \in 1 .. (L - 2) : m \in 1 .. (L - 1) /\ m + 1 \in 1 .. (L - 1)
      /\ 1 \in 1 .. (L - 1) /\ L - 1 - 1 = L - 2
  <2>1. L # 1
    BY DEF L
  <2> QED
    BY <1>1, <2>1
<1>8. \A m \in 1 .. (L - 1) : Path(p, m) # n
  <2>1. \A m \in 1 .. (L - 1) : Path(p, m + 1) \in Children(Path(p, m))
    BY <1>3, <1>4, <1>5, <1>7 DEF Children
  <2> QED
    BY <2>1
<1>9. /\ \A m \in 1 .. (L - 1) : /\ Path(p, m)' = Path(p, m) /\ Todo(p, m)' = Todo(p, m)
                                 /\ Place(p, m)' = "readdir" /\ stack'[p][m].links = 0
  BY <1>1, <1>2, <1>3, <1>7 DEF Path, Todo, Place
<1>10. /\ \A m \in Node : m # n => kind'[m] = kind[m]
       /\ kind'[n] = "none"
  BY <1>1, Types
<1>11. Chain(p)'
  <2>1. \A m \in 1 .. (L - 2) : Path(p, m + 1)' # Top /\ Parent[Path(p, m + 1)'] = Path(p, m)'
    BY <1>3, <1>7, <1>9
  <2>2. Path(p, 1)' = rep_dir_path
    BY <1>3, <1>7, <1>9
  <2> QED
    BY <1>2, <1>7, <1>9, <2>1, <2>2 DEF Chain
<1>12. Innermost(p)'
  BY <1>2, <1>7, <1>9 DEF Innermost, Place
<1>13. Remaining(p)'
  <2> SUFFICES ASSUME NEW m \in 1 .. (L - 1)
               PROVE  /\ kind'[Path(p, m)'] = "dir"
                      /\ Todo(p, m)' \subseteq Children(Path(p, m))'
                      /\ Children(Path(p, m))' \subseteq
                            Todo(p, m)' \cup (IF m < L - 1 THEN {Path(p, m + 1)'} ELSE {})
                      /\ m < L - 1 => /\ Path(p, m + 1)' \notin Todo(p, m)'
                                      /\ kind'[Path(p, m + 1)'] # "none"
    BY <1>2 DEF Remaining
  <2>1. kind'[Path(p, m)'] = "dir"
    BY <1>4, <1>5, <1>7, <1>8, <1>9, <1>10
  <2>2. Children(Path(p, m))' = Children(Path(p, m)) \ {n}
    BY <1>9, <1>10 DEF Children
  <2>3. CASE m = L - 1
    <3>1. n \notin Todo(p, m) /\ Children(Path(p, m)) \subseteq Todo(p, m) \cup {n}
      BY <1>3, <1>4, <1>7, <2>3
    <3>2. Todo(p, m) \subseteq Children(Path(p, m)) /\ ~(m < L - 1)
      BY <1>1, <1>4, <2>3
    <3> QED
      BY <1>9, <2>1, <2>2, <3>1, <3>2
  <2>4. CASE m < L - 1
    <3>1. n \notin Todo(p, m)
      <4>1. Parent[n] = Path(p, L - 1)
        BY <1>3, <1>7
      <4>2. Parent[n] # Path(p, m)
        BY <1>6, <2>4, <4>1
      <4>3. n \notin Children(Path(p, m))
        BY <4>2 DEF Children
      <4> QED
        BY <1>4, <4>3
    <3>2. m + 1 \in 1 .. (L - 1)
      BY <1>1, <2>4
    <3>3. Path(p, m + 1)' = Path(p, m + 1) /\ Path(p, m + 1) # n /\ Path(p, m + 1) \in Node
      BY <1>5, <1>7, <1>8, <1>9, <3>2
    <3>4. kind'[Path(p, m + 1)'] # "none"
      BY <1>4, <1>10, <3>3
    <3> QED
      BY <1>4, <1>9, <2>1, <2>2, <2>4, <3>1, <3>3, <3>4
  <2> QED
    BY <1>7, <2>3, <2>4
<1> QED
  BY <1>11, <1>12, <1>13 DEF Good

LEMMA KindWellFormed ==
  ASSUME Known, NEW p \in Proc, stack[p] # <<>>, WalkStep(p), WellFormed
  PROVE  WellFormed'
<1>1. This(p).n \in Node /\ kind \in [Node -> Kinds]
  BY FrameTypes, Types
<1>2. CASE kind' = kind
  BY <1>2 DEF WellFormed
<1>3. CASE Removes(p) /\ kind' # kind
  <2>1. Removable(p) /\ kind' = [kind EXCEPT ![This(p).n] = "none"] /\ This(p).pc \in {"unlink", "rmdir"}
    BY <1>3 DEF Removes
  <2>2. Children(This(p).n) = {}
    <3>1. CASE This(p).pc = "unlink"
      BY <1>1, <2>1, <3>1, NoChildren DEF Removable
    <3>2. CASE This(p).pc = "rmdir"
      BY <2>1, <3>2 DEF Removable
    <3> QED
      BY <2>1, <3>1, <3>2
  <2> QED
    BY <1>1, <2>1, <2>2, RemoveWellFormed
<1> QED
  BY <1>2, <1>3, WalkEffect DEF Checks, Sorts, Opens, Skips, Descends, Closes, Fails, Advances

\* The frame at work and what UnlinksFiles says of it.
LEMMA TopUnlinks ==
  ASSUME Known, NEW p \in Proc, stack[p] # <<>>
  PROVE  UnlinksFiles(p) <=> (This(p).pc = "unlink" => kind[Res(This(p).n)] = "reg")
BY TopFrame DEF Known, UnlinksFiles, Place, Path

LEMMA KeepsUnlinks ==
  ASSUME Known, NEW p \in Proc, StackOK(p), WalkStep(p), result'[p] = "running"
  PROVE  UnlinksFiles(p)'
<1> DEFINE L == Len(stack[p])
<1>1. stack[p] # <<>>
  BY WalkEffect
<1>2. /\ L \in Nat /\ L >= 1 /\ This(p) \in FrameSet /\ result[p] = "running"
      /\ \A m \in 1 .. (L - 1) : stack[p][m].pc = "readdir"
  BY <1>1, RunningTop
<1>3. ASSUME NEW f, Replaced(p, f), kind' = kind, f.pc = "unlink" => kind[Res(f.n)] = "reg"
      PROVE  UnlinksFiles(p)'
  BY <1>3 DEF Replaced, UnlinksFiles, Place, Path, Res
<1>4. CASE Sorts(p)
  <2>1. CASE Advances(p, "stat", "unlink") /\ kind[Res(This(p).n)] = "reg"
    <3> DEFINE f == [This(p) EXCEPT !.pc = "unlink"]
    <3>1. Replaced(p, f) /\ kind' = kind /\ f.n = This(p).n
      BY <1>2, <2>1 DEF Advances, FrameSet
    <3> HIDE DEF f
    <3> QED
      BY <1>3, <2>1, <3>1
  <2>2. CASE Advances(p, "stat", "opendir")
    <3> DEFINE f == [This(p) EXCEPT !.pc = "opendir"]
    <3>1. Replaced(p, f) /\ kind' = kind /\ f.pc = "opendir"
      BY <1>2, <2>2 DEF Advances, FrameSet
    <3> HIDE DEF f
    <3> QED
      BY <1>3, <3>1
  <2> QED
    BY <1>4, <2>1, <2>2 DEF Sorts
<1>5. CASE Checks(p) \/ Opens(p) \/ Skips(p) \/ Closes(p)
  <2>1. PICK f : Replaced(p, f) /\ kind' = kind /\ f.pc # "unlink"
    <3>1. CASE Checks(p)
      <4>1. [This(p) EXCEPT !.pc = "stat"].pc = "stat"
        BY <1>2 DEF FrameSet
      <4> QED
        BY <3>1, <4>1 DEF Checks, Advances
    <3>2. CASE Closes(p)
      <4>1. [This(p) EXCEPT !.pc = "rmdir"].pc = "rmdir"
        BY <1>2 DEF FrameSet
      <4> QED
        BY <3>2, <4>1 DEF Closes, Advances
    <3>3. CASE Opens(p)
      <4>1. [This(p) EXCEPT !.pc = "readdir", !.todo = Entries(Res(This(p).n))].pc = "readdir"
        BY <1>2 DEF FrameSet
      <4> QED
        BY <3>3, <4>1 DEF Opens
    <3>4. CASE Skips(p)
      <4>1. \A todo : [This(p) EXCEPT !.todo = todo].pc = This(p).pc
        BY <1>2 DEF FrameSet
      <4> QED
        BY <3>4, <4>1 DEF Skips
    <3> QED
      BY <1>5, <3>1, <3>2, <3>3, <3>4
  <2> QED
    BY <1>3, <2>1
<1>6. CASE Descends(p)
  <2>1. \E e : stack'[p][L + 1] = Frame(e.n, LinksOf(This(p))) /\ Len(stack'[p]) = L + 1
    BY <1>6 DEF Descends, Pushed
  <2>2. stack'[p][Len(stack'[p])].pc = "access"
    BY <2>1 DEF Frame
  <2> QED
    BY <2>2 DEF UnlinksFiles, Place
<1>7. CASE Removes(p)
  <2>1. L # 1 /\ Len(stack'[p]) = L - 1 /\ \A m \in 1 .. (L - 1) : stack'[p][m] = stack[p][m]
    BY <1>7 DEF Removes, Popped
  <2>2. L - 1 \in 1 .. (L - 1)
    <3>1. L # 1 /\ L \in Nat /\ L >= 1
      BY <1>2, <2>1
    <3> HIDE DEF L
    <3> QED
      BY <3>1
  <2>3. stack'[p][Len(stack'[p])].pc = "readdir"
    BY <1>2, <2>1, <2>2
  <2> QED
    BY <2>3 DEF UnlinksFiles, Place
<1>8. CASE Fails(p)
  BY <1>8 DEF Fails
<1> QED
  BY <1>4, <1>5, <1>6, <1>7, <1>8, WalkEffect

LEMMA KeepsStuck ==
  ASSUME Known, NEW p \in Proc, stack[p] # <<>>, WalkStep(p), UnlinksFiles(p), Stuck
  PROVE  Stuck'
<1>1. This(p).n \in Node /\ kind \in [Node -> Kinds]
  BY FrameTypes, Types
<1>2. CASE kind' = kind
  BY <1>2 DEF Stuck
<1>3. CASE Removes(p) /\ kind' # kind
  <2>1. Removable(p) /\ kind' = [kind EXCEPT ![This(p).n] = "none"] /\ This(p).pc \in {"unlink", "rmdir"}
    BY <1>3 DEF Removes
  <2>2. \/ kind[This(p).n] \notin {"other", "link"}
        \/ kind[This(p).n] = "link" /\ kind[LinkTo[This(p).n]] = "reg"
    <3>1. CASE This(p).pc = "unlink"
      BY <3>1, TopUnlinks DEF Res
    <3>2. CASE This(p).pc = "rmdir"
      BY <2>1, <3>2 DEF Removable
    <3> QED
      BY <2>1, <3>1, <3>2
  <2> QED
    BY <1>1, <2>1, <2>2, RemoveStuck
<1> QED
  BY <1>2, <1>3, WalkEffect DEF Checks, Sorts, Opens, Skips, Descends, Closes, Fails, Advances

LEMMA GoodStep ==
  ASSUME Known, NEW p \in Proc, StackOK(p), WalkStep(p), faults' = faults,
         WellFormed, UnlinksFiles(p), Good(p), ~Stuck
  PROVE  /\ result'[p] = "running" => Good(p)'
         /\ result'[p] # "running" => kind'[rep_dir_path] = "none"
<1> DEFINE L == Len(stack[p])
           n == This(p).n
<1>1. stack[p] # <<>>
  BY WalkEffect
<1>2. /\ L \in Nat /\ L >= 1 /\ This(p) \in FrameSet /\ result[p] = "running" /\ n \in Node
      /\ \A m \in 1 .. (L - 1) : Place(p, m) = "readdir"
      /\ kind \in [Node -> Kinds]
  BY <1>1, RunningTop, FrameTypes, Types DEF Place
<1>3. CASE Checks(p) \/ Sorts(p) \/ Opens(p) \/ Skips(p) \/ Closes(p)
  <2>1. result'[p] = "running"
    BY <1>2, <1>3 DEF Checks, Sorts, Opens, Skips, Closes, Advances
  <2> QED
    BY <1>1, <1>3, <2>1, GoodReplace
<1>4. CASE Descends(p)
  <2>1. result'[p] = "running"
    BY <1>2, <1>4 DEF Descends
  <2> QED
    BY <1>1, <1>4, <2>1, GoodDescend
<1>5. CASE Removes(p)
  <2>1. Removable(p) /\ Children(n) = {}
    <3>1. CASE This(p).pc = "unlink"
      <4>1. kind[n] \in {"reg", "link"}
        BY <1>1, <3>1, TopUnlinks DEF Res
      <4> QED
        BY <1>2, <3>1, <4>1, NoChildren DEF Removable
    <3>2. CASE This(p).pc = "rmdir"
      BY <1>1, <3>2, GoodTop DEF Removable
    <3> QED
      BY <1>5, <3>1, <3>2 DEF Removes
  <2>2. kind' = [kind EXCEPT ![n] = "none"] /\ Popped(p)
    BY <1>5, <2>1 DEF Removes
  <2>3. CASE L = 1
    <3>1. n = rep_dir_path
      BY <1>1, <2>3, GoodTop
    <3>2. kind'[rep_dir_path] = "none"
      BY <1>2, <2>2, <3>1
    <3>3. result'[p] # "running"
      BY <1>5, <2>3 DEF Removes
    <3> QED
      BY <3>2, <3>3
  <2>4. CASE L # 1
    <3>1. result'[p] = "running"
      BY <1>2, <1>5, <2>4 DEF Removes
    <3>2. Good(p)'
      BY <1>1, <2>1, <2>2, <2>4, GoodReturn
    <3> QED
      BY <3>1, <3>2
  <2> QED
    BY <2>3, <2>4
<1>6. CASE Fails(p)
  <2>1. result'[p] # "running" /\ kind' = kind
    BY <1>6 DEF Fails
  <2>2. kind[n] \in Kinds /\ kind[n] # "other" /\ (kind[n] = "link" => kind[LinkTo[n]] = "reg")
    BY <1>2 DEF Stuck
  <2>3. CASE This(p).pc = "access"
    <3>1. LinksOf(This(p)) <= MAXSYMLINKS
      BY <1>1, GoodTop, TreeAssumption DEF LinksOf
    <3>2. ~FileExists(n)
      BY <1>6, <2>3, <3>1 DEF Fails
    <3>3. kind[n] = "none"
      BY <2>2, <3>2 DEF FileExists, Res
    <3>4. L = 1
      <4> SUFFICES ASSUME L # 1 PROVE FALSE
        OBVIOUS
      <4>1. L - 1 \in 1 .. (L - 1)
        <5> HIDE DEF L
        <5> QED
          BY <1>2
      <4> QED
        BY <1>1, <1>2, <3>3, <4>1, GoodTop
    <3> QED
      BY <1>1, <2>1, <3>3, <3>4, GoodTop
  <2>4. CASE This(p).pc = "stat"
    <3>1. kind[n] # "none"
      BY <1>1, <2>4, GoodTop
    <3> QED
      BY <1>6, <2>2, <2>4, <3>1 DEF Fails, Res, Kinds
  <2>5. CASE This(p).pc = "opendir"
    <3>1. kind[n] = "dir"
      BY <1>1, <2>5, GoodTop
    <3> QED
      BY <1>6, <2>5, <3>1 DEF Fails, Res
  <2> QED
    BY <1>6, <2>3, <2>4, <2>5 DEF Fails
<1> QED
  BY <1>3, <1>4, <1>5, <1>6, WalkEffect

LEMMA RemovalSteps ==
  ASSUME Known, NEW p \in Proc, ProcStep(p), main'[p] \in {"clean", "walk", "rep?"}
  PROVE  CleanRepDir(p) \/ Walk(p) \/ Cleaned(p)
<1>1. \A l : Goto(p, l) => main'[p] = l
  BY Types DEF Goto
<1>2. ~InitRepDir(p)
  BY <1>1 DEF InitRepDir, Test, Make, CreateDir, Sys, Exit
<1>3. ~OpenReport(p) /\ ~OpenData(p) /\ ~Truncate(p) /\ ~Fallocate(p) /\ ~CloseData(p)
  BY <1>1 DEF OpenReport, OpenData, Truncate, Fallocate, CloseData, Open, Alloc, Sys, Exit
<1> QED
  BY <1>2, <1>3 DEF ProcStep

LEMMA SoloBefore ==
  ASSUME Known, NEW p \in Proc, Solo(p)', FaultStep,
         \A q \in Proc : q # p => result'[q] = result[q]
  PROVE  Solo(p) /\ faults' = faults
<1>1. faults \in 0 .. MaxFaults /\ MaxFaults \in Nat /\ faults' = MaxFaults
  BY Types, TreeAssumption DEF Solo
<1>2. faults' = faults
  BY <1>1 DEF FaultStep
<1> QED
  BY <1>1, <1>2 DEF Solo

LEMMA RemoveSelf ==
  ASSUME BaseInv, NEW p \in Proc, RemoveOK(p), ProcStep(p)
  PROVE  RemoveOK(p)'
<1> SUFFICES ASSUME Solo(p)', main'[p] \in {"clean", "walk", "rep?"}
             PROVE  /\ WellFormed'
                    /\ result'[p] = "running" => UnlinksFiles(p)'
                    /\ \/ Stuck'
                       \/ /\ result'[p] = "running" => Good(p)'
                          /\ main'[p] # "clean" /\ result'[p] # "running"
                                => kind'[rep_dir_path] = "none"
  BY DEF RemoveOK, Good
<1>1. Known /\ StackOK(p)
  BY DEF BaseInv
<1>2. \A q \in Proc : q # p => result'[q] = result[q]
  BY ProcBase DEF Based, Kept
<1>3. ASSUME Solo(p), main[p] \in {"clean", "walk"}
      PROVE  /\ WellFormed
             /\ result[p] = "running" => UnlinksFiles(p)
             /\ \/ Stuck
                \/ /\ result[p] = "running" => Good(p)
                   /\ main[p] # "clean" /\ result[p] # "running" => kind[rep_dir_path] = "none"
  BY <1>3 DEF RemoveOK, Good
<1>4. CASE CleanRepDir(p)
  <2> DEFINE f == Frame(rep_dir_path, 0)
  <2>1. /\ main[p] = "clean" /\ stack' = [stack EXCEPT ![p] = <<f>>]
        /\ result' = [result EXCEPT ![p] = "running"] /\ kind' = kind /\ faults' = faults
    BY <1>4 DEF CleanRepDir, RemoveDirRecursive
  <2>2. Solo(p)
    BY <1>1, <1>2, <2>1, SoloBefore DEF FaultStep
  <2>3. WellFormed'
    BY <1>3, <2>1, <2>2 DEF WellFormed
  <2>4. f.pc = "access" /\ f.n = rep_dir_path /\ f.links = 0
    BY DEF Frame
  <2> HIDE DEF f
  <2>5. Len(stack'[p]) = 1 /\ stack'[p][1] = f /\ stack'[p][Len(stack'[p])] = f /\ result'[p] = "running"
    <3>1. stack'[p] = <<f>> /\ result'[p] = "running"
      BY <1>1, <2>1, Types DEF Stacks
    <3> QED
      BY <3>1
  <2>6. UnlinksFiles(p)' /\ Innermost(p)'
    BY <2>4, <2>5 DEF UnlinksFiles, Innermost, Place
  <2>7. /\ \A m \in 1 .. Len(stack'[p]) : stack'[p][m] = f
        /\ \A m \in 1 .. (Len(stack'[p]) - 1) : FALSE
    <3>1. \A m \in 1 .. 1 : m = 1
      OBVIOUS
    <3>2. \A m \in 1 .. (1 - 1) : FALSE
      OBVIOUS
    <3> QED
      BY <2>5, <3>1, <3>2
  <2>8. Chain(p)'
    BY <2>4, <2>5, <2>7 DEF Chain, Path
  <2>9. Remaining(p)'
    BY <2>4, <2>7 DEF Remaining, Place
  <2> QED
    BY <2>3, <2>5, <2>6, <2>8, <2>9 DEF Good
<1>5. CASE Walk(p)
  <2>1. WalkStep(p) /\ main[p] = "walk" /\ main' = main
    BY <1>5 DEF Walk
  <2>2. stack[p] # <<>> /\ result[p] = "running"
    BY <1>1, <2>1, WalkEffect, RunningTop
  <2>3. FaultStep
    BY <2>1 DEF WalkStep, Access, Stat, Unlink, OpenDir, ReadDir, CloseDir, RmDir, Sys, FaultStep
  <2>4. Solo(p) /\ faults' = faults
    BY <1>1, <1>2, <2>3, SoloBefore
  <2>5. WellFormed /\ UnlinksFiles(p) /\ (Stuck \/ Good(p))
    BY <1>3, <2>1, <2>2, <2>4
  <2>6. WellFormed' /\ (result'[p] = "running" => UnlinksFiles(p)')
    BY <1>1, <2>1, <2>2, <2>5, KindWellFormed, KeepsUnlinks
  <2>7. CASE Stuck
    BY <1>1, <2>1, <2>2, <2>5, <2>6, <2>7, KeepsStuck
  <2>8. CASE ~Stuck
    BY <1>1, <2>1, <2>4, <2>5, <2>6, <2>8, GoodStep
  <2> QED
    BY <2>7, <2>8
<1>6. CASE Cleaned(p)
  <2>1. /\ main[p] = "walk" /\ result[p] # "running"
        /\ UNCHANGED <<kind, stack, result, faults>>
    BY <1>6 DEF Cleaned, fileVars, walk
  <2>2. Solo(p)
    BY <1>1, <1>2, <2>1, SoloBefore DEF FaultStep
  <2>3. WellFormed /\ (Stuck \/ kind[rep_dir_path] = "none")
    BY <1>3, <2>1, <2>2
  <2>4. WellFormed' /\ (Stuck => Stuck')
    BY <2>1, <2>3 DEF WellFormed, Stuck
  <2> QED
    BY <2>1, <2>3, <2>4
<1> QED
  BY <1>1, <1>4, <1>5, <1>6, RemovalSteps

-----------------------------------------------------------------------------
(***************************************************************************)
(* The invariant, and what follows.                                        *)
(***************************************************************************)
LEMMA RepInvParts ==
  RepInv <=> BaseInv /\ \A p \in Proc : RemoveOK(p)
BY DEF RepInv, BaseInv, Known, Stacks

LEMMA RepInit == Init => RepInv
<1> SUFFICES ASSUME Init PROVE RepInv
  OBVIOUS
<1>1. /\ kind \in InitialKinds /\ stack = [p \in Proc |-> <<>>]
      /\ result = [p \in Proc |-> "none"] /\ open = [p \in Proc |-> 0]
      /\ fds = [p \in Proc |-> 0] /\ faults = MaxFaults
  BY DEF Init, FileInit
<1>2. PICK S \in SUBSET Proc : main = [p \in Proc |-> IF p \in S THEN "clean" ELSE "exit"]
  BY DEF Init
<1>3. <<>> \in Seq(FrameSet)
  OBVIOUS
<1>4. /\ kind \in [Node -> Kinds] /\ result \in [Proc -> Results]
      /\ open \in [Proc -> Nat] /\ fds \in [Proc -> Nat] /\ faults \in 0 .. MaxFaults
      /\ main \in [Proc -> MainPCs] /\ Stacks
  BY <1>1, <1>2, <1>3, TreeAssumption DEF Results, MainPCs, Stacks
<1>5. Known
  BY <1>4 DEF Known, TypeOK, Results, MainPCs
<1>6. ASSUME NEW p \in Proc
      PROVE  StackOK(p) /\ FdOK(p) /\ RemoveOK(p)
  <2>1. /\ stack[p] = <<>> /\ result[p] = "none" /\ open[p] = 0 /\ fds[p] = 0
        /\ main[p] \in {"clean", "exit"}
    BY <1>1, <1>2
  <2>2. \A m \in 1 .. (Len(stack[p]) - 1) : FALSE
    <3>1. Len(stack[p]) = 0
      BY <2>1
    <3> QED
      BY <3>1
  <2>3. StackOK(p)
    BY <2>1, <2>2 DEF StackOK
  <2>4. FdOK(p)
    BY <2>1 DEF FdOK
  <2>5. WellFormed
    BY <1>1, TreeAssumption DEF WellFormed
  <2> QED
    BY <2>1, <2>3, <2>4, <2>5 DEF RemoveOK
<1> QED
  BY <1>5, <1>6, RepInvParts DEF BaseInv

LEMMA RepProc ==
  ASSUME RepInv, NEW p \in Proc, ProcStep(p)
  PROVE  RepInv'
<1>1. BaseInv /\ \A q \in Proc : RemoveOK(q)
  BY RepInvParts
<1>2. Known' /\ Kept(p) /\ StackOK(p)' /\ FdOK(p)' /\ result'[p] # "none"
  BY <1>1, ProcBase DEF Based
<1>3. RemoveOK(p)'
  BY <1>1, RemoveSelf
<1>4. ASSUME NEW q \in Proc, q # p
      PROVE  StackOK(q)' /\ FdOK(q)' /\ RemoveOK(q)'
  <2>1. /\ stack'[q] = stack[q] /\ result'[q] = result[q] /\ open'[q] = open[q]
        /\ fds'[q] = fds[q] /\ main'[q] = main[q]
    BY <1>2, <1>4 DEF Kept
  <2>2. StackOK(q) /\ FdOK(q)
    BY <1>1 DEF BaseInv
  <2>3. StackOK(q)'
    BY <2>1, <2>2 DEF StackOK, Place
  <2>4. FdOK(q)'
    BY <2>1, <2>2 DEF FdOK
  <2>5. RemoveOK(q)'
    BY <1>2, <1>4 DEF RemoveOK, Solo
  <2> QED
    BY <2>3, <2>4, <2>5
<1>5. (\A q \in Proc : StackOK(q) /\ FdOK(q) /\ RemoveOK(q))'
  BY <1>2, <1>3, <1>4
<1> QED
  BY <1>2, <1>5 DEF RepInv, Known, Stacks

LEMMA RepStutter ==
  ASSUME RepInv, UNCHANGED vars
  PROVE  RepInv'
<1>1. UNCHANGED <<kind, stack, result, open, fds, faults, main>>
  BY DEF vars, fileVars, walk
<1>2. /\ TypeOK /\ stack \in [Proc -> Seq(FrameSet)]
      /\ \A p \in Proc : StackOK(p) /\ FdOK(p) /\ RemoveOK(p)
  BY DEF RepInv
<1>3. TypeOK' /\ (stack \in [Proc -> Seq(FrameSet)])'
  BY <1>1, <1>2 DEF TypeOK
<1>4. \A p \in Proc : StackOK(p)' /\ FdOK(p)'
  BY <1>1, <1>2 DEF StackOK, FdOK, Place
<1>5. \A p \in Proc : RemoveOK(p)'
  <2>1. WellFormed' = WellFormed /\ Stuck' = Stuck /\ \A n : Children(n)' = Children(n) /\ Res(n)' = Res(n)
    BY <1>1 DEF WellFormed, Stuck, Children, Res
  <2>2. ASSUME NEW p \in Proc
        PROVE  /\ Solo(p)' = Solo(p) /\ UnlinksFiles(p)' = UnlinksFiles(p)
               /\ Chain(p)' = Chain(p)
               /\ Innermost(p)' = Innermost(p) /\ Remaining(p)' = Remaining(p)
    BY <1>1 DEF Solo, UnlinksFiles, Chain, Innermost, Remaining, Path, Place, Todo, Children, Res
  <2> QED
    BY <1>1, <1>2, <2>1, <2>2 DEF RemoveOK
<1> QED
  BY <1>3, <1>4, <1>5 DEF RepInv

LEMMA RepStep == RepInv /\ [Next]_vars => RepInv'
<1> SUFFICES ASSUME RepInv, [Next]_vars PROVE RepInv'
  OBVIOUS
<1>1. CASE \E p \in Proc : ProcStep(p)
  BY <1>1, RepProc
<1>2. CASE UNCHANGED vars
  BY <1>2, RepStutter
<1> QED
  BY <1>1, <1>2 DEF Next, Settled

\* The inductive invariant holds, whatever the tree, its links and the number
\* of processes that RemoveDirRecursive, InitRepDir and OpenAndAllocAtSize run
\* in.
THEOREM RepInvariantHolds == Spec => []RepInv
BY RepInit, RepStep, PTL DEF Spec

\* Types are kept: no process closes a stream or a descriptor it does not have.
THEOREM RepTypeCorrect == Spec => []TypeOK
<1>1. RepInv => TypeOK
  BY DEF RepInv
<1> QED
  BY <1>1, RepInvariantHolds, PTL

\* RemoveDirRecursive that returns 0 has closed its streams at every depth, a
\* process that measures has the descriptor of its report alone, and the error
\* paths of OpenAndAllocAtSize leave none behind.
THEOREM NothingLeaksCorrect == Spec => []NothingLeaks
<1>1. RepInv => NothingLeaks
  BY DEF RepInv, StackOK, FdOK, NothingLeaks
<1> QED
  BY <1>1, RepInvariantHolds, PTL

\* Nothing is left of a tree of files and directories that RemoveDirRecursive
\* removed without a failing call and undisturbed, however deep it is.
THEOREM PlainTreeRemoved == Spec => []RemovesPlainTree
<1>1. RepInv => RemovesPlainTree
  <2> SUFFICES ASSUME RepInv, NEW p \in Proc, main[p] = "rep?", faults = MaxFaults, PlainTree,
                      \A q \in Proc \ {p} : result[q] = "none"
               PROVE  \A n \in Inside : kind[n] = "none"
    BY DEF RemovesPlainTree
  <2>1. RemoveOK(p) /\ StackOK(p) /\ Solo(p)
    BY DEF RepInv, Solo
  <2>2. ~Stuck
    BY DEF Stuck, PlainTree
  <2>3. WellFormed /\ kind[rep_dir_path] = "none"
    BY <2>1, <2>2 DEF RemoveOK, StackOK
  <2> DEFINE S == {n \in Node : kind[n] = "none"}
  <2>4. rep_dir_path \in S
    BY <2>3, PathsAssumption
  <2>5. \A c \in Node : Parent[c] \in S => c \in S
    <3> SUFFICES ASSUME NEW c \in Node, kind[Parent[c]] = "none" PROVE kind[c] = "none"
      OBVIOUS
    <3>1. CASE c = Top
      BY <3>1, TreeAssumption
    <3>2. CASE c # Top
      BY <2>3, <3>2 DEF WellFormed
    <3> QED
      BY <3>1, <3>2
  <2>6. S \in SUBSET Node
    OBVIOUS
  <2>7. \A n \in Inside : n \in S
    <3> HIDE DEF S
    <3> QED
      BY <2>4, <2>5, <2>6 DEF Inside
  <2> QED
    BY <2>7
<1> QED
  BY <1>1, RepInvariantHolds, PTL

-----------------------------------------------------------------------------
(***************************************************************************)
(* What RemoveDirRecursive can reach.                                      *)
(***************************************************************************)
InFrame(f) ==
    f.n \in Inside /\ {c \in Node : [name |-> "child", n |-> c] \in f.todo} \subseteq Inside

InStack(p) == \A m \in 1 .. Len(stack[p]) : InFrame(stack[p][m])

LEMMA InsideParts ==
  InsideInv <=> LinksStay(kind) /\ \A p \in Proc : InStack(p)
BY DEF InsideInv, InStack, InFrame, Path, Todo

LEMMA InsideClosed ==
  /\ rep_dir_path \in Inside
  /\ \A c \in Node : Parent[c] \in Inside => c \in Inside
BY PathsAssumption DEF Inside

LEMMA InsidePaths ==
  /\ {rep_dir_path, internal_dir, report_dir} \subseteq Inside
  /\ \A p \in Proc : report_path[p] \in Inside /\ data_path[p] \in Inside
BY InsideClosed, PathsAssumption

\* The paths that appear or disappear in a step.
LEMMA KindStep ==
  ASSUME Known, NEW p \in Proc, ProcStep(p), InStack(p)
  PROVE  \/ kind' = kind
         \/ \E n \in Inside, to \in {"none", "dir", "reg"} : kind' = [kind EXCEPT ![n] = to]
<1>1. CASE Walk(p)
  <2>1. WalkStep(p) /\ stack[p] # <<>>
    BY <1>1, WalkEffect DEF Walk
  <2>2. This(p).n \in Inside
    <3>1. /\ Len(stack[p]) \in Nat /\ Len(stack[p]) >= 1 /\ This(p) = stack[p][Len(stack[p])]
      BY <2>1, TopFrame DEF Known
    <3>2. Len(stack[p]) \in 1 .. Len(stack[p])
      BY <3>1
    <3> QED
      BY <3>1, <3>2 DEF InStack, InFrame
  <2> QED
    BY <2>1, <2>2, WalkEffect
       DEF Checks, Sorts, Opens, Skips, Descends, Closes, Removes, Fails, Advances
<1>2. CASE CleanRepDir(p) \/ Cleaned(p) \/ Truncate(p) \/ Fallocate(p) \/ CloseData(p)
  BY <1>2 DEF CleanRepDir, RemoveDirRecursive, Cleaned, fileVars, Truncate, Fallocate, CloseData,
              Alloc, Close
<1>3. CASE OpenReport(p) \/ OpenData(p)
  <2>1. \/ kind' = kind \/ kind' = [kind EXCEPT ![report_path[p]] = "reg"]
        \/ kind' = [kind EXCEPT ![data_path[p]] = "reg"]
    BY <1>3 DEF OpenReport, OpenData, Open, Sys
  <2> QED
    BY <2>1, InsidePaths
<1>4. CASE InitRepDir(p)
  <2>1. \/ kind' = kind
        \/ \E n \in {rep_dir_path, internal_dir, report_dir} : kind' = [kind EXCEPT ![n] = "dir"]
    BY <1>4 DEF InitRepDir, Test, Make, CreateDir, Sys
  <2> QED
    BY <2>1, InsidePaths
<1> QED
  BY <1>1, <1>2, <1>3, <1>4 DEF ProcStep

LEMMA InStackReplaced ==
  ASSUME Known, NEW p \in Proc, stack[p] # <<>>, InStack(p), NEW f, Replaced(p, f), InFrame(f)
  PROVE  InStack(p)'
<1> DEFINE L == Len(stack[p])
<1>1. L \in Nat /\ L >= 1
  BY TopFrame DEF Known
<1>2. /\ Len(stack'[p]) = L /\ stack'[p][L] = f
      /\ \A m \in 1 .. (L - 1) : stack'[p][m] = stack[p][m]
  BY DEF Replaced
<1>3. \A m \in 1 .. L : InFrame(stack[p][m])
  BY DEF InStack
<1> HIDE DEF L
<1>4. \A m \in 1 .. L : m = L \/ m \in 1 .. (L - 1)
  BY <1>1, UpTo
<1>5. \A m \in 1 .. L : InFrame(stack'[p][m])
  BY <1>2, <1>3, <1>4
<1> QED
  BY <1>2, <1>5 DEF InStack, InFrame

LEMMA WalkInside ==
  ASSUME Known, NEW p \in Proc, LinksStay(kind), InStack(p), WalkStep(p)
  PROVE  InStack(p)'
<1> DEFINE L == Len(stack[p])
           n == This(p).n
<1>1. stack[p] # <<>>
  BY WalkEffect
<1>2. /\ L \in Nat /\ L >= 1 /\ This(p) \in FrameSet /\ This(p) = stack[p][L]
      /\ This(p).todo \subseteq Entry
  BY <1>1, TopFrame, FrameTypes DEF Known
<1>3. InFrame(This(p))
  <2>1. L \in 1 .. L
    <3> HIDE DEF L
    <3> QED
      BY <1>2
  <2> QED
    BY <1>2, <2>1 DEF InStack
<1>4. ASSUME NEW from, NEW to, Advances(p, from, to)
      PROVE  InStack(p)'
  <2> DEFINE f == [This(p) EXCEPT !.pc = to]
  <2>1. f.n = n /\ f.todo = This(p).todo /\ Replaced(p, f)
    BY <1>2, <1>4 DEF FrameSet, Advances
  <2>2. InFrame(f)
    BY <1>3, <2>1 DEF InFrame
  <2> HIDE DEF f
  <2> QED
    BY <1>1, <2>1, <2>2, InStackReplaced
<1>5. CASE Opens(p)
  <2> DEFINE d == Res(n)
             f == [This(p) EXCEPT !.pc = "readdir", !.todo = Entries(d)]
  <2>1. f.n = n /\ f.todo = Entries(d) /\ Replaced(p, f) /\ kind[d] = "dir"
    BY <1>2, <1>5 DEF FrameSet, Opens
  <2>2. d \in Inside
    BY <1>3, <2>1 DEF Res, LinksStay, InFrame
  <2>3. \A c \in Node : [name |-> "child", n |-> c] \in Entries(d) => c \in Children(d)
    BY DEF Entries
  <2>4. \A c \in Children(d) : c \in Inside
    BY <2>2, InsideClosed DEF Children
  <2>5. InFrame(f)
    <3> HIDE DEF f, d
    <3> QED
      BY <1>3, <2>1, <2>3, <2>4 DEF InFrame
  <2> HIDE DEF f
  <2> QED
    BY <1>1, <2>1, <2>5, InStackReplaced
<1>6. CASE Skips(p)
  <2>1. PICK e : Replaced(p, [This(p) EXCEPT !.todo = This(p).todo \ {e}])
    BY <1>6 DEF Skips
  <2> DEFINE f == [This(p) EXCEPT !.todo = This(p).todo \ {e}]
  <2>2. f.n = n /\ f.todo = This(p).todo \ {e} /\ Replaced(p, f)
    BY <1>2, <2>1 DEF FrameSet
  <2>3. InFrame(f)
    BY <1>3, <2>2 DEF InFrame
  <2> HIDE DEF f
  <2> QED
    BY <1>1, <2>2, <2>3, InStackReplaced
<1>7. CASE Descends(p)
  <2>1. PICK e \in This(p).todo :
           /\ e.name = "child"
           /\ Pushed(p, [This(p) EXCEPT !.todo = This(p).todo \ {e}], Frame(e.n, LinksOf(This(p))))
    BY <1>7 DEF Descends
  <2> DEFINE f == [This(p) EXCEPT !.todo = This(p).todo \ {e}]
             g == Frame(e.n, LinksOf(This(p)))
  <2>2. InFrame(f)
    <3>1. f.n = n /\ f.todo = This(p).todo \ {e}
      BY <1>2 DEF FrameSet
    <3> QED
      BY <1>3, <3>1 DEF InFrame
  <2>3. InFrame(g)
    <3>1. g.n = e.n /\ g.todo = {}
      BY DEF Frame
    <3>2. e.n \in Node /\ e = [name |-> "child", n |-> e.n]
      BY <1>2, <2>1 DEF Entry
    <3>3. e.n \in Inside
      BY <1>3, <3>2 DEF InFrame
    <3> QED
      BY <3>1, <3>3 DEF InFrame
  <2>4. /\ Len(stack'[p]) = L + 1 /\ stack'[p][L] = f /\ stack'[p][L + 1] = g
        /\ \A m \in 1 .. (L - 1) : stack'[p][m] = stack[p][m]
    BY <2>1 DEF Pushed
  <2>5. \A m \in 1 .. L : InFrame(stack[p][m])
    BY DEF InStack
  <2> HIDE DEF f, g, L
  <2>6. \A m \in 1 .. (L + 1) : m \in 1 .. (L - 1) \/ m = L \/ m = L + 1
    BY <1>2
  <2>7. \A m \in 1 .. (L - 1) : m \in 1 .. L
    BY <1>2, UpTo
  <2>8. \A m \in 1 .. (L + 1) : InFrame(stack'[p][m])
    BY <2>2, <2>3, <2>4, <2>5, <2>6, <2>7
  <2> QED
    BY <2>4, <2>8 DEF InStack, InFrame
<1>8. CASE Removes(p)
  <2>1. Len(stack'[p]) = L - 1 /\ \A m \in 1 .. (L - 1) : stack'[p][m] = stack[p][m]
    BY <1>8 DEF Removes, Popped
  <2>2. \A m \in 1 .. L : InFrame(stack[p][m])
    BY DEF InStack
  <2> HIDE DEF L
  <2>3. \A m \in 1 .. (L - 1) : m \in 1 .. L
    BY <1>2, UpTo
  <2>4. \A m \in 1 .. (L - 1) : InFrame(stack'[p][m])
    BY <2>1, <2>2, <2>3
  <2> QED
    BY <2>1, <2>4 DEF InStack, InFrame
<1>9. CASE Fails(p)
  <2>1. Len(stack'[p]) = 0
    BY <1>9 DEF Fails
  <2>2. \A m \in 1 .. 0 : FALSE
    OBVIOUS
  <2> QED
    BY <2>1, <2>2 DEF InStack
<1> QED
  BY <1>4, <1>5, <1>6, <1>7, <1>8, <1>9, WalkEffect DEF Checks, Sorts, Closes

LEMMA InsideStep ==
  ASSUME RepInv, InsideInv, NEW p \in Proc, ProcStep(p)
  PROVE  InsideInv' /\ \A n \in Node \ Inside : kind'[n] = kind[n]
<1>1. Known /\ BaseInv /\ LinksStay(kind) /\ \A q \in Proc : InStack(q)
  BY RepInvParts, InsideParts DEF BaseInv
<1>2. kind \in [Node -> Kinds] /\ Inside \subseteq Node
  BY <1>1, Types DEF Inside
<1>3. \/ kind' = kind
      \/ \E n \in Inside, to \in {"none", "dir", "reg"} : kind' = [kind EXCEPT ![n] = to]
  BY <1>1, KindStep
<1>4. /\ \A n \in Node \ Inside : kind'[n] = kind[n]
      /\ \A n \in Node : kind'[n] = "link" => kind[n] = "link"
  BY <1>2, <1>3
<1>5. LinksStay(kind)'
  BY <1>1, <1>2, <1>4, TreeAssumption DEF LinksStay
<1>6. Kept(p)
  BY <1>1, ProcBase DEF Based
<1>7. InStack(p)'
  <2>1. CASE Walk(p)
    BY <1>1, <2>1, WalkInside DEF Walk
  <2>2. CASE CleanRepDir(p)
    <3> DEFINE f == Frame(rep_dir_path, 0)
    <3>1. stack'[p] = <<f>>
      BY <1>1, <2>2, Types DEF CleanRepDir, RemoveDirRecursive, Stacks
    <3>2. InFrame(f)
      BY InsideClosed DEF Frame, InFrame
    <3> HIDE DEF f
    <3>3. Len(stack'[p]) = 1 /\ \A m \in 1 .. 1 : stack'[p][m] = f
      BY <3>1
    <3> QED
      BY <3>2, <3>3 DEF InStack, InFrame
  <2>3. CASE ~Walk(p) /\ ~CleanRepDir(p)
    <3>1. stack' = stack
      BY <2>3 DEF ProcStep, Cleaned, fileVars, walk, InitRepDir, Test, Make, CreateDir,
                  OpenReport, OpenData, Open, Truncate, Fallocate, Alloc, CloseData, Close
    <3> QED
      BY <1>1, <3>1 DEF InStack, InFrame
  <2> QED
    BY <2>1, <2>2, <2>3
<1>8. \A q \in Proc : q # p => InStack(q)'
  BY <1>1, <1>6 DEF Kept, InStack, InFrame
<1>9. InsideInv'
  <2>1. (\A q \in Proc : InStack(q))'
    BY <1>7, <1>8
  <2> QED
    BY <1>5, <2>1 DEF InsideInv, InStack, InFrame, Path, Todo
<1> QED
  BY <1>4, <1>9

\* No process creates or removes anything outside the report directory,
\* provided that no link in it leads to a directory outside: stat and opendir
\* follow links, and RemoveDirRecursive empties what they lead to.
THEOREM OutsideUntouched ==
  ASSUME \A K \in InitialKinds : LinksStay(K)
  PROVE  Spec => OnlyInside
<1>1. Init => InsideInv
  <2> SUFFICES ASSUME Init PROVE InsideInv
    OBVIOUS
  <2>1. LinksStay(kind) /\ stack = [p \in Proc |-> <<>>]
    BY DEF Init, FileInit
  <2>2. \A p \in Proc : InStack(p)
    <3>1. \A p \in Proc : Len(stack[p]) = 0
      BY <2>1
    <3>2. \A m \in 1 .. 0 : FALSE
      OBVIOUS
    <3> QED
      BY <3>1, <3>2 DEF InStack
  <2> QED
    BY <2>1, <2>2, InsideParts
<1>2. RepInv /\ InsideInv /\ [Next]_vars =>
        InsideInv' /\ [\A n \in Node \ Inside : kind'[n] = kind[n]]_vars
  <2> SUFFICES ASSUME RepInv, InsideInv, [Next]_vars
               PROVE  InsideInv' /\ [\A n \in Node \ Inside : kind'[n] = kind[n]]_vars
    OBVIOUS
  <2>1. CASE \E p \in Proc : ProcStep(p)
    BY <2>1, InsideStep
  <2>2. CASE UNCHANGED vars
    <3>1. UNCHANGED <<kind, stack>>
      BY <2>2 DEF vars, fileVars, walk
    <3>2. InsideInv'
      BY <3>1 DEF InsideInv, LinksStay, Path, Todo
    <3> QED
      BY <2>2, <3>2
  <2> QED
    BY <2>1, <2>2 DEF Next, Settled
<1> QED
  BY <1>1, <1>2, RepInvariantHolds, PTL DEF Spec, OnlyInside

=============================================================================
