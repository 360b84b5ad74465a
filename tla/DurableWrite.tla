---------------------------- MODULE DurableWrite ----------------------------
(***************************************************************************)
(* What a timed operation on persistent memory promises, whatever          *)
(* instructions it is made of:                                             *)
(*                                                                         *)
(*   - while it runs it stores only new values, and only in its            *)
(*     destination; the media may take over what readers see at any time;  *)
(*   - when a fenced operation ends its whole destination is on the media; *)
(*   - when an unfenced one ends readers see its whole destination;        *)
(*   - after a power failure readers see what was on the media.            *)
(*                                                                         *)
(* Modules AepCopy and NativeCopy implement this specification.            *)
(***************************************************************************)
CONSTANTS Thread, Addr,
          Calls,            \* what may be called
          Target(_),        \* the bytes that a call writes
          Saved(_),         \* those it makes durable before it returns
          Value(_, _),      \* the values call r may leave at address a
          Blank             \* what the mapping holds at first

VARIABLES media,            \* what survives a power failure
          seen,             \* what a load returns
          promise,          \* the values each byte may have after a failure
          running           \* for each thread the set with its call, or {}

vars == <<media, seen, promise, running>>

Init ==
    /\ media = [a \in Addr |-> Blank]
    /\ seen = [a \in Addr |-> Blank]
    /\ promise = [a \in Addr |-> {Blank}]
    /\ running = [t \in Thread |-> {}]

\* Calls that run together write to different bytes.
Start(t, r) ==
    /\ running[t] = {}
    /\ running' = [running EXCEPT ![t] = {r}]
    /\ \A u \in Thread \ {t} : \A q \in running[u] : Target(q) \cap Target(r) = {}
    /\ promise' = [a \in Addr |-> IF a \in Target(r) THEN promise[a] \cup Value(r, a)
                                                    ELSE promise[a]]
    /\ UNCHANGED <<media, seen>>

Write(t) ==
    /\ seen' = [a \in Addr |-> seen'[a]]
    /\ \A a \in Addr : seen'[a] # seen[a] =>
          \E r \in running[t] : a \in Target(r) /\ seen'[a] \in Value(r, a)
    /\ UNCHANGED <<media, promise, running>>

\* Each byte on the media stays or becomes what readers see.
TakesOver ==
    /\ media' = [a \in Addr |-> media'[a]]
    /\ \A a \in Addr : media'[a] \in {media[a], seen[a]}

WriteBack == TakesOver /\ UNCHANGED <<seen, promise, running>>

Finish(t) ==
    \E r \in running[t] :
        /\ TakesOver
        /\ \A a \in Saved(r) : media'[a] \in Value(r, a)
        /\ \A a \in Target(r) : seen[a] \in Value(r, a)
        /\ promise' = [a \in Addr |-> IF a \in Saved(r) THEN Value(r, a) ELSE promise[a]]
        /\ running' = [running EXCEPT ![t] = {}]
        /\ UNCHANGED seen

\* The process dies; the machine goes on.
Die ==
    /\ running' = [t \in Thread |-> {}]
    /\ UNCHANGED <<media, seen, promise>>

LosePower ==
    /\ seen' = media
    /\ running' = [t \in Thread |-> {}]
    /\ UNCHANGED <<media, promise>>

Next ==
    \/ WriteBack \/ Die \/ LosePower
    \/ \E t \in Thread : Write(t) \/ Finish(t) \/ \E r \in Calls : Start(t, r)

Spec == Init /\ [][Next]_vars
=============================================================================
