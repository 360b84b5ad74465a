---------------------------- MODULE PmemMapProofs ----------------------------
(***************************************************************************)
(* The properties of PmemMap for every sequence of rounds.                 *)
(***************************************************************************)
EXTENDS PmemMap, TLAPS

InMapFromFd == {"config", "source", "granularity", "map"}
Returned == pc \in {"delete", "next"} \/ (pc = "mapped" /\ map = "mapping")

\* A config exists from its own call to Delete, a source from its own; a
\* failed call leaves them, and only "mapped" and "exit" follow.
ObjectsOK ==
    /\ pc \in {"open", "config", "next", "measure", "unmap", "destroy", "end"}
          => cfgs = 0 /\ srcs = 0
    /\ pc = "source" => cfgs = 1 /\ srcs = 0
    /\ pc \in {"granularity", "map", "delete"} => cfgs = 1 /\ srcs = 1
    /\ pc = "delete" => map = "mapping"
    /\ pc = "mapped" /\ map = "mapping" => cfgs = 0 /\ srcs = 0

FdsOK ==
    /\ pc \in {"open", "next", "measure", "unmap", "destroy", "end"} => fds = 0
    /\ pc \in InMapFromFd \cup {"delete", "mapped"} => fds = 1

RoundOK == pc \notin {"destroy", "end", "exit"} => round \in 1 .. Len(Rounds)

DevOK ==
    /\ call # "data" /\ pc \in {"open"} \cup InMapFromFd => dev = 0
    /\ call # "data" /\ Returned => dev = 1
    /\ call = "data" /\ pc \notin {"end", "exit"} => dev = 1
    /\ pc \in {"measure", "unmap", "destroy"} => dev = 1 /\ call = "data"
    /\ pc = "end" => dev = 0

DataOK ==
    /\ call # "data" => data = {}
    /\ call = "data" /\ pc \in {"open"} \cup InMapFromFd =>
          data = 0 .. (k - 1) /\ k < Rounds[round]
    /\ call = "data" /\ Returned => data = 0 .. k /\ k < Rounds[round]
    /\ pc = "measure" => data = 0 .. (Rounds[round] - 1)
    /\ pc = "unmap" => data = k .. (Rounds[round] - 1) /\ k <= Rounds[round]
    /\ pc \in {"destroy", "end"} => data = {}

MapInv == MapTypeOK /\ ObjectsOK /\ FdsOK /\ RoundOK /\ DevOK /\ DataOK

LEMMA RoundSize ==
    ASSUME NEW r \in 1 .. Len(Rounds)
    PROVE  Rounds[r] \in Nat \ {0}
  BY RoundsAssumption

LEMMA RoundsLen == Len(Rounds) \in Nat \ {0}
  BY RoundsAssumption

LEMMA Intervals ==
    ASSUME NEW n \in Nat
    PROVE  /\ (0 .. (n - 1)) \cup {n} = 0 .. n
           /\ n .. (n - 1) = {}
           /\ \A b \in Nat : n < b => (n .. (b - 1)) \ {n} = (n + 1) .. (b - 1)
  OBVIOUS

LEMMA MapInit == Init => MapInv
  <1> SUFFICES ASSUME Init PROVE MapInv
    OBVIOUS
  <1> QED
    BY RoundsLen DEF Init, MapInv, MapTypeOK, ObjectsOK, FdsOK, RoundOK, DevOK, DataOK,
                     InMapFromFd, Returned

LEMMA MapStep == MapInv /\ [Next]_vars => MapInv'
  <1> SUFFICES ASSUME MapInv, [Next]_vars PROVE MapInv'
    OBVIOUS
  <1> USE DEF MapInv, objects, maps
  <1>1. CASE Open
    BY <1>1 DEF Open, Try, MapTypeOK, ObjectsOK, FdsOK, RoundOK, DevOK, DataOK,
        InMapFromFd, Returned
  <1>2. CASE pmem2_config_new
    <2> USE <1>2 DEF pmem2_config_new, Try, ReturnNull, MapTypeOK, InMapFromFd, Returned
    <2>1. MapTypeOK'
      <3>1. {round', k', fds', cfgs', srcs', dev'} \subseteq Nat
        OBVIOUS
      <3>2. data' \subseteq Nat
        OBVIOUS
      <3>3. /\ pc' \in {"source", "granularity", "delete", "mapped", "unmap", "destroy", "open"}
            /\ call' = call /\ map' \in {map, "null", "mapping"}
        OBVIOUS
      <3> QED
        BY <3>1, <3>2, <3>3
    <2>2. ObjectsOK'
      BY DEF ObjectsOK
    <2>3. FdsOK'
      BY DEF FdsOK
    <2>4. RoundOK'
      BY RoundsLen DEF RoundOK
    <2>5. DevOK'
      BY DEF DevOK
    <2>6. DataOK'
      BY DEF RoundOK, DevOK, DataOK
    <2> QED
      BY <2>1, <2>2, <2>3, <2>4, <2>5, <2>6
  <1>3. CASE pmem2_source_from_fd
    <2> USE <1>3 DEF pmem2_source_from_fd, Try, ReturnNull, MapTypeOK, InMapFromFd, Returned
    <2>1. MapTypeOK'
      <3>1. {round', k', fds', cfgs', srcs', dev'} \subseteq Nat
        OBVIOUS
      <3>2. data' \subseteq Nat
        OBVIOUS
      <3>3. /\ pc' \in {"source", "granularity", "delete", "mapped", "unmap", "destroy", "open"}
            /\ call' = call /\ map' \in {map, "null", "mapping"}
        OBVIOUS
      <3> QED
        BY <3>1, <3>2, <3>3
    <2>2. ObjectsOK'
      BY DEF ObjectsOK
    <2>3. FdsOK'
      BY DEF FdsOK
    <2>4. RoundOK'
      BY RoundsLen DEF RoundOK
    <2>5. DevOK'
      BY DEF DevOK
    <2>6. DataOK'
      BY DEF RoundOK, DevOK, DataOK
    <2> QED
      BY <2>1, <2>2, <2>3, <2>4, <2>5, <2>6
  <1>4. CASE pmem2_config_set_required_store_granularity
    <2> USE <1>4 DEF pmem2_config_set_required_store_granularity, Try, ReturnNull, MapTypeOK,
                     InMapFromFd, Returned
    <2>1. MapTypeOK'
      OBVIOUS
    <2>2. ObjectsOK'
      BY DEF ObjectsOK
    <2>3. FdsOK'
      BY DEF FdsOK
    <2>4. RoundOK'
      BY RoundsLen DEF RoundOK
    <2>5. DevOK'
      BY DEF DevOK
    <2>6. DataOK'
      BY DEF RoundOK, DevOK, DataOK
    <2> QED
      BY <2>1, <2>2, <2>3, <2>4, <2>5, <2>6
  <1>5. CASE pmem2_map_new
    <2> USE <1>5 DEF pmem2_map_new, Try, ReturnNull, MapTypeOK, InMapFromFd, Returned
    <2>1. MapTypeOK'
      <3>1. {round', k', fds', cfgs', srcs', dev'} \subseteq Nat
        OBVIOUS
      <3>2. data' \subseteq Nat
        OBVIOUS
      <3>3. /\ pc' \in {"source", "granularity", "delete", "mapped", "unmap", "destroy", "open"}
            /\ call' = call /\ map' \in {map, "null", "mapping"}
        OBVIOUS
      <3> QED
        BY <3>1, <3>2, <3>3
    <2>2. ObjectsOK'
      BY DEF ObjectsOK
    <2>3. FdsOK'
      BY DEF FdsOK
    <2>4. RoundOK'
      BY RoundsLen DEF RoundOK
    <2>5. DevOK'
      BY DEF DevOK
    <2>6. DataOK'
      <3>1. CASE pc' = "mapped"
        BY <3>1 DEF DataOK, DevOK
      <3>2. CASE pc' = "delete" /\ call = "data"
        <4>1. data' = 0 .. k
          BY <3>2, Intervals DEF DataOK
        <4> QED
          BY <3>2, <4>1 DEF DataOK
      <3>3. CASE pc' = "delete" /\ call # "data"
        BY <3>3 DEF DataOK
      <3> QED
        BY <3>1, <3>2, <3>3
    <2> QED
      BY <2>1, <2>2, <2>3, <2>4, <2>5, <2>6
  <1>6. CASE Delete
    BY <1>6 DEF Delete, MapTypeOK, ObjectsOK, FdsOK, RoundOK, DevOK, DataOK,
        InMapFromFd, Returned
  <1>7. CASE Mapped
    BY <1>7 DEF Mapped, MapTypeOK, ObjectsOK, FdsOK, RoundOK, DevOK, DataOK,
        InMapFromFd, Returned
  <1>8. CASE NextMap
    <2> USE <1>8 DEF NextMap, MapTypeOK, InMapFromFd, Returned
    <2>1. MapTypeOK'
      OBVIOUS
    <2>2. ObjectsOK'
      BY DEF ObjectsOK
    <2>3. FdsOK'
      BY DEF FdsOK
    <2>4. RoundOK'
      BY RoundsLen DEF RoundOK
    <2>5. DevOK'
      BY DEF DevOK
    <2>6. DataOK'
      <3> Rounds[round] \in Nat \ {0}
        BY RoundSize DEF RoundOK
      <3>1. CASE call = "data"
        BY <3>1 DEF DataOK
      <3>2. CASE call # "data"
        <4>1. data' = 0 .. (k' - 1) /\ k' = 0 /\ pc' = "open"
          BY <3>2 DEF DataOK
        <4> QED
          BY <3>2, <4>1 DEF DataOK
      <3> QED
        BY <3>1, <3>2
    <2> QED
      BY <2>1, <2>2, <2>3, <2>4, <2>5, <2>6
  <1>9. CASE Measure
    BY <1>9, RoundSize DEF Measure, MapTypeOK, ObjectsOK, FdsOK, RoundOK, DevOK, DataOK,
        InMapFromFd, Returned
  <1>10. CASE UnmapData
    <2> USE <1>10 DEF UnmapData, MapTypeOK, InMapFromFd, Returned
    <2>1. MapTypeOK'
      <3>1. {round', k', fds', cfgs', srcs', dev'} \subseteq Nat
        OBVIOUS
      <3>2. data' \subseteq Nat
        OBVIOUS
      <3>3. /\ pc' \in {"source", "granularity", "delete", "mapped", "unmap", "destroy", "open"}
            /\ call' = call /\ map' \in {map, "null", "mapping"}
        OBVIOUS
      <3> QED
        BY <3>1, <3>2, <3>3
    <2>2. ObjectsOK'
      BY DEF ObjectsOK
    <2>3. FdsOK'
      BY DEF FdsOK
    <2>4. RoundOK'
      BY RoundsLen DEF RoundOK
    <2>5. DevOK'
      BY DEF DevOK
    <2>6. DataOK'
      <3> DEFINE b == Rounds[round]
      <3>1. b \in Nat \ {0} /\ call = "data"
        BY RoundSize DEF RoundOK, DevOK
      <3>2. CASE k < b
        <4>1. data' = data \ {k} /\ k' = k + 1 /\ pc' = "unmap" /\ round' = round
          BY <3>2
        <4>2. data = k .. (b - 1)
          BY DEF DataOK
        <4>3. data' = k' .. (b - 1) /\ k' <= b
          BY <3>1, <3>2, <4>1, <4>2, Intervals
        <4> QED
          BY <3>1, <4>1, <4>3 DEF DataOK
      <3>3. CASE ~(k < b)
        <4>1. data = {}
          BY <3>1, <3>3, Intervals DEF DataOK
        <4>2. pc' = "open" => round + 1 \in 1 .. Len(Rounds)
          BY <3>3 DEF RoundOK
        <4>3. data' = {} /\ k' = 0 /\ round' = round + 1 /\ 0 .. (0 - 1) = {}
          BY <3>3, <4>1
        <4> QED
          BY <3>1, <3>3, <4>2, <4>3, RoundSize DEF DataOK
      <3> QED
        BY <3>2, <3>3
    <2> QED
      BY <2>1, <2>2, <2>3, <2>4, <2>5, <2>6
  <1>11. CASE UnmapDevice
    BY <1>11 DEF UnmapDevice, MapTypeOK, ObjectsOK, FdsOK, RoundOK, DevOK, DataOK,
        InMapFromFd, Returned
  <1>12. CASE Ended \/ UNCHANGED vars
    <2> USE <1>12 DEF Ended, vars, InMapFromFd, Returned
    <2>1. MapTypeOK' /\ FdsOK'
      BY DEF MapTypeOK, FdsOK
    <2>2. ObjectsOK'
      BY DEF ObjectsOK
    <2>3. RoundOK' /\ DevOK'
      BY DEF RoundOK, DevOK
    <2>4. DataOK'
      BY DEF DataOK
    <2> QED
      BY <2>1, <2>2, <2>3, <2>4
  <1> QED
    BY <1>1, <1>2, <1>3, <1>4, <1>5, <1>6, <1>7, <1>8, <1>9, <1>10, <1>11, <1>12
    DEF Next, Step

LEMMA MapInvariant == Spec => []MapInv
  BY MapInit, MapStep, PTL DEF Spec

\* Type correctness; in particular the numbers of descriptors and of PMDK
\* objects never go below zero: nothing is released twice.
THEOREM MapTypeCorrect == Spec => []MapTypeOK
  <1>1. MapInv => MapTypeOK
    BY DEF MapInv
  <1> QED
    BY <1>1, MapInvariant, PTL

\* However many rounds and threads there are, what Pmem2MapFromFd leaves
\* behind when it fails does not add up.
THEOREM LeaksDoNotAddCorrect == Spec => []LeaksDoNotAdd
  <1>1. MapInv => LeaksDoNotAdd
    BY DEF MapInv, ObjectsOK, LeaksDoNotAdd
  <1> QED
    BY <1>1, MapInvariant, PTL

\* Every thread of every round measures into a mapped data file of its own.
THEOREM MeasuresMappedCorrect == Spec => []MeasuresMapped
  <1>1. MapInv => MeasuresMapped
    BY DEF MapInv, FdsOK, DevOK, DataOK, MeasuresMapped
  <1> QED
    BY <1>1, MapInvariant, PTL

\* A run that comes to its end has released everything it took.
THEOREM AllReleasedCorrect == Spec => []AllReleased
  <1>1. MapInv => AllReleased
    BY DEF MapInv, ObjectsOK, FdsOK, DevOK, DataOK, AllReleased
  <1> QED
    BY <1>1, MapInvariant, PTL
=============================================================================
