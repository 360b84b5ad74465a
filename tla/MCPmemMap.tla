----------------------------- MODULE MCPmemMap -----------------------------
(***************************************************************************)
(* vary_thread_num with three rounds.                                      *)
(***************************************************************************)
EXTENDS PmemMap

ThreeRounds == <<1, 2, 4>>
=============================================================================
