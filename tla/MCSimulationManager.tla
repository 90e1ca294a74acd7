------------------------ MODULE MCSimulationManager ------------------------
(* One run and the two threads it may be given at the most, one of them      *)
(* ending while the other starts.  Runs share the execution lock and nothing *)
(* else, and OthersLock stands for every other holder of it.                 *)
EXTENDS SimulationManager, TLC

CONSTANTS s1, w1, w2
=============================================================================
