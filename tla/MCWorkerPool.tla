---------------------------- MODULE MCWorkerPool ------------------------------
(***************************************************************************)
(* Instances of WorkerPool for TLC.                                        *)
(***************************************************************************)
EXTENDS WorkerPool

CONSTANTS w1, w2, w3

ThreeWorkers == {w1, w2, w3}
AllPoolFaults == PoolFaultKind
AllTransports == {"stdio", "http", "direct"}
==============================================================================
