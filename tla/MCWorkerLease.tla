---------------------------- MODULE MCWorkerLease ----------------------------
(* Two executions of one run, in two processes.                              *)
EXTENDS WorkerLease, TLC

CONSTANTS w1, w2, p1, p2

MCHost == w1 :> p1 @@ w2 :> p2
==============================================================================
