---------------------------- MODULE MCWorkerLock ----------------------------
(* A worker's lock with two thieves, for TLC. *)
EXTENDS WorkerLock
=============================================================================
