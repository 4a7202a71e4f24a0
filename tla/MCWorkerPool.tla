---------------------------- MODULE MCWorkerPool -----------------------------
(* The instance of WorkerPool for TLC (MCWorkerPool.cfg).                  *)
EXTENDS WorkerPool
=============================================================================
