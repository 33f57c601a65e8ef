------------------------- MODULE MCWorkerCollector -------------------------
(* Model-checking instance of WorkerCollector. *)
EXTENDS WorkerCollector
=============================================================================
