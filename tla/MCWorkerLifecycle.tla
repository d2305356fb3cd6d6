-------------------------- MODULE MCWorkerLifecycle --------------------------
(* Model values for WorkerLifecycle. *)
EXTENDS WorkerLifecycle

CONSTANTS t1, t2

TwoTasks == {t1, t2}
==============================================================================
