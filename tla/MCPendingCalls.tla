--------------------------- MODULE MCPendingCalls ---------------------------
(***************************************************************************)
(* Instances of PendingCalls for TLC: the main thread and another one.     *)
(***************************************************************************)
EXTENDS PendingCalls

CONSTANT worker

\* The jobs are registered by the worker, or there are none.
WorkerJob == [t \in Thread |-> IF t = worker THEN Job ELSE {}]
NoJob == [t \in Thread |-> {}]
=============================================================================
