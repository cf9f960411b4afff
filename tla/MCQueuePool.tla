---------------------------- MODULE MCQueuePool ----------------------------
(* The instance of QueuePool that TLC checks: see QueuePool.cfg. *)
EXTENDS QueuePool
=============================================================================
