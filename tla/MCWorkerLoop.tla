---------------------------- MODULE MCWorkerLoop ----------------------------
(* TLC instances of WorkerLoop. *)
EXTENDS WorkerLoop, TLC

=============================================================================
