----------------------------- MODULE MCExecutor -----------------------------
(* TLC instance of Executor: three tasks, a ready queue of four entries. *)
EXTENDS Executor
=============================================================================
