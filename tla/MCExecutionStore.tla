-------------------------- MODULE MCExecutionStore --------------------------
(* ExecutionStore for TLC; Execution.cfg gives the constants.               *)
EXTENDS ExecutionStore
=============================================================================
