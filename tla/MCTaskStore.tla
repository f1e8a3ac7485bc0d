---------------------------- MODULE MCTaskStore ----------------------------
(* Instances of TaskStore for TLC.                                          *)
EXTENDS TaskStore

\* Task 1 may never be tried, task 2 once, task 3 twice.
MCMaxRetries == [t \in Task |-> t - 1]
=============================================================================
