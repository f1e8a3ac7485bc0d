--------------------------- MODULE TaskLifecycle ---------------------------
(***************************************************************************)
(* What the task store promises about a task, without the status history,  *)
(* the SCHEDULING state and the lease table that implement it: a pending   *)
(* task is taken by one worker, its result counts only while that worker   *)
(* holds it, a failure uses up one of its retries, losing the worker uses  *)
(* up none, and a completed or failed task is finished for good.           *)
(***************************************************************************)
EXTENDS Naturals

CONSTANTS Task, Worker, MaxRetries, NoWorker

VARIABLES
    phase,      \* absent, pending, held, completed or failed
    holder,     \* the worker that holds the task, or NoWorker
    failures    \* how often an execution of the task failed

lifecycleVars == <<phase, holder, failures>>

Init ==
    /\ phase = [t \in Task |-> "absent"]
    /\ holder = [t \in Task |-> NoWorker]
    /\ failures = [t \in Task |-> 0]

Submit(t) ==
    /\ phase[t] = "absent"
    /\ phase' = [phase EXCEPT ![t] = "pending"]
    /\ UNCHANGED <<holder, failures>>

Take(t, w) ==
    /\ phase[t] = "pending" /\ failures[t] < MaxRetries[t]
    /\ phase' = [phase EXCEPT ![t] = "held"]
    /\ holder' = [holder EXCEPT ![t] = w]
    /\ UNCHANGED failures

Complete(t, w) ==
    /\ phase[t] = "held" /\ holder[t] = w
    /\ phase' = [phase EXCEPT ![t] = "completed"]
    /\ holder' = [holder EXCEPT ![t] = NoWorker]
    /\ UNCHANGED failures

Fail(t, w) ==
    /\ phase[t] = "held" /\ holder[t] = w
    /\ failures' = [failures EXCEPT ![t] = @ + 1]
    /\ phase' = [phase EXCEPT ![t] = IF failures[t] + 1 < MaxRetries[t] THEN "pending" ELSE "failed"]
    /\ holder' = [holder EXCEPT ![t] = NoWorker]

\* The workers that hold the tasks of S are given up.
Lose(S) ==
    /\ \A t \in S : phase[t] = "held"
    /\ phase' = [t \in Task |-> IF t \in S THEN "pending" ELSE phase[t]]
    /\ holder' = [t \in Task |-> IF t \in S THEN NoWorker ELSE holder[t]]
    /\ UNCHANGED failures

Next ==
    \/ \E t \in Task : Submit(t)
    \/ \E t \in Task, w \in Worker : Take(t, w) \/ Complete(t, w) \/ Fail(t, w)
    \/ \E S \in SUBSET Task : Lose(S)

LifecycleSpec == Init /\ [][Next]_lifecycleVars
=============================================================================
