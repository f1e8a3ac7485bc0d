--------------------------- MODULE WorkerEngine ---------------------------
(***************************************************************************)
(* The worker of every node (worker/engine.go): a goroutine runTask for    *)
(* every assignment it was handed, and the calls MarkRunning, RenewLease   *)
(* and ReportResult it makes to the leader, whose server applies them to   *)
(* the store whoever the leader is by then (server/scheduler.go).          *)
(***************************************************************************)
EXTENDS NodeView, TaskStore

CONSTANT MaxRuns   \* bound: goroutines of one node for the same task

VARIABLE runs      \* the goroutines runTask

(* A goroutine before MarkRunning, inside Execute, and before ReportResult  *)
(* with either outcome.                                                     *)
Run == [node : Node, task : Task, no : 1..MaxRuns, pc : {"starting", "executing", "succeeded", "failed"}]

WorkerTypeOK == runs \subseteq Run

WorkerInit == runs = {}

-----------------------------------------------------------------------------
RunsOf(n, t) == {r \in runs : r.node = n /\ r.task = t}

\* HandleAssignment: go e.runTask(a).  Nothing is remembered of the assignments
\* the worker already has.
HandleAssignment(n, t) ==
    \E i \in 1..MaxRuns :
        /\ \A r \in RunsOf(n, t) : r.no # i
        /\ \A j \in 1..(i - 1) : \E r \in RunsOf(n, t) : r.no = j
        /\ runs' = runs \cup {[node |-> n, task |-> t, no |-> i, pc |-> "starting"]}

Returns(r) == runs' = runs \ {r}

Proceeds(r, pc) == runs' = (runs \ {r}) \cup {[r EXCEPT !.pc = pc]}

\* The call reaches the server of the node the caller takes for the leader.
Reaches(n) == HasLeaderAddr(n) /\ leader[n] \in up

(* A call to the leader that is answered, that fails because there is no    *)
(* leader to reach or because the store refuses it, or that times out       *)
(* before or after the store has committed it.                              *)
Answered(r, Transaction) == Reaches(r.node) /\ Transaction /\ UNCHANGED viewVars

Refused(r, ok) == (~Reaches(r.node) \/ ~ok) /\ UNCHANGED <<viewVars, storeVars>>

TimesOut(r, Transaction) == Reaches(r.node) /\ Fault /\ (Transaction \/ UNCHANGED storeVars)

-----------------------------------------------------------------------------
startTask(r) ==
    LET t == r.task
        w == r.node
    IN /\ r \in runs /\ r.pc = "starting"
       /\ \/ Answered(r, MarkRunning(t, w)) /\ Proceeds(r, "executing")
          \/ Refused(r, MarkRunningOK(t, w)) /\ Returns(r)
          \/ TimesOut(r, MarkRunning(t, w)) /\ Returns(r)

\* The executor returns, with an error or without.
Execute(r) ==
    /\ r \in runs /\ r.pc = "executing"
    /\ Proceeds(r, "succeeded") \/ Proceeds(r, "failed")
    /\ UNCHANGED <<viewVars, storeVars>>

\* ReportResult is called once; whatever comes back, runTask returns.
reportSuccess(r) ==
    LET t == r.task
        w == r.node
    IN /\ r \in runs /\ r.pc = "succeeded"
       /\ \/ Answered(r, MarkCompleted(t, w))
          \/ Refused(r, MarkCompletedOK(t, w))
          \/ TimesOut(r, MarkCompleted(t, w))
       /\ Returns(r)

reportFailure(r) ==
    LET t == r.task
        w == r.node
    IN /\ r \in runs /\ r.pc = "failed"
       /\ \/ Answered(r, MarkFailed(t, w))
          \/ Refused(r, MarkFailedOK(t, w))
          \/ TimesOut(r, MarkFailed(t, w))
       /\ Returns(r)

\* renewLoop runs from MarkRunning until runTask returns.
Renewing(r) == r.pc # "starting"

renew(r) ==
    /\ r \in runs /\ Renewing(r)
    /\ r.task \in expired
    /\ Answered(r, RenewLease(r.task, r.node))
    /\ UNCHANGED runs

WorkerStep(r) == startTask(r) \/ Execute(r) \/ reportSuccess(r) \/ reportFailure(r) \/ renew(r)
=============================================================================
