----------------------------- MODULE TaskStore -----------------------------
(***************************************************************************)
(* PostgresStore (task/store.go and task/sql): the status history and the  *)
(* lease of every task.  Of the append-only history the code only reads    *)
(* the latest status and the number of FAILED rows, so these are the       *)
(* state.  One action is one committed transaction; a transaction that is  *)
(* refused by its checks returns an error and is no step.                  *)
(***************************************************************************)
EXTENDS Naturals, FiniteSets

CONSTANTS
    Task,         \* tasks, numbered in the order of task.created_at
    Worker,       \* node ids
    MaxRetries,   \* task.max_retries
    NoWorker

ASSUME TaskAssumption ==
    /\ Task \subseteq Nat /\ IsFiniteSet(Task)
    /\ MaxRetries \in [Task -> Nat]
    /\ NoWorker \notin Worker

VARIABLES
    status,    \* the latest status of a task, ABSENT before it is inserted
    failed,    \* its number of FAILED rows
    lease,     \* task_lease.worker_id, NoWorker if there is no row
    expired    \* the tasks whose lease has expires_at < NOW()

storeVars == <<status, failed, lease, expired>>

States == {"QUEUED", "SCHEDULING", "ASSIGNED", "RUNNING", "FAILED", "WORKER_LOST", "COMPLETED"}

Active   == {"ASSIGNED", "RUNNING"}
Terminal == {"COMPLETED", "FAILED"}

StoreTypeOK ==
    /\ status \in [Task -> States \cup {"ABSENT"}]
    /\ failed \in [Task -> Nat]
    /\ lease \in [Task -> Worker \cup {NoWorker}]
    /\ expired \subseteq {t \in Task : lease[t] # NoWorker}

StoreInit ==
    /\ status = [t \in Task |-> "ABSENT"]
    /\ failed = [t \in Task |-> 0]
    /\ lease = [t \in Task |-> NoWorker]
    /\ expired = {}

-----------------------------------------------------------------------------
\* Tasks are inserted, with their first QUEUED row, from outside the program.
Submit(t) ==
    /\ status[t] = "ABSENT"
    /\ status' = [status EXCEPT ![t] = "QUEUED"]
    /\ UNCHANGED <<failed, lease, expired>>

\* Time passes.
LeaseExpires(t) ==
    /\ lease[t] # NoWorker /\ t \notin expired
    /\ expired' = expired \cup {t}
    /\ UNCHANGED <<status, failed, lease>>

-----------------------------------------------------------------------------
(* Claiming.                                                                *)

\* Mutant: some row of the history is QUEUED, not the latest.
ClaimableOnce == {t \in Task : status[t] # "ABSENT" /\ failed[t] < MaxRetries[t]}

Claimable == {t \in Task : status[t] \in {"QUEUED", "WORKER_LOST"} /\ failed[t] < MaxRetries[t]}

\* ORDER BY created_at LIMIT batchSize
FirstOf(S, batchSize) == {t \in S : Cardinality({u \in S : u < t}) < batchSize}

ClaimQueued(batchSize) ==
    LET tasks == FirstOf(Claimable, batchSize)
    IN /\ status' = [t \in Task |-> IF t \in tasks THEN "SCHEDULING" ELSE status[t]]
       /\ UNCHANGED <<failed, lease, expired>>

\* Mutant: an inner join with task_lease.
StaleLeasedScheduling == {t \in Task : status[t] = "SCHEDULING" /\ lease[t] # NoWorker}

\* select_stale_scheduling.sql
StaleScheduling == {t \in Task : status[t] = "SCHEDULING" /\ lease[t] = NoWorker}

RecoverStaleScheduling ==
    /\ status' = [t \in Task |-> IF t \in StaleScheduling THEN "QUEUED" ELSE status[t]]
    /\ UNCHANGED <<failed, lease, expired>>

-----------------------------------------------------------------------------
(* The life of a lease.                                                     *)

\* Mutant: an assigned task may be assigned once more.
MarkAssignedAgainOK(t) == status[t] \in {"SCHEDULING", "ASSIGNED"}

MarkAssignedOK(t) == status[t] = "SCHEDULING"

MarkAssigned(t, w) ==
    /\ MarkAssignedOK(t)
    /\ status' = [status EXCEPT ![t] = "ASSIGNED"]
    /\ lease' = [lease EXCEPT ![t] = w]
    /\ expired' = expired \ {t}
    /\ UNCHANGED failed

\* The row is renewed whether it has expired or not.
RenewLeaseOK(t, w) == lease[t] = w

RenewLease(t, w) ==
    /\ RenewLeaseOK(t, w)
    /\ expired' = expired \ {t}
    /\ UNCHANGED <<status, failed, lease>>

\* Mutant: worker_id is cleared and the row stays.
ClearLease(t, w) ==
    /\ lease' = IF lease[t] = w THEN [lease EXCEPT ![t] = NoWorker] ELSE lease
    /\ UNCHANGED expired

\* DELETE FROM task_lease WHERE task_id = t AND worker_id = w
DeleteLease(t, w) ==
    /\ lease' = IF lease[t] = w THEN [lease EXCEPT ![t] = NoWorker] ELSE lease
    /\ expired' = IF lease[t] = w THEN expired \ {t} ELSE expired

\* Mutant: ensureLeaseOwner is lost.
OwnedByAnyone(t, w, allowed) == status[t] \in allowed

\* ensureLeaseOwner and ensureLatestStatusIn
OwnedIn(t, w, allowed) == lease[t] = w /\ status[t] \in allowed

MarkRunningOK(t, w) == OwnedIn(t, w, Active)

MarkRunning(t, w) ==
    /\ MarkRunningOK(t, w)
    /\ status' = [status EXCEPT ![t] = "RUNNING"]
    /\ UNCHANGED <<failed, lease, expired>>

MarkCompletedOK(t, w) == OwnedIn(t, w, {"RUNNING"})

MarkCompleted(t, w) ==
    /\ MarkCompletedOK(t, w)
    /\ status' = [status EXCEPT ![t] = "COMPLETED"]
    /\ DeleteLease(t, w)
    /\ UNCHANGED failed

MarkFailedOK(t, w) == OwnedIn(t, w, Active)

\* Mutant: the failures are counted before the FAILED row is inserted.
MarkFailedCountsFirst(t, w) ==
    /\ MarkFailedOK(t, w)
    /\ failed' = [failed EXCEPT ![t] = @ + 1]
    /\ status' = [status EXCEPT ![t] = IF failed[t] < MaxRetries[t] THEN "QUEUED" ELSE "FAILED"]
    /\ DeleteLease(t, w)

\* The FAILED row just inserted is counted before it is compared.
MarkFailed(t, w) ==
    /\ MarkFailedOK(t, w)
    /\ failed' = [failed EXCEPT ![t] = @ + 1]
    /\ status' = [status EXCEPT ![t] = IF failed[t] + 1 < MaxRetries[t] THEN "QUEUED" ELSE "FAILED"]
    /\ DeleteLease(t, w)

\* The owner of the lease is not checked.
MarkWorkerLostOK(t) == status[t] \in Active

\* WORKER_LOST and QUEUED are inserted by the same transaction.
MarkWorkerLost(t, w) ==
    /\ MarkWorkerLostOK(t)
    /\ status' = [status EXCEPT ![t] = "QUEUED"]
    /\ DeleteLease(t, w)
    /\ UNCHANGED failed

-----------------------------------------------------------------------------
(* Recovery of leases: WORKER_LOST, the lease deleted, QUEUED.              *)

\* Mutant: every lease is deleted but only running tasks are requeued.
RequeueRunning(S) ==
    /\ status' = [t \in Task |-> IF t \in S /\ status[t] = "RUNNING" THEN "QUEUED" ELSE status[t]]
    /\ lease' = [t \in Task |-> IF t \in S THEN NoWorker ELSE lease[t]]
    /\ expired' = expired \ S
    /\ UNCHANGED failed

Requeue(S) ==
    /\ status' = [t \in Task |-> IF t \in S THEN "QUEUED" ELSE status[t]]
    /\ lease' = [t \in Task |-> IF t \in S THEN NoWorker ELSE lease[t]]
    /\ expired' = expired \ S
    /\ UNCHANGED failed

RecoverExpiredLeases == Requeue(expired)

\* Mutant: a takeover gives up every lease.
AllLeases(alive) == {t \in Task : lease[t] # NoWorker}

\* alive: the members of the scheduler's view, without the scheduler itself.
DeadLeases(alive) == {t \in Task : lease[t] # NoWorker /\ lease[t] \notin alive}

RecoverDeadWorkerLeases(alive) == Requeue(DeadLeases(alive))

-----------------------------------------------------------------------------
(* The store under any clients: every method with any arguments at any      *)
(* time, as several schedulers and workers may call it.                     *)

StoreNext ==
    \/ \E t \in Task : Submit(t) \/ LeaseExpires(t)
    \/ \E k \in 1..Cardinality(Task) : ClaimQueued(k)
    \/ RecoverStaleScheduling \/ RecoverExpiredLeases
    \/ \E alive \in SUBSET Worker : RecoverDeadWorkerLeases(alive)
    \/ \E t \in Task, w \in Worker :
          \/ MarkAssigned(t, w) \/ RenewLease(t, w) \/ MarkRunning(t, w)
          \/ MarkCompleted(t, w) \/ MarkFailed(t, w) \/ MarkWorkerLost(t, w)

StoreSpec == StoreInit /\ [][StoreNext]_storeVars

-----------------------------------------------------------------------------
(* Properties.                                                              *)

\* An assigned or running task has a lease: whatever stops its worker, the
\* expiry of that lease returns it to the queue.
ActiveIsLeased == \A t \in Task : status[t] \in Active => lease[t] # NoWorker

\* A finished task has no lease.  RecoverExpiredLeases and RecoverDeadWorkerLeases
\* requeue whatever has one, without a look at its status (store.go:365-377, 423-435).
TerminalIsUnleased == \A t \in Task : status[t] \in Terminal => lease[t] = NoWorker

\* A task is executed only while it has retries left, and FAILED is its latest
\* status exactly when it has used them up (claim_queued.sql and MarkFailed
\* compare the count before and after the new FAILED row).
RetryBudget ==
    \A t \in Task :
        /\ failed[t] <= MaxRetries[t]
        /\ status[t] \in Active \cup {"SCHEDULING"} => failed[t] < MaxRetries[t]
        /\ status[t] = "FAILED" <=> failed[t] = MaxRetries[t] /\ MaxRetries[t] > 0

\* No call, in whatever order they come, takes a task out of COMPLETED or FAILED
\* or takes back a failure.
TerminalIsFinal ==
    [][\A t \in Task : /\ status[t] \in Terminal => status'[t] = status[t]
                       /\ failed'[t] >= failed[t]]_storeVars

(* The refinement mapping: what the latest status and the lease of a task   *)
(* say of its life cycle.                                                   *)
LifePhase(s) ==
    CASE s = "ABSENT" -> "absent"
      [] s \in Active -> "held"
      [] s = "COMPLETED" -> "completed"
      [] s = "FAILED" -> "failed"
      [] OTHER -> "pending"

LifeHolder(s, l) == IF s \in Active THEN l ELSE NoWorker

Lifecycle == INSTANCE TaskLifecycle WITH
    phase <- [t \in Task |-> LifePhase(status[t])],
    holder <- [t \in Task |-> LifeHolder(status[t], lease[t])],
    failures <- failed

\* The store implements the life cycle: a task is taken by a second worker only
\* after the first has finished or was given up, only a failed execution costs a
\* retry, and nothing leads back from a finished task (design.md, Task Lifecycle).
ImplementsLifecycle == Lifecycle!LifecycleSpec
=============================================================================
