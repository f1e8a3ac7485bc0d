---------------------------- MODULE TaskStoreTx ----------------------------
(***************************************************************************)
(* The store once more, one step per SQL statement: the transactions of    *)
(* task/store.go at PostgreSQL's READ COMMITTED level.  A statement sees   *)
(* what is committed when it starts; nothing keeps a value that was read   *)
(* and checked from changing before the commit except the row locks: FOR   *)
(* UPDATE of claims and recoveries, the lock of a changed lease row, and   *)
(* the FOR KEY SHARE of the foreign key that a new status row takes on its *)
(* task row.  The latest status of a task is the one with the greatest     *)
(* created_at, which is the beginning of the transaction that inserted it. *)
(***************************************************************************)
EXTENDS TaskStore

CONSTANTS
    Scheduler,   \* the scheduler loops, each with one call under way at a time
    BatchSize

ASSUME ClientAssumption == Scheduler \cap Worker = {} /\ NoWorker \notin Scheduler /\ BatchSize \in Nat

VARIABLES
    tx,          \* the transaction of each client
    duty,        \* the tasks a scheduler has claimed in its tick, those a worker was ever handed
    sent,        \* the assignment a scheduler has just made, whose dispatch may fail
    disturbed    \* history: the tasks on which conflicting transactions met

clientVars == <<duty, sent>>
txVars == <<storeVars, tx, clientVars, disturbed>>

\* The server handles the reports of a worker for it.
Client == Scheduler \cup Worker

Recoveries == {"RecoverExpiredLeases", "RecoverDeadWorkerLeases"}
Reports    == {"MarkRunning", "MarkCompleted", "MarkFailed"}
RowMethods == {"ClaimQueued", "RecoverStaleScheduling"}
Methods    == Recoveries \cup Reports \cup RowMethods \cup {"MarkAssigned", "MarkWorkerLost"}

\* The next statement of a transaction.
TxPC == {"none", "owner", "status", "select", "lock", "insert", "lease", "count", "commit"}

NoTx == [method |-> "none", pc |-> "none", worker |-> NoWorker,
         todo |-> {},     \* the tasks it has selected and not yet written or locked
         tasks |-> {},    \* the tasks it has inserted a status for, or holds FOR UPDATE
         leases |-> {},   \* the lease rows it has locked, to change them or not
         last |-> "QUEUED",
         due |-> {},      \* for a recovery: the leases that had expired when it began, NOW()
         older |-> {},    \* the open transactions that began before it
         late |-> {}]     \* the tasks with a committed status of a younger transaction

TxTypeOK ==
    /\ StoreTypeOK
    /\ tx \in [Client -> [method : Methods \cup {"none"}, pc : TxPC, worker : Worker \cup {NoWorker},
                          todo : SUBSET Task, tasks : SUBSET Task, leases : SUBSET Task, last : States,
                          due : SUBSET Task, older : SUBSET Client, late : SUBSET Task]]
    /\ duty \in [Client -> SUBSET Task]
    /\ sent \in [Scheduler -> SUBSET (Task \X Worker)]
    /\ disturbed \subseteq Task

TxInit ==
    /\ StoreInit
    /\ tx = [c \in Client |-> NoTx]
    /\ duty = [c \in Client |-> {}]
    /\ sent = [c \in Scheduler |-> {}]
    /\ disturbed = {}

-----------------------------------------------------------------------------
Open == {c \in Client : tx[c].method # "none"}

Others(c) == Open \ {c}

\* The tasks a transaction is about.
Touched(c) == tx[c].todo \cup tx[c].tasks

TaskOf(c) == CHOOSE t \in Touched(c) : TRUE

\* Mutant: every transaction locks the tasks it writes to FOR UPDATE.
EveryRowLock(c) == tx[c].tasks

\* Task rows locked FOR UPDATE, by FOR KEY SHARE, and locked lease rows.
RowLocks(c)   == IF tx[c].method \in RowMethods THEN tx[c].tasks ELSE {}
ShareLocks(c) == IF tx[c].method \in RowMethods THEN {} ELSE tx[c].tasks
LeaseLocks(c) == tx[c].leases

\* DELETE and ON CONFLICT DO UPDATE only wait for a row they would change.
ChangesLease(c) == tx[c].method = "MarkAssigned" \/ lease[TaskOf(c)] = tx[c].worker

\* The transactions whose locks the next statement waits for.
Blockers(c) ==
    CASE tx[c].pc = "insert" -> {d \in Others(c) : RowLocks(d) \cap tx[c].todo # {}}
      [] tx[c].pc = "lease" /\ ChangesLease(c) -> {d \in Others(c) : TaskOf(c) \in LeaseLocks(d)}
      [] OTHER -> {}

-----------------------------------------------------------------------------
(* Beginning and end of a transaction.                                      *)

\* One changes the lease, the other has it checked.
Conflict(m, n) ==
    {m, n} \cap Reports # {} /\ {m, n} \cap (Recoveries \cup {"MarkAssigned", "MarkWorkerLost"}) # {}

\* Of the tasks in S, those on which the transaction of c meets another one it
\* conflicts with, or one of another scheduler.  A recovery of leases also meets one
\* that has begun after it and is over, since its rows will not be the latest.
Meets(c, method, S) ==
    {t \in S : \/ method \in Recoveries /\ t \in tx[c].late
               \/ \E d \in Others(c) : /\ t \in Touched(d)
                                       /\ Conflict(method, tx[d].method) \/ {c, d} \subseteq Scheduler}

Begin(c, method, pc, w, S) ==
    /\ c \notin Open
    /\ tx' = [tx EXCEPT ![c] = [NoTx EXCEPT !.method = method, !.pc = pc, !.worker = w, !.todo = S,
                                            !.due = IF method = "RecoverExpiredLeases" THEN expired ELSE {},
                                            !.older = Open]]
    /\ disturbed' = disturbed \cup Meets(c, method, S)
    /\ UNCHANGED storeVars

\* Scheduler.tick: a recovery or a claim; MarkAssigned of a claimed task;
\* MarkWorkerLost when the dispatch that follows it has failed.
BeginScheduler(c) ==
    \/ /\ \E m \in RowMethods \cup Recoveries : Begin(c, m, "select", NoWorker, {})
       /\ duty' = [duty EXCEPT ![c] = {}] /\ sent' = [sent EXCEPT ![c] = {}]
    \/ \E t \in duty[c], w \in Worker :
          /\ Begin(c, "MarkAssigned", "status", w, {t})
          /\ duty' = [duty EXCEPT ![c] = @ \ {t}] /\ sent' = [sent EXCEPT ![c] = {}]
    \/ \E a \in sent[c] :
          /\ Begin(c, "MarkWorkerLost", "status", a[2], {a[1]})
          /\ sent' = [sent EXCEPT ![c] = {}] /\ UNCHANGED duty

\* The goroutine of any assignment the worker was handed may still report.
BeginReport(c) ==
    /\ \E m \in Reports, t \in duty[c] : Begin(c, m, "owner", c, {t})
    /\ UNCHANGED clientVars

\* Nothing is open any more that began before c.
Ends(c, written) ==
    tx' = [d \in Client |->
              IF d = c THEN NoTx
              ELSE [tx[d] EXCEPT !.older = @ \ {c},
                                 !.late = IF d \in tx[c].older THEN @ \cup written ELSE @]]

Rollback(c) == c \in Open /\ Ends(c, {}) /\ UNCHANGED <<storeVars, clientVars, disturbed>>

At(c, pc) == tx[c].pc = pc

\* The next statement, or the return with an error.
Proceed(c, ok, s) ==
    /\ IF ok THEN tx' = [tx EXCEPT ![c] = s] ELSE Ends(c, {})
    /\ UNCHANGED <<storeVars, clientVars, disturbed>>

-----------------------------------------------------------------------------
(* The statements.                                                          *)

\* ensureLeaseOwner
checkLeaseOwner(c) ==
    /\ At(c, "owner")
    /\ Proceed(c, lease[TaskOf(c)] = tx[c].worker, [tx[c] EXCEPT !.pc = "status"])

Allowed(method) ==
    CASE method = "MarkAssigned" -> {"SCHEDULING"}
      [] method = "MarkCompleted" -> {"RUNNING"}
      [] OTHER -> Active

\* latestStatus, ensureLatestStatusIn
checkStatus(c) ==
    /\ At(c, "status")
    /\ Proceed(c, status[TaskOf(c)] \in Allowed(tx[c].method), [tx[c] EXCEPT !.pc = "insert"])

\* Mutant: MarkCompleted leaves the lease.
CompletedKeepsLease(c, t) ==
    CASE tx[c].method \in Recoveries -> IF tx[c].todo = {t} THEN "commit" ELSE "insert"
      [] tx[c].method \in {"MarkRunning", "MarkCompleted"} -> "commit"
      [] OTHER -> "lease"

AfterInsert(c, t) ==
    CASE tx[c].method \in Recoveries -> IF tx[c].todo = {t} THEN "commit" ELSE "insert"
      [] tx[c].method = "MarkRunning" -> "commit"
      [] OTHER -> "lease"

\* Mutant: no foreign key, no lock.
insertWithoutLock(c) ==
    /\ At(c, "insert")
    /\ \E t \in tx[c].todo :
          Proceed(c, TRUE, [tx[c] EXCEPT !.todo = @ \ {t}, !.tasks = @ \cup {t}, !.pc = AfterInsert(c, t)])

\* insertStatus; for a recovery the deletion of the lease it has locked and the
\* QUEUED row follow without waiting.
insertStatus(c) ==
    /\ At(c, "insert") /\ Blockers(c) = {}
    /\ \E t \in tx[c].todo :
          Proceed(c, TRUE, [tx[c] EXCEPT !.todo = @ \ {t}, !.tasks = @ \cup {t}, !.pc = AfterInsert(c, t)])

\* upsert_lease.sql, delete_lease.sql
changeLease(c) ==
    /\ At(c, "lease") /\ Blockers(c) = {}
    /\ Proceed(c, TRUE, [tx[c] EXCEPT !.leases = IF ChangesLease(c) THEN tx[c].tasks ELSE {},
                                      !.pc = IF tx[c].method = "MarkFailed" THEN "count" ELSE "commit"])

\* count_failed.sql sees the row this transaction has inserted, and decides
\* whether a QUEUED row follows.
countFailed(c) ==
    LET t == TaskOf(c)
    IN /\ At(c, "count")
       /\ Proceed(c, TRUE, [tx[c] EXCEPT !.pc = "commit",
                                         !.last = IF failed[t] + 1 < MaxRetries[t] THEN "QUEUED" ELSE "FAILED"])

\* Mutant: rows are selected and not locked.
UnlockedLeases(c, rows, lost) == [tx[c] EXCEPT !.todo = lost, !.due = {}, !.pc = "insert"]

LockedLeases(c, rows, lost) == [tx[c] EXCEPT !.leases = rows, !.todo = lost, !.due = {}, !.pc = "insert"]

\* select_expired_leases.sql, select_active_leases.sql: FOR UPDATE SKIP LOCKED looks
\* at a row once more when it locks it, so that the rows are as they are now.  The
\* second one locks every lease; those of dead workers are picked out afterwards.
\* When nothing is lost only the deferred Rollback is left.
selectLeases(c) ==
    /\ At(c, "select") /\ tx[c].method \in Recoveries
    /\ \E alive \in IF tx[c].method = "RecoverExpiredLeases" THEN {{}} ELSE SUBSET Worker :
         LET held == UNION {LeaseLocks(d) : d \in Others(c)}
             rows == IF tx[c].method = "RecoverExpiredLeases" THEN (tx[c].due \cap expired) \ held
                     ELSE {t \in Task : lease[t] # NoWorker} \ held
             lost == rows \cap DeadLeases(alive)
         IN /\ tx' = [tx EXCEPT ![c] = LockedLeases(c, rows, lost)]
            /\ disturbed' = disturbed \cup Meets(c, tx[c].method, lost)
    /\ UNCHANGED <<storeVars, clientVars>>

\* The snapshot of claim_queued.sql and of select_stale_scheduling.sql.
snapshot(c) ==
    LET rows == IF tx[c].method = "ClaimQueued" THEN Claimable ELSE StaleScheduling
    IN /\ At(c, "select") /\ tx[c].method \in RowMethods
       /\ IF rows # {} THEN tx' = [tx EXCEPT ![c].todo = rows, ![c].pc = "lock"] ELSE Ends(c, {})
       /\ disturbed' = disturbed \cup Meets(c, tx[c].method, rows)
       /\ UNCHANGED <<storeVars, clientVars>>

\* FOR UPDATE OF t SKIP LOCKED, row by row.  Nobody updates a task row, so the row is
\* not looked at again: its latest status may have changed since the snapshot.
lockRow(c) ==
    /\ At(c, "lock")
    /\ \E t \in IF tx[c].method = "ClaimQueued" THEN FirstOf(tx[c].todo, 1) ELSE tx[c].todo :
         LET free  == \A d \in Others(c) : t \notin RowLocks(d) \cup ShareLocks(d)
             tasks == IF free THEN tx[c].tasks \cup {t} ELSE tx[c].tasks
             done  == \/ tx[c].todo = {t}
                      \/ tx[c].method = "ClaimQueued" /\ Cardinality(tasks) = BatchSize
         IN Proceed(c, ~(done /\ tasks = {}),
                    [tx[c] EXCEPT !.tasks = tasks,
                                  !.todo = IF done THEN {} ELSE @ \ {t},
                                  !.pc = IF done THEN "commit" ELSE "lock"])

LastStatus(c) ==
    CASE tx[c].method = "ClaimQueued" -> "SCHEDULING"
      [] tx[c].method = "MarkAssigned" -> "ASSIGNED"
      [] tx[c].method = "MarkRunning" -> "RUNNING"
      [] tx[c].method = "MarkCompleted" -> "COMPLETED"
      [] OTHER -> tx[c].last

\* The tasks of which the rows of c are the latest, by created_at.
WrittenLatest(c) == tx[c].tasks \ tx[c].late

\* The lease rows that are deleted or upserted.
ChangedLeases(c) == tx[c].leases \cap tx[c].tasks

\* Mutant: a deleted lease stays among the expired ones.
UpsertedLeases(c) == IF tx[c].method = "MarkAssigned" THEN ChangedLeases(c) ELSE {}

\* The old expires_at of a changed row is gone.
ReplacedLeases(c) == ChangedLeases(c)

\* What the caller makes of the answer: the claimed tasks, the dispatch to the worker.
Informs(c) ==
    CASE tx[c].method = "ClaimQueued" -> duty' = [duty EXCEPT ![c] = tx[c].tasks] /\ UNCHANGED sent
      [] tx[c].method = "MarkAssigned" ->
            /\ duty' = [duty EXCEPT ![tx[c].worker] = @ \cup tx[c].tasks]
            /\ sent' = [sent EXCEPT ![c] = {<<t, tx[c].worker>> : t \in tx[c].tasks}]
      [] OTHER -> UNCHANGED clientVars

commit(c) ==
    /\ At(c, "commit")
    /\ Ends(c, tx[c].tasks)
    /\ status' = [t \in Task |-> IF t \in WrittenLatest(c) THEN LastStatus(c) ELSE status[t]]
    /\ failed' = [t \in Task |-> IF tx[c].method = "MarkFailed" /\ t \in tx[c].tasks
                                 THEN failed[t] + 1 ELSE failed[t]]
    /\ lease' = [t \in Task |-> IF t \notin ChangedLeases(c) THEN lease[t]
                                ELSE IF tx[c].method = "MarkAssigned" THEN tx[c].worker ELSE NoWorker]
    /\ expired' = expired \ ReplacedLeases(c)
    /\ Informs(c)
    /\ UNCHANGED disturbed

\* RenewLease is a statement of its own; it waits for the lock of the row.
renewLease(w) ==
    /\ \E t \in Task : RenewLease(t, w) /\ t \in expired /\ \A d \in Open : t \notin LeaseLocks(d)
    /\ UNCHANGED <<tx, clientVars, disturbed>>

TxStep(c) ==
    \/ checkLeaseOwner(c) \/ checkStatus(c) \/ insertStatus(c) \/ changeLease(c) \/ countFailed(c)
    \/ selectLeases(c) \/ snapshot(c) \/ lockRow(c) \/ commit(c) \/ Rollback(c)

\* The transaction that inserts a task from outside, which may have begun before or
\* after the open ones: S are those it is younger than.
insertTask(t) ==
    /\ Submit(t)
    /\ \E S \in SUBSET Open :
          /\ \A c \in S : tx[c].older \subseteq S
          /\ tx' = [c \in Client |-> IF c \in S THEN [tx[c] EXCEPT !.late = @ \cup {t}] ELSE tx[c]]
    /\ UNCHANGED <<clientVars, disturbed>>

TxNext ==
    \/ \E t \in Task : insertTask(t) \/ (LeaseExpires(t) /\ UNCHANGED <<tx, clientVars, disturbed>>)
    \/ \E c \in Scheduler : BeginScheduler(c)
    \/ \E c \in Worker : BeginReport(c) \/ renewLease(c)
    \/ \E c \in Client : TxStep(c)

TxSpec == TxInit /\ [][TxNext]_txVars

-----------------------------------------------------------------------------
(* Properties.                                                              *)

\* No transactions wait for one another, though a recovery of dead workers' leases
\* locks the leases of the living too: a claim waits for nobody, a recovery that holds
\* leases only for the task rows of claims, a report or an assignment for either
\* (SKIP LOCKED in claim_queued.sql, select_expired_leases.sql and
\* select_active_leases.sql; store.go:365-377, 396-421, 220-230).
NoCircularWait ==
    ~ \E S \in SUBSET Open : S # {} /\ \A c \in S : Blockers(c) \cap S # {}

\* What a recovery has selected stays as it is until it commits: no other recovery
\* requeues the task too, no late renewal saves the lease that is being given up
\* (FOR UPDATE in select_expired_leases.sql; renew_lease.sql).
RecoveryKeepsLease ==
    \A c \in Open : tx[c].method \in Recoveries /\ tx[c].pc \in {"insert", "commit"} =>
        \A t \in Touched(c) : /\ lease[t] # NoWorker
                              /\ tx[c].method = "RecoverExpiredLeases" => t \in expired

\* While a claim holds a task, from the lock of its row to the commit, nobody else
\* gives the task a new status (claim_queued.sql, task_status.task_id REFERENCES task).
ClaimHoldsTask ==
    [][\A c \in Open : tx'[c].tasks = tx[c].tasks => \A t \in RowLocks(c) : status'[t] = status[t]]_txVars

\* Until a report of a worker meets the assignment or the recovery of its lease, or
\* two schedulers meet on a task, the transactions do what the atomic ones of module
\* TaskStore do: claims, reports, renewals and rollbacks overlap in any way, a claim
\* is overtaken by the report that has queued its task, and the life cycle is kept
\* (store.go:157-335; design.md, Task Lifecycle).
UndisturbedLifecycle ==
    [][disturbed' = {} => [Lifecycle!Next]_(Lifecycle!lifecycleVars)]_txVars
=============================================================================
