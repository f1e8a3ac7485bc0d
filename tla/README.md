# Verification of pi-bully

TLA+ modules for the pi-bully cluster (leader election, task store, scheduler,
worker, executor, the node process), TLC runs on small instances, and TLAPS proofs for any instance.
Paths below are relative to `src/`; `PROJECT.json` maps every definition to its lines.

## The system

Every node runs the same process (`cmd/node/main.go`):

| part | code | modules |
|---|---|---|
| election state | `election/state.go` | `ElectionState` |
| election engine, its RPCs | `election/engine.go`, `election/client.go`, `server/election.go` | `Election` |
| membership | `cluster/` | in `Election` (one view per node), `NodeView` (one shared view) |
| task store | `task/`, `task/sql/`, `migrations/` | `TaskStore`, statement by statement `TaskStoreTx`, abstractly `TaskLifecycle` |
| scheduler | `scheduler/` | `Scheduler` |
| worker, scheduler server | `worker/engine.go`, `server/` | `WorkerEngine` |
| scheduler, worker and server around one store | | `TaskSystem` |
| task executor, object storage | `worker/task_executor.go`, `storage/` | `TaskExecutor` |
| start and stop of a process | `cmd/node/main.go` | `NodeProcess`, around `TaskExecutor` |
| health, config, logging | `health/`, `config/` | not modelled |

Memberlist tells a node who joined and left. These events, and calls from
lower nodes, start elections; the elected node announces itself. The scheduler of every
node ticks, and on the leader it recovers, claims and assigns tasks. The workers
report to the leader's server, which writes to PostgreSQL. Nothing fences an
old leader: the store is the only point where two leaders meet.

## Modules

**ElectionState.** The struct `State` and one operator per method. Each method
holds the mutex, so each is atomic; `<Method>OK` is the boolean it returns.

**Election.** One variable per piece of state of `engine` and `EventHandler`
(`st`, `members`, `eventC`, `electC`, `internalC`), the goroutines
(`starts`: started and not yet past `BeginElection`; `elections`: inside
`sendToHigher`, `waitForCoordinator` or about to `declareLeader`; `reannounce`)
and the calls under way (`requests`, `announces`). One action is the code between
two points where a goroutine blocks or hands over. Nodes crash, lose
their memory and restart with term 0; calls are delayed, reordered, lost after
their retries, or delivered after their caller died.
`Synchronous = FALSE` puts no bound on any delay. `Synchronous = TRUE` is the
reliable network of README.md:6: local steps come before deliveries, deliveries and failure
detection before timers. Steps inside different nodes commute there, and are
taken in the order of the ids.

Abstractions: the event a node gets of its own join is left out
(`handleNodeJoined` ignores it); two equal announcements under way are one;
`handleNodeLost`'s reads and the clearing, `OnStartElection`'s `UpdateTerm` and
`IsLeader`, `startElection`'s `BeginElection` and `Members()`, `declareLeader`'s `SetLeader` and
`Members()`, and `waitForCoordinator`'s reads of leader and term and the `ResetElection`
that may follow them are one step each; a waiting election that ends because the process does
(`ctx.Done`) ends with `Crash`. A call whose answer is lost is made again by the code although
its handler has run (`election/engine.go:320-353`, `457-482`). The model delivers a call once, at any time
it likes, so that an early delivery followed by a late one of the same call is left out:
repeated deliveries make the two-node instance with three terms too large to check. A retry of the re-announcement, which reads the term again, is the
`Reannounce` step taken later; blocked senders of `internalC` queue behind its buffer.

**TaskStore.** The latest status, the number of FAILED rows, the lease and
whether it has expired, per task: all the code reads of the history. One
action per method, one committed transaction each; a refused
call is no step. Tasks are inserted from outside the program. A method that writes
WORKER_LOST and QUEUED in one transaction shows only QUEUED. Rows are assumed to be scannable
(non-NULL URIs).

**TaskStoreTx.** The same methods, one step per SQL statement, at READ COMMITTED. A statement
sees what is committed, and waits for the row locks of others: FOR UPDATE of claims
and recoveries, changed lease rows, and the FOR KEY SHARE that the foreign key of a
new status row takes on its task. `older` and `late` order the status rows by
`created_at`, which is the beginning of their transaction; `due` holds the leases that had
expired when a recovery began, since NOW() is the same instant. The clients are the
schedulers and the workers, with the calls the code lets them make (`duty`, `sent`). A
scheduler is a loop, so it has one call under way; a worker's reports of one task come one
after another, and the model keeps one report of a worker open at a time. `disturbed` is a
history variable: the tasks on which conflicting transactions met. A lease that is renewed and expires again
while a recovery is open may still be selected; this only adds behaviours.

**TaskLifecycle.** What the store promises: absent, pending, held by
one worker, completed, failed. `TaskStore` refines it with ASSIGNED and RUNNING
as held and QUEUED, SCHEDULING and WORKER_LOST as pending.

**TaskExecutor, NodeProcess.** `Execute` is cut at its calls: both downloads, the script,
`os.Stat`, the upload, and the report. Each may fail; a failed upload may have stored its
object. A URI is a sequence of names, so `parseKey` and `filepath.Base` are operators on sequences. An
object and a file are known by the tasks whose script wrote them. The store is
`TaskLifecycle`, which may take a task from its worker at any time (`Lose`), and the
execution goes on. `NodeProcess` puts the life of the process around it: `Signal`,
`GracefulStop`, which waits for the `AnnounceLeader` handlers that wait for room in `internalC`,
`Leave`, `Crash`, `Start`. Of the election it keeps the number of events in `internalC`.

**NodeView, Scheduler, WorkerEngine, TaskSystem.** `NodeView` replaces the election by its
result: who runs, who is a member, whom each node takes for leader. All nodes
share one view and change leader at once (split views are out of the project's
scope). Which node is elected is left open, since it need not be the highest
(see `SettledOneLeader`). `Scheduler` cuts a tick at every store call and RPC, with the locals
`alive`, `free`, `tasks`, `worker` and `didLeaderRecovery`. `WorkerEngine` has one record per
`runTask` goroutine. A `Fault` makes a transaction or a call return an error,
with or without its effect. The round-robin counter is kept modulo `Cycle`, a
common multiple of the possible numbers of workers.
`Overlap = FALSE`: leaders change only between ticks, and a node that lost
the leadership ticks before it regains it. `Timely = TRUE`: a lease (3 min) does not
expire while its worker is about to start, can renew (every 30 s) or is being called.

## Runs

| run | instance | shows |
|---|---|---|
| `election_async` | 2 nodes, channels of capacity 1, terms to 3, 1 crash, asynchronous | `TypeOK`, `NoOrphanElection`, `NeverStranded`, `ElectionsSeparated`, `StateNeverRegresses` |
| `election_failover` | 3 nodes, 1 crash and the return of the node, synchronous, terms to 12, which none reaches | `SettledAgree`: at rest all running nodes follow one running leader; `SettledHighest`: none of them is higher; `SettledLeaderRuns` |
| `election_live` | 2 nodes from cold start, 2 crashes, synchronous, fair | `EventuallyAgreed` |
| `election_split` | 3 nodes, 3 crashes, synchronous | violation of `SettledOneLeader` |
| `store` | 3 tasks with 0, 1 and 2 retries, 2 workers, any calls | lease, budget and finality invariants, `ImplementsLifecycle` |
| `store_tx` | 2 tasks with 2 tries, 2 schedulers, 1 worker, any 4 transactions, statements interleaved | `NoCircularWait`, `RecoveryKeepsLease`, `ClaimHoldsTask`, `UndisturbedLifecycle` |
| `store_tx_lost` | the same with 1 scheduler | violation of `ActiveIsLeased` |
| `tasks_crash` | 3 nodes, 1 task with 2 tries, 1 crash, fair | `ExclusiveExecution`, `SchedulingHasOwner`, `TasksEnd` |
| `tasks_faults` | 3 nodes, 2 tasks, 1 fault or 1 handover between ticks (`OneTrouble`) | `OneActiveTaskPerWorker`, `LeaderNotAssigned` |
| `tasks_overlap` | 3 nodes, 2 tasks, a handover in mid-tick | violation of `OneActiveTaskPerWorker` |
| `tasks_stuck` | 3 nodes, 1 task, 1 fault, fair | violation of `SchedulingEnds` |
| `node_process` | 2 nodes, 1 task, `internalC` of capacity 1, 2 handlers | `CompletedHasOutput`, the type invariant with the capacity of `internalC` |

Bounds. Two nodes already give an election a caller, a callee, a late timer
and a restarted peer; capacity 1 makes full channels happen. Three nodes are needed for
a failover in which two candidates remain. In `election_failover` and `election_live` `MaxTerm` lies beyond
every term reached, so no election is cut off, not even those after a crashed leader has come back; in `election_async` terms end at 3,
which the leader's return can exceed, and the proofs stand for the rest. `FailoverNext` delivers an announcement
that is refused whenever it arrives before anything else: it changes no settled state. `MaxStarts` bounds goroutines waiting to run and `MaxRuns` executions of a task by one
node; neither changes what a step does. Two tasks and two workers are what a second
assignment needs; `BatchSize` 2 is then no limit on its own.
In `store_tx` two schedulers and a worker are an old leader, a new one and the worker between them. The run begins
with one task executed and the other new or queued, or with the other one in the hands of an old claim that a
second scheduler has overtaken; four transactions from there are enough for a recovery that holds
both leases, has written to one task, waits for the claim of the other, and is waited for by a report. One
handler more than `internalC` has room for is what blocks `GracefulStop`; two workers are an execution
that was given up and its successor. `CHECK_DEADLOCK FALSE` is set where a settled cluster or
a finished task list has nothing left to do.

`ExclusiveExecution` is stated for leaders that are not replaced while they run. After a handover the
node that gave up its own lease at its takeover is a follower again and may report beside the
new execution. `TasksEnd` asks for two running nodes from some time on,
since a leader alone has no workers (`tick` returns). `CompletedHasOutput` leaves out outputs named
`task.py` or `input`, which exist before the script runs. `UndisturbedLifecycle` says how far the
atomic methods of `TaskStore` can be relied on: until a report of a worker meets the
assignment or recovery of its lease, or two schedulers meet on a task. A recovery also meets a younger
transaction that has committed before it looks; a claim that the report which queued its task has overtaken meets nobody.

Fairness. `EngineStep`, `Delivery` and `MembershipStep` are weakly fair:
goroutines are scheduled, timers fire, memberlist converges, a call is delivered or given up.
`SystemFairness` asks the same of ticks, goroutines, calls and lease expiry,
of failure detection and of an election that stays possible. No node has to crash, start, stop or
take over.

## What the violations show

- `SettledOneLeader`: `startElection` ignores the join of a higher node during an
  election (`election/engine.go:257`), and a restarted node's term starts at
  0, so a lower node can lead while a higher one follows it. If the higher node then restarts before its
  failure is detected, nobody is told of a join. It has no higher member to ask, declares itself in term
  1, and the others refuse that as stale. Both nodes lead, no message was lost, and nothing is left to do.
  `SettledAgree` is therefore no statement about any number of crashes: two leaders at rest
  contradict it. The run `election_failover` shows it for three nodes and one crash; for more nodes see
  the end of "Proofs".
- `OneActiveTaskPerWorker`: leadership is read once per tick
  (`scheduler/engine.go:75`); an old leader finishes its tick with stale
  workers. With `Overlap = TRUE` it may also assign a task to the new leader.
- `ActiveIsLeased` with interleaved statements: `RecoverDeadWorkerLeases` begins, `MarkRunning`
  begins and commits, the recovery deletes the lease and inserts WORKER_LOST and QUEUED. Its rows
  are the older ones by `created_at`, so the task stays RUNNING without a lease, and
  no claim and no recovery selects it again (`task/store.go:423`). The atomic
  methods of `TaskStore` do keep the invariant.
- `SchedulingEnds`: a failed `MarkAssigned` (`scheduler/engine.go:172-179`)
  leaves the task in SCHEDULING until the next takeover.

## Proofs

All constants are arbitrary, under the named assumptions of the modules (`NodeAssumption`, `BoundAssumption`,
`TaskAssumption`, `SchedulerAssumption`, `ClientAssumption`, `ExecutorAssumption`, `ProcessAssumption`): finite sets
of numbered nodes and tasks, positive capacities, natural numbers as bounds, URIs that are sequences of names.

`ElectionProofs` proves, of `Spec`, the five properties of `election_async` and `SettledLeaderRuns`. The steps are in
`ElectionInvariants`: what one step can do to a leader, a term, a message or a goroutine, and that it keeps the invariants. The inductive
invariant `IndInv` adds to them what the phases and goroutines
of a node have to do with each other: `NoOrphanElection` alone is not inductive, as a
second goroutine of the same term could end the phase under the first. Terms keep them
apart: a new election has a term above all others of its node
(`ElectionsSeparated`). `NextInv` has one case per action. `StateNeverRegresses` follows
from the state operators and the types. `LeaderRuns` holds for any number of nodes,
crashes and restarts: on a reliable network, with room for an event in `eventC`, nobody at rest follows a node
that is down. `FollowInv` says that a followed node runs, or is still a member, or its leave event
is in `eventC`, and that an announcement of a dead node only goes to nodes that still count it as a member.

`ElectionProofs` also proves agreement at rest. `SettledAgree` and `SettledHighest`, that is, all running nodes
follow the highest of them, hold for any number of nodes on a reliable network with room for an event in `eventC`

- until the first crash, however many nodes start while others are in elections (`AgreementBeforeCrash`);
- with any number of crashes and restarts, if a node starts only while the others know who runs, nobody is inside
  `sendToHigher` and no announcement to its former process is under way (`AgreementUndisturbed`; the hypothesis is
  `JoinsUndisturbed`). Nodes may still start while others wait for a coordinator or are about to begin an election.

Both rest on `TopInv`: leaders and messages point upwards (`Upward`); no node knows a later term of
a running leader than that leader itself (`TermsKnown`); a node that leads itself under a higher one has an election coming or the
join in its queue (`SelfMade`); and a node below a leader follows it, or is in a later term, or will hear of it, ask it
or begin an election (`AllTold`). At rest nothing is to come. Among the
running nodes that are at least as high and as late in terms as a node n, take the highest, f. Its leader runs (`LeaderRuns`), is no lower
and in no earlier term, so it is f; nobody is higher (`SelfMade`), and n follows f (`AllTold`). `TopInv` is inductive as long as nobody declares itself under
a higher node (`OnlyTopDeclares`), and that is what the two hypotheses are for: before a crash a goroutine in `sendToHigher`
always has an answer coming (`Unbroken`), and with undisturbed joins it has called every higher node that runs (`AllCalled`).

`TaskStoreProofs` proves the six properties of `store`, of `StoreSpec`: any
method, any arguments, any order. `StoreInv` is the conjunction of the
invariants and of `ForeignKey` (a task that was never inserted has no lease).
They need each other: finality rests on `TerminalIsUnleased`, because the
lease recoveries requeue whatever has a lease; the budget rests on the guard
of the claim surviving until MarkFailed. `StoreImplementsLifecycle` maps every
store step to a life-cycle step or a stutter under `StoreInv`.

`TaskStoreTxProofs` proves type correctness, `NoCircularWait`, `RecoveryKeepsLease` and `ClaimHoldsTask`
of `TxSpec`, for any number of clients. `TxInv` adds to the types what a transaction holds at
each of its statements (`Shape`), that no two hold the same lease or write to a row the other has locked (`Apart`),
and that what a recovery has locked is still there (`Holds`). `RecoverDeadWorkerLeases` locks every lease that nobody else has, those of
living workers included, and then asks for the task rows of the dead ones. A circle is impossible all the same: a claim
never waits, an insert waits for claims only, and a change of a lease waits for a
transaction that has its leases and waits for nobody but claims.

It also proves `UndisturbedLifecycle`, and that the invariants of the atomic store hold
until conflicting transactions meet (`UndisturbedStoreSound`). The inductive invariant is `LifeInv`: while `disturbed` is empty,
what the statements of an open transaction have found is still so (`Checked`), transactions that could
disturb each other are about different tasks (`Alone`), what will be written is what the method writes
(`Prepared`), and a transaction that was overtaken on its task by a younger commit is a claim, whose row then
has no effect, or will be refused (`Superseded`), so that the row with the latest `created_at` is the last one that
counts. Each commit is then a step of the atomic store or changes nothing, and `LifecycleNext` of `TaskStoreProofs` applies.

`NodeProcessProofs` proves type correctness and `CompletedHasOutput` of `NodeSpec`, for any tasks,
URIs and workers. `OutputInv` follows the output file through an execution; `StaysProduced` shows that
no upload, however late, takes a produced output away.

`TaskSystemProofs`, `TaskSchedulingProofs` and `TaskExecutionProofs`, each extending the one before, prove of
`SystemSpec`, for any nodes, tasks, retry limits, crashes and handovers:

| theorem | assumes | rests on |
|---|---|---|
| `SystemTyped`, `SystemImplementsStore`, `SystemImplementsLifecycle` | nothing more | `SysInv`: the locals of a tick at each of its calls |
| `SystemStoreSound` | nothing more | the theorems of `TaskStoreProofs`, by `SystemImplementsStore` |
| `LeaderNeverAssigned` | `~Overlap` | `LeaderInv`: only the one leader is in a tick |
| `OneTaskPerWorker` | `~Overlap` | `LeaseInv`: nobody holds a lease that one of the picks still to come would give away |
| `SchedulingOwned` | `~Overlap`, no faults | `OwnerInv`: after its recovery the leader has all that is in SCHEDULING in hand |
| `ExclusivelyExecuted` | `~Overlap`, `Timely`, no faults, no handovers | `ExecInv`: a goroutine that can report has the lease; expired leases are abandoned |

`SystemImplementsStore` carries every theorem about `StoreSpec` over to the system, handovers in mid-tick included.
`TaskSystemProofs` begins with the lemmas on `Pick`, `First` and batches, where induction is written with the
least counterexample, and with `EveryMemberOnce`: as many consecutive picks as there are members give every
member once.

Agreement at rest needs hypotheses of this kind, as it is false without any. Besides `election_split`
(repeated crashes), one crash without a restart is enough from five nodes on. 3 and 5 follow 5 in term 1; 2 starts and calls
3, which begins term 2 and calls 5; 5 crashes; 4 starts and declares itself in term 1; 1 starts and calls 4, which spawns its
re-announcement; 3 times out and declares itself in term 2 to 4, 1 and 2. Only now 4's re-announcement reads
the term (`election/engine.go:104-110`) and announces 4 in term 2, a term that 4 has not won, to 1. By the tie-break 1 follows 4,
and the others follow 3. The state space of five nodes is too large for a run; three nodes do not reach this.

Only model-checked: liveness (`EventuallyAgreed`, `TasksEnd`), which is beyond the prover, and agreement of three nodes
after one crash with joins at any time (`election_failover`). `EventuallyAgreed` is a result about two nodes, since
it includes agreement after repeated crashes.

## Not modelled

- The health endpoint: it changes nothing, and nothing acts on its answer. Its four reads may see four states.
- Configuration and logging: read once at the start, constants here. Generated code and mocks.
- `cluster.New`, `NotifyUpdate` and the node metadata: addresses, which no step depends on.
- Rows that cannot be scanned (NULL URIs, which README.md:27-28 allows as "optional"), the widths of ids, durations in seconds.
- Different membership views in the task system, and leadership lost and regained within a tick
  of one scheduler, except as `Overlap = TRUE`.
- Whether a node that is told to stop ever ends: `GracefulStop` waits for handlers that may wait at a full
  `internalC` for ever (`cmd/node/main.go:145-148`, `election/engine.go:157-163`). The module has these steps; no property is about them.
- Which of two outputs of one task stays when an execution that was given up uploads late.
- Calls without an answer: `AssignTask` has no timeout; the fairness assumes that it returns.
- The election and the task system in one module: `NodeView` stands for the election.
- `TaskStoreTx` under the scheduler: `TaskSystem` uses the atomic store, so what `store_tx_lost` shows is
  outside its theorems.
