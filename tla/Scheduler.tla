----------------------------- MODULE Scheduler -----------------------------
(***************************************************************************)
(* The scheduler of every node (scheduler/engine.go): one tick after the   *)
(* other, each a sequence of store transactions and of AssignTask calls.   *)
(* The leadership is looked at when a tick begins and not again.           *)
(***************************************************************************)
EXTENDS NodeView, TaskStore

CONSTANTS
    BatchSize,   \* SchedulerConfig.BatchSize
    Cycle        \* RoundRobin.counter is kept modulo this common multiple of the numbers of workers

ASSUME SchedulerAssumption ==
    /\ Worker = Node /\ IsFiniteSet(Node)
    /\ BatchSize \in Nat /\ Cycle \in Nat \ {0}
    /\ \A W \in SUBSET Node : W # {} /\ W # Node => Cycle % Cardinality(W) = 0

VARIABLES
    sched,      \* Engine: where its tick is, the locals of tick, didLeaderRecovery
    counter     \* RoundRobin.counter

schedVars == <<sched, counter>>

(* Where a tick is: before it; before each of the calls                      *)
(* RecoverStaleScheduling, RecoverDeadWorkerLeases, RecoverExpiredLeases,    *)
(* ActiveLeases, ClaimQueued, MarkAssigned; the AssignTask call is on its    *)
(* way, the worker has handled it; before MarkWorkerLost.                    *)
TickPC == {"idle", "stale", "dead", "expired", "leases", "claim", "assign", "call", "answered", "lost"}

SchedTypeOK ==
    /\ sched \in [Node -> [pc : TickPC, recovered : BOOLEAN, alive : SUBSET Node, free : SUBSET Node,
                           tasks : SUBSET Task, worker : Node \cup {NoWorker}]]
    /\ counter \in [Node -> 0..(Cycle - 1)]

NewScheduler ==
    [pc |-> "idle", recovered |-> FALSE, alive |-> {}, free |-> {}, tasks |-> {}, worker |-> NoWorker]

SchedInit ==
    /\ sched = [n \in Node |-> NewScheduler]
    /\ counter = [n \in Node |-> 0]

-----------------------------------------------------------------------------
\* The tick returns; only didLeaderRecovery outlives it.
Idle(s) == [NewScheduler EXCEPT !.recovered = s.recovered]

\* The claimed tasks are dispatched in the order they were claimed in.
First(tasks) == CHOOSE t \in tasks : \A u \in tasks : t <= u

\* The next claimed task, or the end of dispatchClaimedTasks.
Continue(s) ==
    LET rest == s.tasks \ {First(s.tasks)}
    IN IF rest = {} THEN Idle(s)
       ELSE [s EXCEPT !.pc = "assign", !.tasks = rest, !.worker = NoWorker]

At(n, pc) == n \in up /\ sched[n].pc = pc

Becomes(n, s) == sched' = [sched EXCEPT ![n] = s]

GoTo(n, pc) == Becomes(n, [sched[n] EXCEPT !.pc = pc])

\* A transaction that ends with an error was rolled back, or was committed and
\* the answer was lost.
Fails(Transaction) == Fault /\ (Transaction \/ UNCHANGED storeVars)

-----------------------------------------------------------------------------
\* Mutant: the node itself is not left out.
allMembers(n) == known

aliveWorkers(n) == known \ {n}

tick(n) ==
    /\ At(n, "idle")
    /\ \/ /\ ~IsLeader(n)
          /\ Becomes(n, [sched[n] EXCEPT !.recovered = FALSE])
       \/ /\ IsLeader(n) /\ aliveWorkers(n) # {}
          /\ Becomes(n, [sched[n] EXCEPT !.alive = aliveWorkers(n),
                                         !.pc = IF sched[n].recovered THEN "expired" ELSE "stale"])
    /\ UNCHANGED <<counter, viewVars, storeVars>>

\* recoverOnLeadership logs the errors of its two calls and goes on.
recoverStale(n) ==
    /\ At(n, "stale")
    /\ GoTo(n, "dead")
    /\ \/ RecoverStaleScheduling /\ UNCHANGED viewVars
       \/ Fails(RecoverStaleScheduling)
    /\ UNCHANGED counter

recoverDead(n) ==
    /\ At(n, "dead")
    /\ Becomes(n, [sched[n] EXCEPT !.pc = "expired", !.recovered = TRUE])
    /\ \/ RecoverDeadWorkerLeases(sched[n].alive) /\ UNCHANGED viewVars
       \/ Fails(RecoverDeadWorkerLeases(sched[n].alive))
    /\ UNCHANGED counter

recoverExpired(n) ==
    /\ At(n, "expired")
    /\ \/ RecoverExpiredLeases /\ GoTo(n, "leases") /\ UNCHANGED viewVars
       \/ Fails(RecoverExpiredLeases) /\ Becomes(n, Idle(sched[n]))
    /\ UNCHANGED counter

Leased == {lease[t] : t \in Task}

freeWorkers(n) ==
    LET free == sched[n].alive \ Leased
    IN /\ At(n, "leases")
       /\ \/ /\ Becomes(n, IF free = {} THEN Idle(sched[n])
                           ELSE [sched[n] EXCEPT !.pc = "claim", !.free = free])
             /\ UNCHANGED viewVars
          \/ Fault /\ Becomes(n, Idle(sched[n]))
       /\ UNCHANGED <<counter, storeVars>>

\* Mutant: the number of free workers does not limit the batch.
ClaimBatch(n) == BatchSize

ClaimCount(n) == IF BatchSize < Cardinality(sched[n].free) THEN BatchSize ELSE Cardinality(sched[n].free)

claim(n) ==
    LET tasks == FirstOf(Claimable, ClaimCount(n))
    IN /\ At(n, "claim")
       /\ \/ /\ ClaimQueued(ClaimCount(n))
             /\ Becomes(n, IF tasks = {} THEN Idle(sched[n])
                           ELSE [sched[n] EXCEPT !.pc = "assign", !.tasks = tasks])
             /\ UNCHANGED viewVars
          \/ Fails(ClaimQueued(ClaimCount(n))) /\ Becomes(n, Idle(sched[n]))
       /\ UNCHANGED counter

\* RoundRobin.Pick: the member at index counter % len(ids) of the sorted ids.
Pick(members, c) ==
    CHOOSE w \in members : Cardinality({v \in members : v < w}) = c % Cardinality(members)

assign(n) ==
    LET t == First(sched[n].tasks)
        w == Pick(sched[n].free, counter[n])
    IN /\ At(n, "assign")
       /\ counter' = [counter EXCEPT ![n] = (@ + 1) % Cycle]
       /\ \/ /\ MarkAssigned(t, w)
             /\ Becomes(n, [sched[n] EXCEPT !.pc = "call", !.worker = w])
             /\ UNCHANGED viewVars
          \/ /\ ~MarkAssignedOK(t)
             /\ Becomes(n, Continue(sched[n]))
             /\ UNCHANGED <<viewVars, storeVars>>
          \/ /\ Fails(MarkAssigned(t, w))
             /\ Becomes(n, Continue(sched[n]))

\* AssignTask has returned without an error.
dispatched(n) ==
    /\ At(n, "answered")
    /\ Becomes(n, Continue(sched[n]))
    /\ UNCHANGED <<counter, viewVars, storeVars>>

\* AssignTask returns an error, whether the worker has handled the call or not.
dispatchFailed(n) ==
    /\ At(n, "call") \/ At(n, "answered")
    /\ GoTo(n, "lost")
    /\ \/ sched[n].worker \notin up /\ UNCHANGED viewVars
       \/ Fault
    /\ UNCHANGED <<counter, storeVars>>

workerLost(n) ==
    LET t == First(sched[n].tasks)
        w == sched[n].worker
    IN /\ At(n, "lost")
       /\ Becomes(n, Continue(sched[n]))
       /\ \/ MarkWorkerLost(t, w) /\ UNCHANGED viewVars
          \/ ~MarkWorkerLostOK(t) /\ UNCHANGED <<viewVars, storeVars>>
          \/ Fails(MarkWorkerLost(t, w))
       /\ UNCHANGED counter

SchedulerStep(n) ==
    \/ tick(n) \/ recoverStale(n) \/ recoverDead(n) \/ recoverExpired(n) \/ freeWorkers(n)
    \/ claim(n) \/ assign(n) \/ dispatched(n) \/ dispatchFailed(n) \/ workerLost(n)
=============================================================================
