----------------------------- MODULE TaskSystem -----------------------------
(***************************************************************************)
(* The schedulers and the workers of all nodes around one store, with      *)
(* crashes, restarts and changes of the leader.                            *)
(***************************************************************************)
EXTENDS Scheduler, WorkerEngine

CONSTANTS
    Overlap,   \* FALSE: leaders change more slowly than the schedulers tick
    Timely     \* TRUE: a lease lasts longer than a dispatch, a renewal or an election takes

ASSUME TimingAssumption == Overlap \in BOOLEAN /\ Timely \in BOOLEAN

systemVars == <<viewVars, storeVars, schedVars, runs>>

SystemTypeOK == ViewTypeOK /\ StoreTypeOK /\ SchedTypeOK /\ WorkerTypeOK

SystemInit ==
    /\ \E l \in Node : ViewInit(l)
    /\ StoreInit /\ SchedInit /\ WorkerInit

-----------------------------------------------------------------------------
(* The nodes and the leadership.                                            *)

Crash(n) ==
    /\ Die(n)
    /\ sched' = [sched EXCEPT ![n] = NewScheduler]
    /\ counter' = [counter EXCEPT ![n] = 0]
    /\ runs' = {r \in runs : r.node # n}
    /\ UNCHANGED storeVars

\* Nobody but l is in the middle of a tick, and l, if it was leader before, has
\* ticked since.
TicksOver(l) ==
    /\ \A n \in up \ {l} : sched[n].pc = "idle"
    /\ sched[l].recovered => IsLeader(l)

LeadershipStep ==
    /\ \/ \E n \in Node : StartNode(n) \/ Detect(n)
       \/ \E l \in Node : (Overlap \/ TicksOver(l)) /\ (Elect(l) \/ Handover(l))
    /\ UNCHANGED <<storeVars, schedVars, runs>>

-----------------------------------------------------------------------------
(* The store's clients outside the cluster, and its clock.                  *)

SubmitTask(t) == Submit(t) /\ UNCHANGED <<viewVars, schedVars, runs>>

\* Somebody is still at work for the lease of t.
LeaseInUse(t) ==
    \/ \E r \in RunsOf(lease[t], t) : ~(Renewing(r) /\ IsLeader(r.node))
    \/ \E n \in up : sched[n].pc = "call" /\ First(sched[n].tasks) = t /\ sched[n].worker = lease[t]

Expire(t) ==
    /\ Timely => ~LeaseInUse(t)
    /\ LeaseExpires(t)
    /\ UNCHANGED <<viewVars, schedVars, runs>>

-----------------------------------------------------------------------------
(* WorkerServer.AssignTask: the one call that changes a scheduler and a     *)
(* worker.                                                                  *)

AssignTask(n) ==
    /\ At(n, "call") /\ sched[n].worker \in up
    /\ HandleAssignment(sched[n].worker, First(sched[n].tasks))
    /\ GoTo(n, "answered")
    /\ UNCHANGED <<counter, viewVars, storeVars>>

Scheduling(n) == (SchedulerStep(n) /\ UNCHANGED runs) \/ AssignTask(n)

Working == \E r \in runs : WorkerStep(r) /\ UNCHANGED schedVars

SystemNext ==
    \/ \E n \in Node : Crash(n) \/ Scheduling(n)
    \/ \E t \in Task : SubmitTask(t) \/ Expire(t)
    \/ LeadershipStep \/ Working

SystemSpec == SystemInit /\ [][SystemNext]_systemVars

(* Tickers fire, goroutines run, calls return, tasks come to an end, time   *)
(* passes, and the cluster notices a dead member and elects a leader.  No   *)
(* node has to crash, to come back or to be replaced as leader.             *)
SystemFairness ==
    /\ \A n \in Node : WF_systemVars(Scheduling(n))
    /\ \A n \in Node, t \in Task, i \in 1..MaxRuns :
          WF_systemVars(\E r \in RunsOf(n, t) : r.no = i /\ WorkerStep(r) /\ UNCHANGED schedVars)
    /\ \A t \in Task : WF_systemVars(Expire(t))
    /\ WF_systemVars(\E n \in Node : Detect(n) /\ UNCHANGED <<storeVars, schedVars, runs>>)
    /\ WF_systemVars(\E l \in Node : (Overlap \/ TicksOver(l)) /\ Elect(l)
                                     /\ UNCHANGED <<storeVars, schedVars, runs>>)

FairSystemSpec == SystemSpec /\ SystemFairness

-----------------------------------------------------------------------------
(* Properties.                                                              *)

\* The scheduler gives a worker one task at a time: the leases it looks at and the
\* distinct picks of one tick keep a second task away (engine.go:145-212).
OneActiveTaskPerWorker ==
    \A t, u \in Task : status[t] \in Active /\ status[u] \in Active /\ lease[t] = lease[u] => t = u

\* A node that acts as leader is not handed a task (aliveWorkers, engine.go:131-143).
LeaderNotAssigned ==
    [][\A r \in runs' \ runs : r.pc = "starting" => ~IsLeader(r.node)]_systemVars

\* A task in SCHEDULING is in the hands of a scheduler at work, or the scheduler
\* that will requeue it has yet to do its recovery: nothing else ever looks for
\* such a task (engine.go:85-88, 121-129).
SchedulingHasOwner ==
    \A t \in Task : status[t] = "SCHEDULING" =>
        \/ \E n \in up : t \in sched[n].tasks /\ (At(n, "assign") \/ t # First(sched[n].tasks))
        \/ \A n \in up : IsLeader(n) => ~sched[n].recovered

\* Unless a leader is replaced while it runs, of two executions of the same task
\* one is on the node that has become leader and can no longer report: its own
\* lease is given up at the takeover (engine.go:126, 131-143; worker 202-209).
ExclusiveExecution ==
    \A r, s \in runs : r.task = s.task /\ r # s /\ Renewing(r) /\ Renewing(s) =>
        IsLeader(r.node) \/ IsLeader(s.node)

\* Every task that may be executed at all comes to its end, if there is a worker
\* beside the leader from some time on: whichever process crashes, one of the three
\* recoveries of a tick returns its task to the queue (engine.go:85-93).
TasksEnd ==
    <>[](Cardinality(up) >= 2) =>
        \A t \in Task : MaxRetries[t] > 0 => (status[t] = "QUEUED" ~> status[t] \in Terminal)

\* No task stays in SCHEDULING: dispatchClaimedTasks assigns it (engine.go:172), or
\* it is recovered as stale scheduling state (engine.go:122).
SchedulingEnds ==
    \A t \in Task : status[t] = "SCHEDULING" ~> status[t] # "SCHEDULING"
=============================================================================
