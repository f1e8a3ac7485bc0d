------------------------ MODULE TaskExecutionProofs -------------------------
(***************************************************************************)
(* One execution of a task at a time, as long as no leader is replaced,    *)
(* leases outlast the work for them and no call fails.                     *)
(***************************************************************************)
EXTENDS TaskSchedulingProofs

\* Nobody is at work for the lease of t but a leader that cannot renew it.
Abandoned(t) ==
    /\ \A r \in RunsOf(lease[t], t) : IsLeader(r.node)
    /\ \A n \in Node : sched[n].pc = "call" => First(sched[n].tasks) # t

(* A goroutine that can report has the lease of its task; a takeover and an *)
(* expiry give up the leases of others only.                                *)
ExecInv ==
    /\ up \subseteq known
    /\ \A r \in runs : r.node \in up /\ (IsLeader(r.node) \/ lease[r.task] = r.node)
    /\ \A r, s \in runs : r.node = s.node /\ r.task = s.task => r = s
    /\ \A t \in expired : Abandoned(t)
    /\ \A n \in Node :
          /\ sched[n].pc = "call" => lease[First(sched[n].tasks)] = sched[n].worker
          /\ sched[n].pc \in {"call", "lost"} => RunsOf(sched[n].worker, First(sched[n].tasks)) = {}
          /\ sched[n].pc \in {"stale", "dead"} => \A r \in runs : r.node \in sched[n].alive \cup {n}

\* A step of a scheduler that hands over nothing.
LEMMA ExecAfter ==
    ASSUME SysInv, LeaderInv, ExecInv, NEW n \in Node, Scheduling(n), UNCHANGED runs,
           IsLeader(n) \/ UNCHANGED lease,
           \A r \in runs : IsLeader(r.node) \/ lease'[r.task] = r.node,
           \A t \in expired' : t \in expired /\ lease'[t] = lease[t],
           sched'[n].pc = "call" => /\ lease'[First(sched'[n].tasks)] = sched'[n].worker
                                    /\ First(sched'[n].tasks) \notin expired',
           sched'[n].pc \in {"call", "lost"} => RunsOf(sched'[n].worker, First(sched'[n].tasks)) = {},
           sched'[n].pc \in {"stale", "dead"} => \A r \in runs : r.node \in sched'[n].alive \cup {n}
    PROVE  ExecInv'
<1>1. UNCHANGED <<up, known, leader>> /\ \A m \in Node \ {n} : sched'[m] = sched[m]
  BY SchedulingMoves
<1>2. (\A m \in Node : IsLeader(m)' <=> IsLeader(m)) /\ \A w, t : RunsOf(w, t)' = RunsOf(w, t)
  BY <1>1 DEF IsLeader, RunsOf
<1>3. \A m \in Node \ {n} : sched[m].pc = "call" => UNCHANGED lease
  BY DEF LeaderInv
<1>4. ASSUME NEW m \in Node
      PROVE  /\ sched'[m].pc = "call" => lease'[First(sched'[m].tasks)] = sched'[m].worker
             /\ sched'[m].pc \in {"call", "lost"} => RunsOf(sched[m].worker, First(sched[m].tasks))' = {}
             /\ sched'[m].pc \in {"stale", "dead"} => \A r \in runs' : r.node \in sched'[m].alive \cup {m}
  <2>1. CASE m = n
    BY <2>1 DEF RunsOf
  <2>2. CASE m # n
    <3>1. sched'[m] = sched[m]
      BY <1>1, <2>2
    <3> QED
      BY <1>3, <2>2, <3>1 DEF ExecInv, RunsOf
  <2> QED
    BY <2>1, <2>2
<1>5. \A r \in runs' : r.node \in up' /\ (IsLeader(r.node)' \/ lease'[r.task] = r.node)
  BY <1>1, <1>2, RunOf DEF ExecInv
<1>6. ASSUME NEW t \in expired' PROVE Abandoned(t)'
  <2>1. t \in expired /\ lease'[t] = lease[t] /\ Abandoned(t)
    BY DEF ExecInv
  <2>2. \A r \in RunsOf(lease[t], t)' : IsLeader(r.node)'
    BY Zenon, <1>2, <2>1, RunOf DEF Abandoned, RunsOf
  <2>3. \A m \in Node : sched'[m].pc = "call" => First(sched'[m].tasks) # t
    BY <1>1, <2>1 DEF Abandoned
  <2> QED
    BY <2>1, <2>2, <2>3 DEF Abandoned, RunsOf
<1> QED
  BY Zenon, <1>1, <1>4, <1>5, <1>6 DEF ExecInv, RunsOf

LEMMA tickExec ==
    ASSUME SysInv, LeaderInv, ExecInv, NEW n \in Node, Scheduling(n), tick(n), UNCHANGED runs PROVE ExecInv'
<1>1. sched[n] \in SchedRecord /\ sched[n].pc = "idle" /\ UNCHANGED <<lease, expired>>
  BY SchedOf DEF tick, At, storeVars
<1>2. \/ sched'[n] = [sched[n] EXCEPT !.recovered = FALSE]
      \/ sched'[n] = [sched[n] EXCEPT !.alive = aliveWorkers(n),
                                      !.pc = IF sched[n].recovered THEN "expired" ELSE "stale"]
  BY BecomesIs DEF tick
<1>3. \/ sched'[n].pc = "idle"
      \/ sched'[n].pc \in {"expired", "stale"} /\ sched'[n].alive = known \ {n}
  <2>1. CASE sched'[n] = [sched[n] EXCEPT !.recovered = FALSE]
    BY <1>1, <2>1 DEF SchedRecord
  <2>2. CASE sched'[n] = [sched[n] EXCEPT !.alive = aliveWorkers(n),
                                          !.pc = IF sched[n].recovered THEN "expired" ELSE "stale"]
    <3> DEFINE a == aliveWorkers(n)
               pc == IF sched[n].recovered THEN "expired" ELSE "stale"
    <3>1. pc \in {"expired", "stale"} /\ a = known \ {n}
      BY DEF aliveWorkers
    <3>2. sched'[n] = [sched[n] EXCEPT !.alive = a, !.pc = pc]
      BY <2>2
    <3> HIDE DEF a, pc
    <3>3. sched'[n].pc = pc /\ sched'[n].alive = a
      BY <1>1, <3>2 DEF SchedRecord
    <3> QED
      BY <3>1, <3>3
  <2> QED
    BY Zenon, <1>2, <2>1, <2>2
<1>4. \A r \in runs : r.node \in (known \ {n}) \cup {n}
  BY DEF ExecInv
<1> QED
  BY ZenonT(30), <1>1, <1>3, <1>4, ExecAfter DEF ExecInv

LEMMA RequeueExec ==
    ASSUME SysInv, ExecInv, NEW S \in SUBSET Task, Requeue(S),
           \A r \in runs : r.task \in S => IsLeader(r.node) \/ lease[r.task] # r.node
    PROVE  /\ \A r \in runs : IsLeader(r.node) \/ lease'[r.task] = r.node
           /\ \A t \in expired' : t \in expired /\ lease'[t] = lease[t]
<1>1. \A t \in Task : lease'[t] = IF t \in S THEN NoWorker ELSE lease[t]
  BY DEF Requeue
<1>2. expired' = expired \ S /\ expired \subseteq Task
  BY DEF Requeue, SysInv, StoreInv, StoreTypeOK
<1> QED
  BY Zenon, <1>1, <1>2, RunOf DEF ExecInv

LEMMA recoverExec ==
    ASSUME SysInv, LeaderInv, ExecInv, MaxFaults = 0, NEW n \in Node, Scheduling(n), UNCHANGED runs,
           recoverStale(n) \/ recoverDead(n) \/ recoverExpired(n)
    PROVE  ExecInv'
<1>0. sched[n] \in SchedRecord /\ sched[n].pc # "idle" /\ IsLeader(n)
  BY SchedOf DEF recoverStale, recoverDead, recoverExpired, At, LeaderInv
<1>1. CASE recoverStale(n)
  <2>1. sched'[n] = [sched[n] EXCEPT !.pc = "dead"] /\ sched[n].pc = "stale" /\ UNCHANGED <<lease, expired>>
    BY Zenon, <1>1, NoFault, BecomesIs DEF recoverStale, GoTo, At, Fails, RecoverStaleScheduling
  <2>2. sched'[n].pc = "dead" /\ sched'[n].alive = sched[n].alive
    BY <1>0, <2>1 DEF SchedRecord
  <2> QED
    BY Zenon, <1>0, <2>1, <2>2, ExecAfter DEF ExecInv
<1>2. CASE recoverDead(n)
  <2>1. /\ sched'[n] = [sched[n] EXCEPT !.pc = "expired", !.recovered = TRUE] /\ sched[n].pc = "dead"
        /\ Requeue(DeadLeases(sched[n].alive))
    BY Zenon, <1>2, NoFault, BecomesIs DEF recoverDead, At, Fails, RecoverDeadWorkerLeases
  <2>2. sched'[n].pc = "expired"
    BY <1>0, <2>1 DEF SchedRecord
  <2>3. \A r \in runs : r.task \in DeadLeases(sched[n].alive) => IsLeader(r.node) \/ lease[r.task] # r.node
    BY <1>0, <2>1 DEF ExecInv, DeadLeases
  <2>4. DeadLeases(sched[n].alive) \in SUBSET Task
    BY DEF DeadLeases
  <2> QED
    BY Zenon, <1>0, <2>1, <2>2, <2>3, <2>4, RequeueExec, ExecAfter
<1>3. CASE recoverExpired(n)
  <2>1. sched'[n] = [sched[n] EXCEPT !.pc = "leases"] /\ Requeue(expired)
    BY Zenon, <1>3, NoFault, BecomesIs DEF recoverExpired, GoTo, Fails, RecoverExpiredLeases
  <2>2. sched'[n].pc = "leases"
    BY <1>0, <2>1 DEF SchedRecord
  <2>3. \A r \in runs : r.task \in expired => IsLeader(r.node) \/ lease[r.task] # r.node
    BY DEF ExecInv, Abandoned, RunsOf
  <2>4. expired \in SUBSET Task
    BY DEF SysInv, StoreInv, StoreTypeOK
  <2> QED
    BY Zenon, <1>0, <2>1, <2>2, <2>3, <2>4, RequeueExec, ExecAfter
<1> QED
  BY Zenon, <1>1, <1>2, <1>3

LEMMA claimExec ==
    ASSUME SysInv, LeaderInv, ExecInv, NEW n \in Node, Scheduling(n), UNCHANGED runs,
           freeWorkers(n) \/ claim(n) \/ dispatched(n)
    PROVE  ExecInv'
<1>1. sched[n] \in SchedRecord /\ Fits(sched[n], n) /\ Idle(sched[n]).pc = "idle" /\ UNCHANGED <<lease, expired>>
  BY Zenon, SchedOf, NewFits DEF freeWorkers, claim, dispatched, Fails, storeVars, ClaimQueued
<1>2. sched'[n].pc \in {"idle", "claim", "assign"}
  <2>1. CASE freeWorkers(n)
    <3>1. \/ sched'[n] = Idle(sched[n])
          \/ sched'[n] = [sched[n] EXCEPT !.pc = "claim", !.free = sched[n].alive \ Leased]
      BY <2>1, BecomesIs DEF freeWorkers
    <3> QED
      BY Zenon, <1>1, <3>1 DEF SchedRecord
  <2>2. CASE claim(n)
    <3>1. \/ sched'[n] = Idle(sched[n])
          \/ sched'[n] = [sched[n] EXCEPT !.pc = "assign", !.tasks = FirstOf(Claimable, ClaimCount(n))]
      BY Zenon, <2>2, BecomesIs DEF claim
    <3> QED
      BY Zenon, <1>1, <3>1 DEF SchedRecord
  <2>3. CASE dispatched(n)
    <3>1. sched'[n] = Continue(sched[n]) /\ sched[n].pc \in Dispatching
      BY <2>3, BecomesIs DEF dispatched, At, Dispatching
    <3> QED
      BY Zenon, <1>1, <3>1, ContinueFits
  <2> QED
    BY <2>1, <2>2, <2>3
<1> QED
  BY Zenon, <1>1, <1>2, ExecAfter DEF ExecInv

LEMMA assignExec ==
    ASSUME SysInv, LeaderInv, LeaseInv, ExecInv, MaxFaults = 0, NEW n \in Node, Scheduling(n), UNCHANGED runs, assign(n)
    PROVE  ExecInv'
<1> DEFINE t == First(sched[n].tasks)
           w == Pick(sched[n].free, counter[n])
<1>1. sched[n] \in SchedRecord /\ Fits(sched[n], n) /\ sched[n].pc = "assign" /\ IsLeader(n)
  BY SchedOf DEF assign, At, LeaderInv
<1>2. t \in Task
  BY Zenon, <1>1, ContinueFits DEF Dispatching
<1>3. w \in Node /\ w # n
  BY <1>1, PickFits DEF Fits, Dispatching
<1>4. ASSUME MarkAssigned(t, w), sched'[n] = [sched[n] EXCEPT !.pc = "call", !.worker = w] PROVE ExecInv'
  <2>1. status[t] = "SCHEDULING" /\ lease' = [lease EXCEPT ![t] = w] /\ expired' = expired \ {t}
    BY <1>4 DEF MarkAssigned, MarkAssignedOK
  <2> HIDE DEF t, w
  <2>2. lease[t] = NoWorker /\ NoWorker \notin Node
    BY <1>2, <2>1, TaskAssumption, SchedulerAssumption DEF LeaseInv, Active
  <2>3. sched'[n].pc = "call" /\ sched'[n].worker = w /\ sched'[n].tasks = sched[n].tasks
    BY <1>1, <1>4 DEF SchedRecord
  <2>4. First(sched'[n].tasks) = t
    BY <2>3 DEF t
  <2>5. \A q \in Task : lease'[q] = IF q = t THEN w ELSE lease[q]
    BY <2>1 DEF SysInv, StoreInv, StoreTypeOK
  <2>6. \A r \in runs : r.task = t => IsLeader(r.node)
    BY <2>2, RunOf DEF ExecInv
  <2>7. \A r \in runs : IsLeader(r.node) \/ lease'[r.task] = r.node
    BY Zenon, <2>5, <2>6, RunOf DEF ExecInv
  <2>8. \A q \in expired' : q \in expired /\ lease'[q] = lease[q]
    BY Zenon, <2>1, <2>5 DEF SysInv, StoreInv, StoreTypeOK
  <2>9. RunsOf(w, t) = {}
    BY Zenon, <1>1, <1>3, <2>6 DEF RunsOf, LeaderInv
  <2>10. lease'[t] = w /\ t \notin expired'
    BY ZenonT(30), <1>2, <2>1, <2>5
  <2> QED
    BY Zenon, <1>1, <2>3, <2>4, <2>7, <2>8, <2>9, <2>10, ExecAfter
<1>5. ASSUME UNCHANGED storeVars, sched'[n] = Continue(sched[n]) PROVE ExecInv'
  <2>1. sched'[n].pc \in {"idle", "assign"} /\ UNCHANGED <<lease, expired>>
    BY Zenon, <1>1, <1>5, ContinueFits DEF Dispatching, storeVars
  <2> QED
    BY <2>1, ExecAfter DEF ExecInv
<1> QED
  BY Zenon, <1>4, <1>5, NoFault, BecomesIs DEF assign, Fails

LEMMA lostExec ==
    ASSUME SysInv, LeaderInv, LeaseInv, ExecInv, MaxFaults = 0, NEW n \in Node, Scheduling(n), UNCHANGED runs,
           dispatchFailed(n) \/ workerLost(n)
    PROVE  ExecInv'
<1> DEFINE t == First(sched[n].tasks)
           w == sched[n].worker
<1>1. sched[n] \in SchedRecord /\ Fits(sched[n], n) /\ sched[n].pc \in Dispatching \ {"assign"} /\ IsLeader(n)
  BY SchedOf DEF dispatchFailed, workerLost, At, LeaderInv, Dispatching
<1>2. t \in Task
  BY Zenon, <1>1, ContinueFits
<1>3. CASE dispatchFailed(n)
  <2>1. sched'[n] = [sched[n] EXCEPT !.pc = "lost"] /\ sched[n].worker \notin up /\ UNCHANGED <<lease, expired>>
    BY Zenon, <1>3, NoFault, BecomesIs DEF dispatchFailed, GoTo, storeVars
  <2>2. sched'[n].pc = "lost" /\ sched'[n].worker = sched[n].worker
    BY Zenon, <1>1, <2>1 DEF SchedRecord
  <2>3. \A u : RunsOf(sched[n].worker, u) = {}
    BY <2>1 DEF ExecInv, RunsOf
  <2> QED
    BY Zenon, <2>1, <2>2, <2>3, ExecAfter DEF ExecInv
<1>4. CASE workerLost(n)
  <2>1. sched'[n] = Continue(sched[n]) /\ sched[n].pc = "lost" /\ (MarkWorkerLost(t, w) \/ UNCHANGED storeVars)
    BY Zenon, <1>4, NoFault, BecomesIs DEF workerLost, At, Fails
  <2>2. sched'[n].pc \in {"idle", "assign"}
    BY Zenon, <1>1, <2>1, ContinueFits
  <2>3. CASE UNCHANGED storeVars
    BY Zenon, <2>2, <2>3, ExecAfter DEF ExecInv, storeVars
  <2>4. CASE MarkWorkerLost(t, w)
    <3>1. lease[t] = w /\ RunsOf(w, t) = {}
      BY Zenon, <1>1, <2>1, <2>4 DEF MarkWorkerLost, MarkWorkerLostOK, LeaseInv, OwnAssignment, ExecInv
    <3>2. lease' = [lease EXCEPT ![t] = NoWorker] /\ expired' = expired \ {t}
      BY <2>4, <3>1 DEF MarkWorkerLost, DeleteLease
    <3> HIDE DEF t, w
    <3>3. \A q \in Task : lease'[q] = IF q = t THEN NoWorker ELSE lease[q]
      BY <3>2 DEF SysInv, StoreInv, StoreTypeOK
    <3>4. \A r \in runs : r.task = t => IsLeader(r.node)
      BY <3>1 DEF ExecInv, RunsOf
    <3>5. \A r \in runs : IsLeader(r.node) \/ lease'[r.task] = r.node
      BY Zenon, <3>3, <3>4, RunOf DEF ExecInv
    <3>6. \A q \in expired' : q \in expired /\ lease'[q] = lease[q]
      BY Zenon, <3>2, <3>3 DEF SysInv, StoreInv, StoreTypeOK
    <3> QED
      BY Zenon, <1>1, <2>2, <3>5, <3>6, ExecAfter
  <2> QED
    BY Zenon, <2>1, <2>3, <2>4
<1> QED
  BY ZenonT(30), <1>3, <1>4

LEMMA AssignTaskExec ==
    ASSUME SysInv, LeaderInv, ExecInv, NEW n \in Node, Scheduling(n), AssignTask(n) PROVE ExecInv'
<1> DEFINE t == First(sched[n].tasks)
           w == sched[n].worker
<1>1. sched[n] \in SchedRecord /\ sched[n].pc = "call" /\ t \in Task /\ w \in up /\ IsLeader(n)
  BY ZenonT(30), SchedOf, CallFits DEF AssignTask, LeaderInv
<1>2. lease[t] = w /\ RunsOf(w, t) = {} /\ t \notin expired
  BY <1>1 DEF ExecInv, Abandoned
<1>3. /\ UNCHANGED <<up, known, leader, lease, expired>>
      /\ sched'[n] = [sched[n] EXCEPT !.pc = "answered"] /\ \A m \in Node \ {n} : sched'[m] = sched[m]
  BY BecomesIs DEF AssignTask, GoTo, viewVars, storeVars
<1>4. PICK i \in 1..MaxRuns : runs' = runs \cup {[node |-> w, task |-> t, no |-> i, pc |-> "starting"]}
  BY DEF AssignTask, HandleAssignment
<1>5. \A m \in Node : sched'[m].pc \in {"idle", "answered"}
  BY <1>1, <1>3 DEF LeaderInv, SchedRecord
<1> HIDE DEF t, w
<1>6. \A r \in runs' : r \in runs \/ (r.node = w /\ r.task = t)
  BY <1>4
<1>7. \A r \in runs' : r.node \in up' /\ (IsLeader(r.node)' \/ lease'[r.task] = r.node)
  BY Zenon, <1>1, <1>2, <1>3, <1>6 DEF ExecInv, IsLeader
<1>8. \A r, s \in runs' : r.node = s.node /\ r.task = s.task => r = s
  <2> DEFINE new == [node |-> w, task |-> t, no |-> i, pc |-> "starting"]
  <2>1. new.node = w /\ new.task = t
    OBVIOUS
  <2> HIDE DEF new
  <2>2. \A r \in runs : ~(r.node = w /\ r.task = t)
    BY Zenon, <1>2 DEF RunsOf
  <2>3. \A r, s \in runs : r.node = s.node /\ r.task = s.task => r = s
    BY Zenon DEF ExecInv
  <2>4. runs' = runs \cup {new}
    BY Zenon, <1>4 DEF new
  <2> QED
    BY Zenon, <2>1, <2>2, <2>3, <2>4
<1>9. ASSUME NEW u \in expired' PROVE Abandoned(u)'
  <2>1. Abandoned(u) /\ u # t
    BY <1>2, <1>3 DEF ExecInv
  <2>2. \A r \in runs' : r.node = lease[u] /\ r.task = u => IsLeader(r.node)
    BY <1>6, <2>1 DEF Abandoned, RunsOf
  <2> QED
    BY Zenon, <1>3, <1>5, <2>2 DEF Abandoned, RunsOf, IsLeader
<1> QED
  BY Zenon, <1>3, <1>5, <1>7, <1>8, <1>9 DEF ExecInv

LEMMA SchedulingExec ==
    ASSUME SysInv, LeaderInv, LeaseInv, ExecInv, MaxFaults = 0, NEW n \in Node, Scheduling(n) PROVE ExecInv'
<1>1. CASE AssignTask(n)
  BY <1>1, AssignTaskExec
<1>2. CASE SchedulerStep(n) /\ UNCHANGED runs
  BY Zenon, <1>2, tickExec, recoverExec, claimExec, assignExec, lostExec DEF SchedulerStep
<1> QED
  BY Zenon, <1>1, <1>2 DEF Scheduling

\* A step that starts no execution and leaves the ticks alone.
LEMMA ExecKept ==
    ASSUME SysInv, ExecInv, up' \subseteq known',
           \A n \in Node : sched'[n] = sched[n] \/ sched'[n].pc = "idle",
           \A n \in Node : sched[n].pc = "call" => lease'[First(sched[n].tasks)] = lease[First(sched[n].tasks)],
           \A q \in runs' : /\ q.node \in Node /\ q.node \in up' /\ (IsLeader(q.node)' \/ lease'[q.task] = q.node)
                            /\ IsLeader(q.node) => IsLeader(q.node)'
                            /\ \E r \in runs : r.node = q.node /\ r.task = q.task,
           \A q, r \in runs' : q.node = r.node /\ q.task = r.task => q = r,
           \A t \in expired' : Abandoned(t) /\ lease'[t] = lease[t]
    PROVE  ExecInv'
<1>1. ASSUME NEW n \in Node
      PROVE  /\ sched'[n].pc = "call" => lease'[First(sched'[n].tasks)] = sched'[n].worker
             /\ sched'[n].pc \in {"call", "lost"} => RunsOf(sched[n].worker, First(sched[n].tasks))' = {}
             /\ sched'[n].pc \in {"stale", "dead"} => \A r \in runs' : r.node \in sched'[n].alive \cup {n}
  <2>1. CASE sched'[n].pc = "idle"
    BY <2>1
  <2>2. CASE sched'[n] = sched[n]
    <3>1. sched'[n].pc = "call" => lease'[First(sched'[n].tasks)] = sched'[n].worker
      <4>1. sched[n].pc = "call" => lease[First(sched[n].tasks)] = sched[n].worker
        BY Zenon DEF ExecInv
      <4> QED
        BY <2>2, <4>1
    <3>2. ASSUME sched'[n].pc \in {"call", "lost"}
          PROVE  RunsOf(sched[n].worker, First(sched[n].tasks))' = {}
      <4>1. RunsOf(sched[n].worker, First(sched[n].tasks)) = {}
        <5>1. sched[n].pc \in {"call", "lost"} => RunsOf(sched[n].worker, First(sched[n].tasks)) = {}
          BY Zenon DEF ExecInv
        <5> QED
          BY <2>2, <3>2, <5>1
      <4>2. \A q \in runs' : ~(q.node = sched[n].worker /\ q.task = First(sched[n].tasks))
        <5>1. \A q \in runs' : \E r \in runs : r.node = q.node /\ r.task = q.task
          BY Zenon
        <5>2. \A r \in runs : ~(r.node = sched[n].worker /\ r.task = First(sched[n].tasks))
          BY <4>1 DEF RunsOf
        <5> QED
          BY <5>1, <5>2
      <4>3. \A q \in runs' : ~(q.node = sched'[n].worker /\ q.task = First(sched'[n].tasks))
        BY <2>2, <4>2
      <4> QED
        BY <4>3 DEF RunsOf
    <3>3. ASSUME sched'[n].pc \in {"stale", "dead"}, NEW r \in runs'
          PROVE  r.node \in sched'[n].alive \cup {n}
      <4>1. PICK s \in runs : s.node = r.node /\ s.task = r.task
        BY Zenon
      <4>2. s.node \in sched[n].alive \cup {n}
        BY Zenon, <2>2, <3>3 DEF ExecInv
      <4> QED
        BY Zenon, <2>2, <4>1, <4>2
    <3> QED
      BY Zenon, <3>1, <3>2, <3>3
  <2> QED
    BY Zenon, <2>1, <2>2
<1>2. ASSUME NEW t \in expired' PROVE Abandoned(t)'
  <2>1. \A q \in runs' : q.node = lease'[t] /\ q.task = t => IsLeader(q.node)'
    BY DEF Abandoned, RunsOf
  <2>2. \A n \in Node : sched'[n].pc = "call" => First(sched'[n].tasks) # t
    BY DEF Abandoned
  <2> QED
    BY Zenon, <2>1, <2>2 DEF Abandoned, RunsOf
<1> QED
  BY Zenon, <1>1, <1>2 DEF ExecInv

LEMMA WorkerExec ==
    ASSUME SysInv, ExecInv, NEW r \in runs, WorkerStep(r), UNCHANGED schedVars PROVE ExecInv'
<1> DEFINE t == r.task
           w == r.node
<1>1. UNCHANGED <<up, known, leader, sched>> /\ r \in Run /\ t \in Task /\ w \in Node /\ w # NoWorker
  BY Zenon, WorkerFine, RunOf, TaskAssumption DEF schedVars
<1>2. \/ runs' = runs \/ runs' = runs \ {r}
      \/ \E pc \in {"executing", "succeeded", "failed"} : runs' = (runs \ {r}) \cup {[r EXCEPT !.pc = pc]}
  BY DEF WorkerStep, startTask, Execute, reportSuccess, reportFailure, renew, Returns, Proceeds
<1>3. \A pc : [r EXCEPT !.pc = pc].node = r.node /\ [r EXCEPT !.pc = pc].task = r.task
  BY <1>1 DEF Run
<1>4. /\ \A q \in runs' : \E s \in runs : s.node = q.node /\ s.task = q.task
      /\ \A q, s \in runs' : q.node = s.node /\ q.task = s.task => q = s
  <2>1. \A q, s \in runs : q.node = s.node /\ q.task = s.task => q = s
    BY DEF ExecInv
  <2>2. CASE runs' = runs \/ runs' = runs \ {r}
    BY Zenon, <2>1, <2>2
  <2>3. ASSUME NEW p, p.node = r.node, p.task = r.task, runs' = (runs \ {r}) \cup {p}
        PROVE  /\ \A q \in runs' : \E s \in runs : s.node = q.node /\ s.task = q.task
               /\ \A q, s \in runs' : q.node = s.node /\ q.task = s.task => q = s
    BY <2>1, <2>3
  <2> QED
    BY Zenon, <1>2, <1>3, <2>2, <2>3
<1>5. /\ expired' \subseteq expired /\ lease \in [Task -> Worker \cup {NoWorker}] /\ expired \subseteq Task
      /\ \/ UNCHANGED lease
         \/ /\ runs' = runs \ {r} /\ lease[t] = w /\ lease' = [lease EXCEPT ![t] = NoWorker] /\ t \notin expired'
  <2>1. CASE startTask(r) \/ Execute(r) \/ renew(r)
    BY <2>1 DEF startTask, Execute, renew, Answered, Refused, TimesOut, MarkRunning, RenewLease, storeVars,
                SysInv, StoreInv, StoreTypeOK
  <2>2. CASE reportSuccess(r) \/ reportFailure(r)
    <3>1. runs' = runs \ {r}
      BY <2>2 DEF reportSuccess, reportFailure, Returns
    <3>2. MarkCompleted(t, w) \/ MarkFailed(t, w) \/ UNCHANGED storeVars
      BY <2>2 DEF reportSuccess, reportFailure, Answered, Refused, TimesOut
    <3>3. UNCHANGED <<lease, expired>> \/ (lease[t] = w /\ DeleteLease(t, w))
      BY <3>2 DEF MarkCompleted, MarkCompletedOK, MarkFailed, MarkFailedOK, OwnedIn, storeVars
    <3> QED
      BY Zenon, <3>1, <3>3 DEF DeleteLease, SysInv, StoreInv, StoreTypeOK
  <2> QED
    BY ZenonT(30), <2>1, <2>2 DEF WorkerStep
<1> HIDE DEF t, w
<1>6. \A q \in runs' : q.node \in Node /\ q.node \in up /\ q.task \in Task /\ (IsLeader(q.node) \/ lease[q.task] = q.node)
  BY <1>4, RunOf DEF ExecInv
<1>7. \A q \in runs' : IsLeader(q.node)' \/ lease'[q.task] = q.node
  <2>1. CASE UNCHANGED lease
    BY Zenon, <1>1, <1>6, <2>1 DEF IsLeader
  <2>2. CASE runs' = runs \ {r} /\ lease[t] = w /\ lease' = [lease EXCEPT ![t] = NoWorker]
    <3>1. \A q \in runs' : q.task # t \/ IsLeader(q.node)
      BY <1>6, <2>2 DEF ExecInv, t, w
    <3> QED
      BY Zenon, <1>1, <1>5, <1>6, <2>2, <3>1 DEF IsLeader
  <2> QED
    BY Zenon, <1>5, <2>1, <2>2
<1>8. \A n \in Node : sched[n].pc = "call" => lease'[First(sched[n].tasks)] = lease[First(sched[n].tasks)]
  <2> SUFFICES ASSUME NEW n \in Node, sched[n].pc = "call"
               PROVE  lease'[First(sched[n].tasks)] = lease[First(sched[n].tasks)]
    OBVIOUS
  <2>1. First(sched[n].tasks) \in Task
    BY Zenon, SchedOf, ContinueFits DEF Dispatching
  <2>2. lease[First(sched[n].tasks)] = sched[n].worker /\ RunsOf(sched[n].worker, First(sched[n].tasks)) = {}
    BY DEF ExecInv
  <2>3. First(sched[n].tasks) # t \/ lease[t] # w
    BY <2>2 DEF RunsOf, t, w
  <2>4. CASE UNCHANGED lease
    BY <2>4
  <2>5. CASE lease[t] = w /\ lease' = [lease EXCEPT ![t] = NoWorker]
    BY Zenon, <1>5, <2>1, <2>3, <2>5
  <2> QED
    BY ZenonT(30), <1>5, <2>4, <2>5
<1>9. \A u \in expired' : Abandoned(u) /\ lease'[u] = lease[u]
  BY <1>5 DEF ExecInv
<1>10. \A q \in runs' : IsLeader(q.node) => IsLeader(q.node)'
  BY <1>1 DEF IsLeader
<1>11. up' \subseteq known'
  BY <1>1 DEF ExecInv
<1> QED
  BY Zenon, <1>1, <1>4, <1>6, <1>7, <1>8, <1>9, <1>10, <1>11, ExecKept

LEMMA CrashExec == ASSUME SysInv, ExecInv, NEW n \in Node, Crash(n) PROVE ExecInv'
<1>1. /\ up' = up \ {n} /\ UNCHANGED <<known, lease, expired>> /\ runs' = {r \in runs : r.node # n}
      /\ \A m \in Node \ {n} : leader'[m] = leader[m] /\ sched'[m] = sched[m]
      /\ sched'[n].pc = "idle"
  BY DEF Crash, Die, storeVars, SysInv, ViewTypeOK, SchedTypeOK, NewScheduler
<1>2. \A m \in Node : sched'[m] = sched[m] \/ sched'[m].pc = "idle"
  BY <1>1
<1>3. \A q \in runs' : /\ q.node \in Node /\ q.node \in up' /\ (IsLeader(q.node)' \/ lease'[q.task] = q.node)
                       /\ IsLeader(q.node) => IsLeader(q.node)'
                       /\ \E r \in runs : r.node = q.node /\ r.task = q.task
  BY Zenon, <1>1, RunOf DEF ExecInv, IsLeader
<1>4. \A q, r \in runs' : q.node = r.node /\ q.task = r.task => q = r
  BY <1>1 DEF ExecInv
<1>5. up' \subseteq known' /\ \A t \in expired' : Abandoned(t)
  BY <1>1 DEF ExecInv
<1> QED
  BY Zenon, <1>1, <1>2, <1>3, <1>4, <1>5, ExecKept

\* Without a handover nobody who runs stops being the leader.
LEMMA LeadershipExec ==
    ASSUME SysInv, LeaderInv, ExecInv, MaxHandovers = 0, LeadershipStep PROVE ExecInv'
<1>1. UNCHANGED <<lease, expired, sched, runs>>
  BY DEF LeadershipStep, storeVars, schedVars
<1>2. up \subseteq up' /\ up' \subseteq known' /\ \A m \in up : IsLeader(m) => IsLeader(m)'
  <2>1. ASSUME NEW n \in Node, StartNode(n)
        PROVE  up \subseteq up' /\ up' \subseteq known' /\ \A m \in up : IsLeader(m) => IsLeader(m)'
    BY <2>1 DEF StartNode, ExecInv, IsLeader
  <2>2. ASSUME NEW n \in Node, Detect(n)
        PROVE  up \subseteq up' /\ up' \subseteq known' /\ \A m \in up : IsLeader(m) => IsLeader(m)'
    BY <2>2 DEF Detect, ExecInv, IsLeader, SysInv, ViewTypeOK
  <2>3. ASSUME NEW l \in Node, Elect(l)
        PROVE  up \subseteq up' /\ up' \subseteq known' /\ \A m \in up : IsLeader(m) => IsLeader(m)'
    BY <2>3 DEF Elect, ActingLeaders, ExecInv, IsLeader, SysInv, ViewTypeOK
  <2>4. ASSUME NEW l \in Node PROVE ~Handover(l)
    BY DEF Handover, SysInv, ViewTypeOK
  <2> QED
    BY Zenon, <2>1, <2>2, <2>3, <2>4 DEF LeadershipStep
<1>3. \A q \in runs' : /\ q.node \in Node /\ q.node \in up' /\ (IsLeader(q.node)' \/ lease'[q.task] = q.node)
                       /\ IsLeader(q.node) => IsLeader(q.node)'
                       /\ \E r \in runs : r.node = q.node /\ r.task = q.task
  BY ZenonT(30), <1>1, <1>2, RunOf DEF ExecInv
<1>4. \A q, r \in runs' : q.node = r.node /\ q.task = r.task => q = r
  BY <1>1 DEF ExecInv
<1>5. \A t \in expired' : Abandoned(t)
  BY <1>1 DEF ExecInv
<1> QED
  BY Zenon, <1>1, <1>2, <1>3, <1>4, <1>5, ExecKept

\* A lease expires only when nobody is at work for it.
LEMMA OutsideExec ==
    ASSUME SysInv, LeaderInv, ExecInv, Timely, NEW t \in Task, SubmitTask(t) \/ Expire(t) PROVE ExecInv'
<1>1. UNCHANGED <<lease, sched, runs, up, known, leader>>
  BY DEF SubmitTask, Expire, Submit, LeaseExpires, viewVars, schedVars
<1>2. \A u \in expired' : u \in expired \/ (u = t /\ ~LeaseInUse(t))
  BY DEF SubmitTask, Expire, Submit, LeaseExpires
<1>3. ASSUME ~LeaseInUse(t) PROVE Abandoned(t)
  <2>1. \A r \in RunsOf(lease[t], t) : IsLeader(r.node)
    BY <1>3 DEF LeaseInUse
  <2>2. ASSUME NEW n \in Node, sched[n].pc = "call" PROVE First(sched[n].tasks) # t
    <3>1. n \in up
      BY <2>2 DEF LeaderInv, NewScheduler
    <3> QED
      BY SMTT(30), <1>3, <2>2, <3>1 DEF LeaseInUse, ExecInv
  <2> QED
    BY Zenon, <2>1, <2>2 DEF Abandoned
<1>4. \A u \in expired' : Abandoned(u)
  BY Zenon, <1>2, <1>3 DEF ExecInv
<1>5. \A q \in runs' : /\ q.node \in Node /\ q.node \in up' /\ (IsLeader(q.node)' \/ lease'[q.task] = q.node)
                       /\ IsLeader(q.node) => IsLeader(q.node)'
                       /\ \E r \in runs : r.node = q.node /\ r.task = q.task
  BY ZenonT(30), <1>1, RunOf DEF ExecInv, IsLeader
<1>6. (\A q, r \in runs' : q.node = r.node /\ q.task = r.task => q = r) /\ up' \subseteq known'
  BY <1>1 DEF ExecInv
<1> QED
  BY Zenon, <1>1, <1>4, <1>5, <1>6, ExecKept

LEMMA ExecInit == SystemInit => ExecInv
<1> SUFFICES ASSUME SystemInit PROVE ExecInv
  OBVIOUS
<1>1. runs = {} /\ expired = {} /\ up = known
  BY DEF SystemInit, WorkerInit, StoreInit, ViewInit
<1>2. \A n \in Node : sched[n].pc = "idle"
  BY DEF SystemInit, SchedInit, NewScheduler
<1> QED
  BY Zenon, <1>1, <1>2 DEF ExecInv

LEMMA ExecStep ==
    ASSUME Timely, MaxFaults = 0, MaxHandovers = 0
    PROVE  SysInv /\ LeaderInv /\ LeaseInv /\ ExecInv /\ [SystemNext]_systemVars => ExecInv'
<1> SUFFICES ASSUME SysInv, LeaderInv, LeaseInv, ExecInv, [SystemNext]_systemVars PROVE ExecInv'
  OBVIOUS
<1>1. CASE UNCHANGED systemVars
  BY <1>1 DEF systemVars, storeVars, schedVars, viewVars, ExecInv, Abandoned, RunsOf, IsLeader
<1>2. CASE SystemNext
  BY Zenon, <1>2, CrashExec, SchedulingExec, OutsideExec, LeadershipExec, WorkerExec DEF SystemNext, Working
<1> QED
  BY Zenon, <1>1, <1>2

\* Of two executions of the same task one is on the leader, while no leader is
\* replaced as long as it runs, leases outlast what is done for them and no call
\* fails: however many nodes crash and come back, and whenever they do.
THEOREM ExclusivelyExecuted ==
    ASSUME ~Overlap, Timely, MaxFaults = 0, MaxHandovers = 0 PROVE SystemSpec => []ExclusiveExecution
<1>1. SysInv /\ ExecInv => ExclusiveExecution
  BY DEF ExecInv, ExclusiveExecution
<1>2. SysInv /\ LeaderInv /\ [SystemNext]_systemVars => LeaderInv'
  BY LeaderStep
<1>3. SysInv /\ LeaderInv /\ LeaseInv /\ ExecInv /\ [SystemNext]_systemVars => ExecInv'
  BY ExecStep
<1> QED
  BY <1>1, <1>2, <1>3, LeaderInit, LeaseInit, LeaseStep, ExecInit, SysAlways, PTL DEF SystemSpec
=============================================================================
