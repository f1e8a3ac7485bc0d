------------------------ MODULE TaskSchedulingProofs ------------------------
(***************************************************************************)
(* What a scheduler promises while leaders change more slowly than the     *)
(* schedulers tick: a worker has one active task, and a claimed task has   *)
(* an owner.                                                               *)
(***************************************************************************)
EXTENDS TaskSystemProofs

\* The tasks a scheduler has yet to assign.
Left(s) == Cardinality(s.tasks) - (IF s.pc = "assign" THEN 0 ELSE 1)

\* Nobody holds a lease that one of the next picks would give away.
Unleased(s, c, l) ==
    /\ s.pc = "claim" => \A t \in Task : l[t] \notin s.free
    /\ s.pc \in Dispatching =>
          \A t \in Task : l[t] \in s.free =>
              ~Ahead(c % Cardinality(s.free), Left(s), Cardinality(s.free), Rank(s.free, l[t]))

\* The task a scheduler is dispatching is still with the worker it has picked.
OwnAssignment(s, st, l) ==
    s.pc \in Dispatching \ {"assign"} /\ st[First(s.tasks)] \in Active => l[First(s.tasks)] = s.worker

LeaseInv ==
    /\ \A t \in Task : lease[t] # NoWorker => status[t] \in Active
    /\ \A t, u \in Task : lease[t] # NoWorker /\ lease[t] = lease[u] => t = u
    /\ \A n \in Node : Unleased(sched[n], counter[n], lease) /\ OwnAssignment(sched[n], status, lease)

(* Without faults a scheduler has in hand all that is in SCHEDULING once    *)
(* it has done its recovery.                                                *)
Owns(s, t) == t \in s.tasks /\ (s.pc = "assign" \/ t # First(s.tasks))

OwnerInv ==
    \A t \in Task, n \in Node :
        /\ status[t] = "SCHEDULING" /\ IsLeader(n) /\ sched[n].recovered => Owns(sched[n], t)
        /\ sched[n].pc = "dead" => status[t] # "SCHEDULING"

-----------------------------------------------------------------------------
(* One lease for each worker.                                               *)

LeasedActive == \A t \in Task : lease[t] # NoWorker => status[t] \in Active

\* What every transaction but MarkAssigned does to the leases.
LeasesGo ==
    \A t \in Task :
        /\ lease'[t] = lease[t] \/ lease'[t] = NoWorker
        /\ lease'[t] # NoWorker => status'[t] \in Active
        /\ status'[t] \in Active => status[t] \in Active /\ lease'[t] = lease[t]

LEMMA NothingGoes == ASSUME LeasedActive, UNCHANGED storeVars PROVE LeasesGo
BY DEF LeasedActive, LeasesGo, storeVars

LEMMA RequeueGoes ==
    ASSUME LeasedActive, NEW S \in SUBSET Task, Requeue(S) PROVE LeasesGo
BY DEF LeasedActive, LeasesGo, Requeue, Active

\* Claims and the recovery of stale scheduling look for tasks without a lease.
LEMMA StatusGoes ==
    ASSUME LeasedActive, NEW S \in SUBSET Task, \A t \in S : status[t] \notin Active, NEW s, s \notin Active,
           status' = [t \in Task |-> IF t \in S THEN s ELSE status[t]], UNCHANGED lease
    PROVE  LeasesGo
BY DEF LeasedActive, LeasesGo

\* A task of which the lease is deleted, or which keeps its lease.
LEMMA OneGoes ==
    ASSUME StoreTypeOK, LeasedActive, NEW t \in Task, NEW s, status' = [status EXCEPT ![t] = s],
           \/ lease[t] = NoWorker /\ s \notin Active /\ UNCHANGED lease
           \/ s \notin Active /\ lease' = [lease EXCEPT ![t] = NoWorker]
           \/ status[t] \in Active /\ s \in Active /\ UNCHANGED lease
    PROVE  LeasesGo
<1>1. status'[t] = s /\ \A u \in Task \ {t} : status'[u] = status[u]
  BY DEF StoreTypeOK
<1>2. CASE UNCHANGED lease
  <2>1. IF s \in Active THEN status[t] \in Active ELSE lease'[t] = NoWorker
    BY <1>2 DEF StoreTypeOK
  <2> QED
    BY Zenon, <1>1, <1>2, <2>1 DEF LeasedActive, LeasesGo
<1>3. CASE s \notin Active /\ lease' = [lease EXCEPT ![t] = NoWorker]
  <2>1. lease'[t] = NoWorker /\ \A u \in Task \ {t} : lease'[u] = lease[u]
    BY <1>3 DEF StoreTypeOK
  <2> QED
    BY Zenon, <1>1, <1>3, <2>1 DEF LeasedActive, LeasesGo
<1> QED
  BY <1>2, <1>3

LEMMA WorkerGoes ==
    ASSUME StoreTypeOK, LeasedActive, NEW t \in Task, NEW w \in Worker,
           \/ MarkRunning(t, w) \/ MarkCompleted(t, w) \/ MarkFailed(t, w) \/ RenewLease(t, w)
           \/ UNCHANGED storeVars
    PROVE  LeasesGo
<1>1. CASE MarkRunning(t, w)
  BY Zenon, <1>1, OneGoes DEF MarkRunning, MarkRunningOK, OwnedIn, Active
<1>2. CASE MarkCompleted(t, w)
  BY Zenon, <1>2, OneGoes DEF MarkCompleted, MarkCompletedOK, OwnedIn, Active, DeleteLease
<1>3. CASE MarkFailed(t, w)
  <2>1. PICK s \in {"QUEUED", "FAILED"} : status' = [status EXCEPT ![t] = s]
    BY Zenon, <1>3 DEF MarkFailed
  <2> QED
    BY Zenon, <1>3, <2>1, OneGoes DEF MarkFailed, MarkFailedOK, OwnedIn, Active, DeleteLease
<1>4. CASE RenewLease(t, w)
  BY <1>4 DEF LeasedActive, LeasesGo, RenewLease
<1>5. CASE UNCHANGED storeVars
  BY <1>5, NothingGoes
<1> QED
  BY Zenon, <1>1, <1>2, <1>3, <1>4, <1>5

LEMMA OutsideGoes ==
    ASSUME StoreTypeOK, LeasedActive, NEW t \in Task, Submit(t) \/ LeaseExpires(t) PROVE LeasesGo
<1>1. CASE Submit(t)
  <2>1. lease[t] = NoWorker
    BY <1>1 DEF Submit, LeasedActive, Active
  <2> QED
    BY Zenon, <1>1, <2>1, OneGoes DEF Submit, Active
<1>2. CASE LeaseExpires(t)
  BY <1>2 DEF LeasedActive, LeasesGo, LeaseExpires
<1> QED
  BY <1>1, <1>2

\* A scheduler that does not move, or that ends up before its batch, keeps its part.
LEMMA GoesKeep ==
    ASSUME SysInv, LeaseInv, LeasesGo
    PROVE  /\ LeasedActive' /\ \A t, u \in Task : lease'[t] # NoWorker /\ lease'[t] = lease'[u] => t = u
           /\ \A n \in Node : Unleased(sched[n], counter[n], lease') /\ OwnAssignment(sched[n], status', lease')
<1>1. LeasedActive' /\ \A t, u \in Task : lease'[t] # NoWorker /\ lease'[t] = lease'[u] => t = u
  BY DEF LeaseInv, LeasesGo, LeasedActive
<1>2. ASSUME NEW n \in Node PROVE Unleased(sched[n], counter[n], lease') /\ OwnAssignment(sched[n], status', lease')
  <2>1. sched[n] \in SchedRecord /\ Fits(sched[n], n) /\ NoWorker \notin sched[n].free
    BY Zenon, SchedOf, SchedulerAssumption, TaskAssumption DEF SchedRecord
  <2>2. \A t \in Task : lease'[t] \in sched[n].free => lease'[t] = lease[t]
    BY <2>1 DEF LeasesGo
  <2>3. Unleased(sched[n], counter[n], lease')
    BY <2>2 DEF LeaseInv, Unleased
  <2>4. sched[n].pc \in Dispatching => First(sched[n].tasks) \in Task
    BY Zenon, <2>1, ContinueFits
  <2>5. OwnAssignment(sched[n], status', lease')
    BY <2>4 DEF LeaseInv, OwnAssignment, LeasesGo
  <2> QED
    BY <2>3, <2>5
<1> QED
  BY <1>1, <1>2

LEMMA LeaseInvAfter ==
    ASSUME SysInv, LeaseInv, LeasesGo, NEW n \in Node,
           \A m \in Node \ {n} : sched'[m] = sched[m] /\ counter'[m] = counter[m],
           Unleased(sched'[n], counter'[n], lease'), OwnAssignment(sched'[n], status', lease')
    PROVE  LeaseInv'
<1>1. \A m \in Node : Unleased(sched'[m], counter'[m], lease') /\ OwnAssignment(sched'[m], status', lease')
  BY GoesKeep
<1> QED
  BY <1>1, GoesKeep DEF LeaseInv, LeasedActive

LEMMA LeaseInvStays ==
    ASSUME SysInv, LeaseInv, LeasesGo, UNCHANGED schedVars PROVE LeaseInv'
<1>1. \A m \in Node : sched'[m] = sched[m] /\ counter'[m] = counter[m]
  BY DEF schedVars
<1>2. \A m \in Node : Unleased(sched'[m], counter'[m], lease') /\ OwnAssignment(sched'[m], status', lease')
  BY <1>1, GoesKeep
<1> QED
  BY <1>2, GoesKeep DEF LeaseInv, LeasedActive

LEMMA BecomesIs ==
    ASSUME SysInv, NEW n \in Node, NEW s, Becomes(n, s)
    PROVE  sched'[n] = s /\ \A m \in Node \ {n} : sched'[m] = sched[m]
BY DEF Becomes, SysInv, SchedTypeOK

\* The steps before ClaimQueued.
LEMMA QuietStep ==
    ASSUME SysInv, NEW n \in Node, tick(n) \/ recoverStale(n) \/ recoverDead(n) \/ recoverExpired(n)
    PROVE  /\ sched'[n].pc \notin {"claim"} \cup Dispatching /\ UNCHANGED counter
           /\ \/ RecoverStaleScheduling \/ RecoverExpiredLeases \/ RecoverDeadWorkerLeases(sched[n].alive)
              \/ UNCHANGED storeVars
<1>0. sched[n] \in SchedRecord /\ Idle(sched[n]).pc = "idle"
  BY SchedOf, NewFits
<1>1. UNCHANGED counter
  BY DEF tick, recoverStale, recoverDead, recoverExpired
<1>2. \/ RecoverStaleScheduling \/ RecoverExpiredLeases \/ RecoverDeadWorkerLeases(sched[n].alive)
      \/ UNCHANGED storeVars
  BY DEF tick, recoverStale, recoverDead, recoverExpired, Fails
<1>3. CASE tick(n)
  <2>1. sched[n].pc = "idle" /\ \/ sched'[n] = [sched[n] EXCEPT !.recovered = FALSE]
                                \/ sched'[n] = [sched[n] EXCEPT !.alive = aliveWorkers(n),
                                                  !.pc = IF sched[n].recovered THEN "expired" ELSE "stale"]
    BY <1>3, BecomesIs DEF tick, At
  <2>2. sched'[n].pc \in {"idle", "expired", "stale"}
    BY Zenon, <1>0, <2>1 DEF SchedRecord
  <2> QED
    BY Zenon, <1>1, <1>2, <2>2 DEF Dispatching
<1>4. CASE recoverStale(n) \/ recoverDead(n) \/ recoverExpired(n)
  <2>1. \/ sched'[n] = [sched[n] EXCEPT !.pc = "dead"]
        \/ sched'[n] = [sched[n] EXCEPT !.pc = "expired", !.recovered = TRUE]
        \/ sched'[n] = [sched[n] EXCEPT !.pc = "leases"]
        \/ sched'[n] = Idle(sched[n])
    BY <1>4, BecomesIs DEF recoverStale, recoverDead, recoverExpired, GoTo
  <2>2. sched'[n].pc \in {"idle", "dead", "expired", "leases"}
    BY Zenon, <1>0, <2>1 DEF SchedRecord
  <2> QED
    BY Zenon, <1>1, <1>2, <2>2 DEF Dispatching
<1> QED
  BY <1>3, <1>4

LEMMA BeforeClaim ==
    ASSUME NEW s, s.pc \notin {"claim"} \cup Dispatching
    PROVE  \A c, st, l : Unleased(s, c, l) /\ OwnAssignment(s, st, l)
BY DEF Unleased, OwnAssignment

LEMMA LeasedActiveNow == ASSUME LeaseInv PROVE LeasedActive
BY DEF LeaseInv, LeasedActive

LEMMA RecoveryGoes ==
    ASSUME SysInv, LeaseInv, NEW alive,
           \/ RecoverStaleScheduling \/ RecoverExpiredLeases \/ RecoverDeadWorkerLeases(alive) \/ UNCHANGED storeVars
    PROVE  LeasesGo
<1>1. expired \in SUBSET Task /\ DeadLeases(alive) \in SUBSET Task
  BY DEF SysInv, StoreInv, StoreTypeOK, DeadLeases
<1>2. CASE RecoverStaleScheduling
  <2>1. StaleScheduling \in SUBSET Task /\ \A t \in StaleScheduling : status[t] \notin Active
    BY DEF StaleScheduling, Active
  <2> QED
    BY Zenon, <1>2, <2>1, LeasedActiveNow, StatusGoes DEF RecoverStaleScheduling, Active
<1> QED
  BY Zenon, <1>1, <1>2, LeasedActiveNow, RequeueGoes, NothingGoes DEF RecoverExpiredLeases, RecoverDeadWorkerLeases

LEMMA quietKeeps ==
    ASSUME SysInv, LeaseInv, NEW n \in Node, Scheduling(n),
           tick(n) \/ recoverStale(n) \/ recoverDead(n) \/ recoverExpired(n)
    PROVE  LeaseInv'
<1>1. LeasesGo
  BY QuietStep, RecoveryGoes
<1> QED
  BY Zenon, <1>1, QuietStep, BeforeClaim, SchedulingMoves, LeaseInvAfter

LEMMA freeWorkersKeeps ==
    ASSUME SysInv, LeaseInv, NEW n \in Node, Scheduling(n), freeWorkers(n) PROVE LeaseInv'
<1>0. sched[n] \in SchedRecord /\ Idle(sched[n]).pc = "idle"
  BY SchedOf, NewFits
<1>1. LeasesGo /\ UNCHANGED lease
  BY LeasedActiveNow, NothingGoes DEF freeWorkers, storeVars
<1> DEFINE free == sched[n].alive \ Leased
           s == [sched[n] EXCEPT !.pc = "claim", !.free = free]
<1>2. sched'[n] = s \/ sched'[n] = Idle(sched[n])
  BY BecomesIs DEF freeWorkers
<1>3. s.pc = "claim" /\ s.free = free
  BY <1>0 DEF SchedRecord
<1>4. \A t \in Task : lease'[t] \notin free
  BY <1>1 DEF Leased
<1>5. Unleased(sched'[n], counter'[n], lease') /\ OwnAssignment(sched'[n], status', lease')
  BY Zenon, <1>0, <1>2, <1>3, <1>4, BeforeClaim DEF Unleased, OwnAssignment, Dispatching
<1> QED
  BY Zenon, <1>1, <1>5, SchedulingMoves, LeaseInvAfter

LEMMA claimKeeps ==
    ASSUME SysInv, LeaseInv, NEW n \in Node, Scheduling(n), claim(n) PROVE LeaseInv'
<1> DEFINE tasks == FirstOf(Claimable, ClaimCount(n))
           s == [sched[n] EXCEPT !.pc = "assign", !.tasks = tasks]
<1>0. sched[n] \in SchedRecord /\ Idle(sched[n]).pc = "idle" /\ sched[n].pc = "claim"
  BY SchedOf, NewFits DEF claim, At
<1>1. LeasesGo /\ UNCHANGED lease
  <2>1. tasks \in SUBSET Task /\ \A t \in tasks : status[t] \notin Active
    BY <1>0, ClaimFits DEF Claimable, Active
  <2>2. CASE ClaimQueued(ClaimCount(n))
    BY Zenon, <2>1, <2>2, LeasedActiveNow, StatusGoes DEF ClaimQueued, Active
  <2>3. CASE UNCHANGED storeVars
    BY Zenon, <2>3, LeasedActiveNow, NothingGoes DEF storeVars
  <2> QED
    BY <2>2, <2>3 DEF claim, Fails
<1>2. sched'[n] = s \/ sched'[n] = Idle(sched[n])
  BY BecomesIs DEF claim
<1>3. s.pc = "assign" /\ s.free = sched[n].free
  BY <1>0 DEF SchedRecord
<1>4. \A t \in Task : lease'[t] \notin sched[n].free
  BY <1>0, <1>1 DEF LeaseInv, Unleased
<1>5. Unleased(sched'[n], counter'[n], lease') /\ OwnAssignment(sched'[n], status', lease')
  BY Zenon, <1>0, <1>2, <1>3, <1>4, BeforeClaim DEF Unleased, OwnAssignment, Dispatching
<1> QED
  BY Zenon, <1>1, <1>5, SchedulingMoves, LeaseInvAfter

\* The end of a dispatch: the next pick is the same.
LEMMA ContinueKeeps ==
    ASSUME NEW n \in Node, NEW s \in SchedRecord, Fits(s, n), s.pc \in Dispatching \ {"assign"}, NEW c, NEW l,
           Unleased(s, c, l)
    PROVE  Unleased(Continue(s), c, l) /\ \A st : OwnAssignment(Continue(s), st, l)
<1>1. s.pc \in Dispatching /\ s.pc # "assign"
  OBVIOUS
<1>2. Continue(s).tasks = s.tasks \ {First(s.tasks)}
  BY Zenon, <1>1, ContinueFits
<1>3. Continue(s).pc = "idle" \/ (Continue(s).pc = "assign" /\ Continue(s).free = s.free)
  BY Zenon, <1>1, ContinueFits
<1>4. Cardinality(s.tasks \ {First(s.tasks)}) = Cardinality(s.tasks) - 1 /\ Cardinality(s.tasks) \in Nat
  BY Zenon, <1>1, ContinueFits, Finite DEF SchedRecord
<1>5. CASE Continue(s).pc = "idle"
  BY <1>5, BeforeClaim DEF Dispatching
<1>6. CASE Continue(s).pc = "assign" /\ Continue(s).free = s.free
  <2>1. Left(Continue(s)) = Left(s)
    BY <1>1, <1>2, <1>4, <1>6 DEF Left
  <2> QED
    BY Zenon, <1>1, <1>6, <2>1 DEF Unleased, OwnAssignment, Dispatching
<1> QED
  BY Zenon, <1>3, <1>5, <1>6

LEMMA DispatchMoves ==
    ASSUME SysInv, NEW n \in Node, NEW pc \in {"answered", "lost"}, sched[n].pc \in Dispatching \ {"assign"},
           NEW l, NEW st, Unleased(sched[n], counter[n], l), OwnAssignment(sched[n], st, l)
    PROVE  LET s == [sched[n] EXCEPT !.pc = pc] IN Unleased(s, counter[n], l) /\ OwnAssignment(s, st, l)
<1> DEFINE s == [sched[n] EXCEPT !.pc = pc]
<1>1. sched[n] \in SchedRecord
  BY SchedOf
<1>2. s.pc = pc /\ s.free = sched[n].free /\ s.tasks = sched[n].tasks /\ s.worker = sched[n].worker
  BY <1>1 DEF SchedRecord
<1>3. Left(s) = Left(sched[n])
  BY <1>2 DEF Left, Dispatching
<1> HIDE DEF s
<1>4. Unleased(s, counter[n], l)
  BY Zenon, <1>2, <1>3 DEF Unleased, Dispatching
<1>5. OwnAssignment(s, st, l)
  BY <1>2 DEF OwnAssignment, Dispatching
<1> QED
  BY <1>4, <1>5 DEF s

LEMMA dispatchKeeps ==
    ASSUME SysInv, LeaseInv, NEW n \in Node, Scheduling(n),
           dispatched(n) \/ dispatchFailed(n) \/ workerLost(n) \/ AssignTask(n)
    PROVE  LeaseInv'
<1>1. sched[n] \in SchedRecord /\ Fits(sched[n], n) /\ sched[n].pc \in Dispatching \ {"assign"} /\ UNCHANGED counter
  BY SchedOf DEF dispatched, dispatchFailed, workerLost, AssignTask, At, Dispatching
<1>2. LeasesGo
  <2>1. CASE UNCHANGED storeVars
    BY Zenon, <2>1, LeasedActiveNow, NothingGoes
  <2>2. CASE MarkWorkerLost(First(sched[n].tasks), sched[n].worker)
    <3> DEFINE t == First(sched[n].tasks)
    <3>1. t \in Task
      BY Zenon, <1>1, ContinueFits
    <3>2. lease[t] = sched[n].worker
      BY Zenon, <1>1, <2>2 DEF MarkWorkerLost, MarkWorkerLostOK, LeaseInv, OwnAssignment
    <3>3. status' = [status EXCEPT ![t] = "QUEUED"] /\ lease' = [lease EXCEPT ![t] = NoWorker]
      BY <2>2, <3>2 DEF MarkWorkerLost, DeleteLease
    <3> QED
      BY Zenon, <3>1, <3>3, LeasedActiveNow, OneGoes DEF SysInv, StoreInv, Active
  <2> QED
    BY Zenon, <2>1, <2>2 DEF dispatched, dispatchFailed, workerLost, AssignTask, Fails
<1>3. \/ sched'[n] = Continue(sched[n])
      \/ \E pc \in {"answered", "lost"} : sched'[n] = [sched[n] EXCEPT !.pc = pc]
  BY BecomesIs DEF dispatched, dispatchFailed, workerLost, AssignTask, GoTo
<1>4. Unleased(sched[n], counter[n], lease') /\ OwnAssignment(sched[n], status', lease')
  BY <1>2, GoesKeep
<1>5. Unleased(sched'[n], counter'[n], lease') /\ OwnAssignment(sched'[n], status', lease')
  BY <1>1, <1>3, <1>4, ContinueKeeps, DispatchMoves
<1> QED
  BY ZenonT(30), <1>2, <1>5, SchedulingMoves, LeaseInvAfter

LEMMA assignKeeps ==
    ASSUME SysInv, LeaderInv, LeaseInv, NEW n \in Node, Scheduling(n), assign(n) PROVE LeaseInv'
<1> DEFINE o == sched[n]
           t == First(o.tasks)
           w == Pick(o.free, counter[n])
           m == Cardinality(o.free)
           k == Cardinality(o.tasks)
           r == counter[n] % m
           s == [o EXCEPT !.pc = "call", !.worker = w]
<1>1. o \in SchedRecord /\ Fits(o, n) /\ o.pc = "assign" /\ o.pc \in Dispatching
  BY SchedOf DEF assign, At, Dispatching
<1>2. o.free # {} /\ o.free \in SUBSET Node /\ o.free # Node /\ o.free \in SUBSET Nat /\ IsFiniteSet(o.free)
  <2>1. o.free # {} /\ o.free \in SUBSET Node /\ n \notin o.free
    BY <1>1 DEF Fits, SchedRecord
  <2> QED
    BY <2>1, Finite
<1>3. m \in Nat \ {0} /\ Cycle % m = 0
  BY Zenon, <1>2, FS_CardinalityType, FS_EmptySet, SchedulerAssumption
<1>4. t \in Task /\ k \in 1..m
  BY Zenon, <1>1, ContinueFits
<1>5. w \in o.free /\ Rank(o.free, w) = r /\ w # NoWorker
  BY Zenon, <1>2, PickFits, SchedulerAssumption, TaskAssumption
<1>6. r \in 0..(m - 1) /\ \A v \in o.free : Rank(o.free, v) \in 0..(m - 1)
  <2>1. r \in 0..(m - 1)
    BY <1>3, SchedOf
  <2>2. \A v \in o.free : Rank(o.free, v) \in Nat /\ Rank(o.free, v) < m
    BY Zenon, <1>2, RankTyped, RankBelowSize
  <2> QED
    BY <1>3, <2>1, <2>2
<1>7. counter'[n] % m = IF r = m - 1 THEN 0 ELSE r + 1
  <2>1. counter'[n] = (counter[n] + 1) % Cycle /\ counter[n] \in 0..(Cycle - 1)
    BY SchedOf DEF assign, SysInv, SchedTypeOK
  <2> QED
    BY <1>3, <2>1, CounterStep
<1>8. /\ \A v \in o.free : Ahead(counter'[n] % m, k - 1, m, Rank(o.free, v)) =>
             Ahead(r, k, m, Rank(o.free, v)) /\ Rank(o.free, v) # r
      /\ Ahead(r, k, m, r)
  <2>1. Ahead(r, k, m, r)
    BY <1>3, <1>4, <1>6 DEF Ahead
  <2> QED
    BY SMTT(30), <1>3, <1>4, <1>6, <1>7, <2>1, AheadStep
<1>9. \A u \in Task : lease[u] \in o.free => ~Ahead(r, k, m, Rank(o.free, lease[u])) /\ lease[u] # w
  <2>1. Left(o) = k
    BY <1>1, <1>3, <1>4 DEF Left
  <2>2. \A u \in Task : lease[u] \in o.free => ~Ahead(r, k, m, Rank(o.free, lease[u]))
    BY Zenon, <1>1, <2>1 DEF LeaseInv, Unleased
  <2> QED
    BY Zenon, <1>5, <1>8, <2>2
<1>10. \A u \in Task : lease[u] # w
  BY <1>5, <1>9
\* What follows the pick: the next one is for one task less.
<1>11. /\ \/ sched'[n] = s /\ MarkAssigned(t, w)
          \/ sched'[n] = Continue(o)
       /\ MarkAssigned(t, w) \/ UNCHANGED storeVars
  BY BecomesIs DEF assign, Fails
<1>12. \/ sched'[n].pc = "idle"
       \/ /\ sched'[n].free = o.free /\ Left(sched'[n]) = k - 1
          /\ \/ sched'[n].pc = "assign"
             \/ /\ sched'[n].pc = "call" /\ sched'[n].tasks = o.tasks /\ sched'[n].worker = w
                /\ MarkAssigned(t, w)
  <2>1. CASE sched'[n] = s /\ MarkAssigned(t, w)
    <3>1. s.pc = "call" /\ s.free = o.free /\ s.tasks = o.tasks /\ s.worker = w
      BY <1>1 DEF SchedRecord
    <3> QED
      BY <2>1, <3>1 DEF Left
  <2>2. CASE sched'[n] = Continue(o)
    <3>1. /\ Continue(o).tasks = o.tasks \ {t} /\ Cardinality(o.tasks \ {t}) = k - 1
          /\ \/ Continue(o).pc = "idle"
             \/ Continue(o).pc = "assign" /\ Continue(o).free = o.free
      BY Zenon, <1>1, ContinueFits
    <3> QED
      BY <1>3, <1>4, <2>2, <3>1 DEF Left
  <2> QED
    BY Zenon, <1>11, <2>1, <2>2
<1>13. ASSUME \A u \in Task : \/ lease'[u] = lease[u]
                              \/ lease'[u] = w
       PROVE  Unleased(sched'[n], counter'[n], lease')
  <2>1. \A u \in Task : lease'[u] \in o.free => ~Ahead(counter'[n] % m, k - 1, m, Rank(o.free, lease'[u]))
    BY Zenon, <1>5, <1>8, <1>9, <1>13
  <2> QED
    BY Zenon, <1>12, <2>1 DEF Unleased, Dispatching
<1>14. CASE UNCHANGED storeVars
  <2>1. LeasesGo /\ ~MarkAssigned(t, w)
    BY Zenon, <1>4, <1>14, LeasedActiveNow, NothingGoes DEF MarkAssigned, MarkAssignedOK, storeVars, SysInv, StoreInv, StoreTypeOK
  <2>2. Unleased(sched'[n], counter'[n], lease')
    BY <1>13, <1>14 DEF storeVars
  <2>3. OwnAssignment(sched'[n], status', lease')
    BY <1>12, <2>1 DEF OwnAssignment, Dispatching
  <2> QED
    BY Zenon, <2>1, <2>2, <2>3, SchedulingMoves, LeaseInvAfter
<1>15. CASE MarkAssigned(t, w)
  <2>1. /\ status'[t] = "ASSIGNED" /\ lease'[t] = w
        /\ \A u \in Task \ {t} : status'[u] = status[u] /\ lease'[u] = lease[u]
    BY Zenon, <1>4, <1>15 DEF MarkAssigned, SysInv, StoreInv, StoreTypeOK
  <2>2. LeasedActive'
    BY <2>1, LeasedActiveNow DEF LeasedActive, Active
  <2>3. \A u, v \in Task : lease'[u] # NoWorker /\ lease'[u] = lease'[v] => u = v
    BY <1>10, <2>1 DEF LeaseInv
  <2>4. Unleased(sched'[n], counter'[n], lease')
    BY <1>13, <2>1
  <2>5. OwnAssignment(sched'[n], status', lease')
    BY <1>12, <2>1 DEF OwnAssignment, Dispatching
  <2>6. \A j \in Node \ {n} : sched'[j].pc = "idle"
    BY <1>1, SchedulingMoves DEF LeaderInv
  <2>7. \A j \in Node \ {n} : Unleased(sched'[j], counter'[j], lease') /\ OwnAssignment(sched'[j], status', lease')
    BY Zenon, <2>6, BeforeClaim DEF Dispatching
  <2> QED
    BY Zenon, <2>2, <2>3, <2>4, <2>5, <2>7 DEF LeaseInv, LeasedActive
<1> QED
  BY Zenon, <1>11, <1>14, <1>15

LEMMA LeaseInit == SystemInit => LeaseInv
<1> SUFFICES ASSUME SystemInit PROVE LeaseInv
  OBVIOUS
<1>1. \A t \in Task : lease[t] = NoWorker
  BY DEF SystemInit, StoreInit
<1>2. \A n \in Node : sched[n].pc = "idle"
  BY DEF SystemInit, SchedInit, NewScheduler
<1> QED
  BY Zenon, <1>1, <1>2, BeforeClaim DEF LeaseInv, Dispatching

LEMMA LeaseStep == SysInv /\ LeaderInv /\ LeaseInv /\ [SystemNext]_systemVars => LeaseInv'
<1> SUFFICES ASSUME SysInv, LeaderInv, LeaseInv, [SystemNext]_systemVars PROVE LeaseInv'
  OBVIOUS
<1>0. StoreTypeOK /\ LeasedActive
  BY LeasedActiveNow DEF SysInv, StoreInv
<1>1. ASSUME NEW n \in Node, Crash(n) PROVE LeaseInv'
  <2>1. /\ sched'[n] = NewScheduler /\ UNCHANGED storeVars
        /\ \A m \in Node \ {n} : sched'[m] = sched[m] /\ counter'[m] = counter[m]
    BY <1>1 DEF Crash, SysInv, SchedTypeOK
  <2>2. sched'[n].pc \notin {"claim"} \cup Dispatching
    BY <2>1 DEF NewScheduler, Dispatching
  <2> QED
    BY Zenon, <1>0, <2>1, <2>2, BeforeClaim, NothingGoes, LeaseInvAfter
<1>2. ASSUME NEW n \in Node, Scheduling(n) PROVE LeaseInv'
  BY Zenon, <1>2, quietKeeps, freeWorkersKeeps, claimKeeps, assignKeeps, dispatchKeeps DEF Scheduling, SchedulerStep
<1>3. ASSUME NEW t \in Task, SubmitTask(t) \/ Expire(t) PROVE LeaseInv'
  BY Zenon, <1>0, <1>3, OutsideGoes, LeaseInvStays DEF SubmitTask, Expire
<1>4. CASE LeadershipStep
  BY Zenon, <1>0, <1>4, NothingGoes, LeaseInvStays DEF LeadershipStep
<1>5. CASE Working
  <2>1. PICK r \in runs : WorkerStep(r) /\ UNCHANGED schedVars
    BY <1>5 DEF Working
  <2>2. LeasesGo
    BY Zenon, <1>0, <2>1, RunOf, WorkerTransaction, WorkerGoes
  <2> QED
    BY Zenon, <2>1, <2>2, LeaseInvStays
<1>6. CASE UNCHANGED systemVars
  BY Zenon, <1>0, <1>6, NothingGoes, LeaseInvStays DEF systemVars
<1> QED
  BY Zenon, <1>1, <1>2, <1>3, <1>4, <1>5, <1>6 DEF SystemNext

\* A worker has one task at a time, whatever crashes and fails, while leaders change
\* more slowly than the schedulers tick: RoundRobin does not come back to a worker
\* within a batch, and a batch is not larger than the number of workers without a lease.
THEOREM OneTaskPerWorker ==
    ASSUME ~Overlap PROVE SystemSpec => []OneActiveTaskPerWorker
<1>1. SysInv /\ LeaseInv => OneActiveTaskPerWorker
  BY DEF SysInv, StoreInv, ActiveIsLeased, LeaseInv, OneActiveTaskPerWorker
<1>2. SysInv /\ LeaderInv /\ [SystemNext]_systemVars => LeaderInv'
  BY LeaderStep
<1> QED
  BY <1>1, <1>2, LeaderInit, LeaseInit, LeaseStep, SysAlways, PTL DEF SystemSpec

-----------------------------------------------------------------------------
(* The owner of a task in SCHEDULING.                                       *)

\* Nobody but a claim brings a task into SCHEDULING.
NoneScheduled == \A t \in Task : status'[t] = "SCHEDULING" => status[t] = "SCHEDULING"

LEMMA WorkersScheduleNone ==
    ASSUME SysInv, NEW r \in runs, WorkerStep(r) PROVE NoneScheduled
<1>1. r.task \in Task /\ status \in [Task -> States \cup {"ABSENT"}]
  BY RunOf DEF SysInv, StoreInv, StoreTypeOK
<1>2. \/ UNCHANGED status
      \/ \E s \in {"RUNNING", "COMPLETED", "QUEUED", "FAILED"} : status' = [status EXCEPT ![r.task] = s]
  BY WorkerTransaction DEF MarkRunning, MarkCompleted, MarkFailed, RenewLease, storeVars
<1> QED
  BY <1>1, <1>2 DEF NoneScheduled

\* A scheduler that is not moving keeps what it owns.
LEMMA OwnerStays ==
    ASSUME SysInv, OwnerInv, NoneScheduled, NEW n \in Node,
           sched'[n] = sched[n], IsLeader(n)' => IsLeader(n) \/ ~sched[n].recovered
    PROVE  \A t \in Task :
              /\ status'[t] = "SCHEDULING" /\ IsLeader(n)' /\ sched'[n].recovered => Owns(sched'[n], t)
              /\ sched'[n].pc = "dead" => status'[t] # "SCHEDULING"
BY DEF OwnerInv, NoneScheduled

LEMMA OwnerInvStays ==
    ASSUME SysInv, OwnerInv, NoneScheduled, UNCHANGED sched,
           \A n \in Node : IsLeader(n)' => IsLeader(n) \/ ~sched[n].recovered
    PROVE  OwnerInv'
BY OwnerStays DEF OwnerInv

\* The scheduler that moves is the leader or has not begun a tick.
LEMMA OwnerInvAfter ==
    ASSUME SysInv, LeaderInv, OwnerInv, NEW n \in Node, Scheduling(n),
           IsLeader(n) \/ NoneScheduled,
           \A t \in Task : /\ status'[t] = "SCHEDULING" /\ IsLeader(n) /\ sched'[n].recovered => Owns(sched'[n], t)
                           /\ sched'[n].pc = "dead" => status'[t] # "SCHEDULING"
    PROVE  OwnerInv'
<1>1. UNCHANGED leader /\ \A m \in Node \ {n} : sched'[m] = sched[m]
  BY SchedulingMoves
<1>2. CASE IsLeader(n)
  <2>1. \A m \in Node \ {n} : ~IsLeader(m)' /\ sched'[m].pc # "dead"
    BY <1>1, <1>2 DEF LeaderInv, IsLeader
  <2> QED
    BY Zenon, <1>1, <2>1 DEF OwnerInv, IsLeader
<1>3. CASE NoneScheduled
  <2>1. \A m \in Node \ {n} : IsLeader(m)' => IsLeader(m)
    BY <1>1 DEF IsLeader
  <2>2. \A m \in Node \ {n}, t \in Task :
              /\ status'[t] = "SCHEDULING" /\ IsLeader(m)' /\ sched'[m].recovered => Owns(sched'[m], t)
              /\ sched'[m].pc = "dead" => status'[t] # "SCHEDULING"
    BY Zenon, <1>1, <1>3, <2>1, OwnerStays
  <2> QED
    BY <1>1, <2>2 DEF OwnerInv, IsLeader
<1> QED
  BY <1>2, <1>3

LEMMA NoFault == ASSUME SysInv, MaxFaults = 0 PROVE ~Fault
BY DEF SysInv, ViewTypeOK, Fault

\* Before its claim, a scheduler that has done its recovery finds nothing in SCHEDULING.
LEMMA NothingInHand ==
    ASSUME SysInv, LeaderInv, OwnerInv, NEW n \in Node, sched[n].pc \in {"dead", "expired", "leases", "claim"}
    PROVE  IsLeader(n) /\ \A t \in Task : status[t] # "SCHEDULING"
<1>1. IsLeader(n)
  BY DEF LeaderInv
<1>2. CASE sched[n].pc = "dead"
  BY <1>1, <1>2 DEF OwnerInv
<1>3. CASE sched[n].pc \in {"expired", "leases", "claim"}
  <2>1. sched[n].recovered /\ sched[n].tasks = {}
    BY <1>3, SchedOf DEF Fits, Dispatching
  <2> QED
    BY <1>1, <2>1 DEF OwnerInv, Owns
<1> QED
  BY <1>2, <1>3

LEMMA OwnContinue ==
    ASSUME NEW n \in Node, NEW s \in SchedRecord, Fits(s, n), s.pc \in Dispatching,
           NEW t \in s.tasks, t # First(s.tasks)
    PROVE  Owns(Continue(s), t)
<1>1. /\ Continue(s).tasks = s.tasks \ {First(s.tasks)} /\ Fits(Continue(s), n)
      /\ \/ Continue(s).pc = "idle"
         \/ Continue(s).pc = "assign" /\ Continue(s).free = s.free
  BY Zenon, ContinueFits
<1> QED
  BY <1>1 DEF Owns, Fits, Dispatching

LEMMA tickOwns ==
    ASSUME SysInv, LeaderInv, OwnerInv, NEW n \in Node, Scheduling(n), tick(n) PROVE OwnerInv'
<1>1. sched[n] \in SchedRecord /\ sched[n].pc = "idle" /\ sched[n].tasks = {}
  BY SchedOf DEF tick, At, Fits, Dispatching
<1>2. NoneScheduled /\ UNCHANGED status
  BY DEF tick, storeVars, NoneScheduled
<1>3. IsLeader(n) /\ sched[n].recovered => \A t \in Task : status[t] # "SCHEDULING"
  BY <1>1 DEF OwnerInv, Owns
<1>4. CASE ~IsLeader(n)
  <2>1. sched'[n] = [sched[n] EXCEPT !.recovered = FALSE]
    BY <1>4, BecomesIs DEF tick
  <2>2. sched'[n].pc = "idle"
    BY <1>1, <2>1 DEF SchedRecord
  <2> QED
    BY Zenon, <1>2, <1>4, <2>2, OwnerInvAfter
<1>5. CASE IsLeader(n)
  <2>1. sched'[n] = [sched[n] EXCEPT !.alive = aliveWorkers(n),
                                     !.pc = IF sched[n].recovered THEN "expired" ELSE "stale"]
    BY Zenon, <1>5, BecomesIs DEF tick
  <2>2. sched'[n].pc # "dead" /\ sched'[n].recovered = sched[n].recovered
    BY Zenon, <1>1, <2>1 DEF SchedRecord
  <2> QED
    BY Zenon, <1>2, <1>3, <1>5, <2>2, OwnerInvAfter
<1> QED
  BY Zenon, <1>4, <1>5

LEMMA recoverOwns ==
    ASSUME SysInv, LeaderInv, LeaseInv, OwnerInv, MaxFaults = 0, NEW n \in Node, Scheduling(n),
           recoverStale(n) \/ recoverDead(n) \/ recoverExpired(n) \/ freeWorkers(n)
    PROVE  OwnerInv'
<1>0. sched[n] \in SchedRecord /\ Fits(sched[n], n) /\ StoreTypeOK
  BY SchedOf DEF SysInv, StoreInv
<1>1. CASE recoverStale(n)
  <2>1. sched[n].pc = "stale" /\ sched'[n] = [sched[n] EXCEPT !.pc = "dead"] /\ RecoverStaleScheduling
    BY Zenon, <1>1, NoFault, BecomesIs DEF recoverStale, GoTo, At, Fails
  <2>2. IsLeader(n) /\ ~sched'[n].recovered
    BY Zenon, <1>0, <2>1 DEF LeaderInv, Fits, SchedRecord
  <2>3. \A t \in Task : status'[t] # "SCHEDULING"
    BY <2>1 DEF RecoverStaleScheduling, StaleScheduling, LeaseInv, Active
  <2> QED
    BY Zenon, <2>2, <2>3, OwnerInvAfter
<1>2. CASE recoverDead(n) \/ recoverExpired(n) \/ freeWorkers(n)
  <2>1. sched[n].pc \in {"dead", "expired", "leases"}
    BY <1>2 DEF recoverDead, recoverExpired, freeWorkers, At
  <2>2. IsLeader(n) /\ \A t \in Task : status[t] # "SCHEDULING"
    BY <2>1, NothingInHand
  <2>3. \A t \in Task : status'[t] # "SCHEDULING"
    BY Zenon, <1>2, <2>2, NoFault DEF recoverDead, recoverExpired, freeWorkers, Fails, RecoverDeadWorkerLeases,
                               RecoverExpiredLeases, Requeue, storeVars
  <2> QED
    BY ZenonT(30), <2>2, <2>3, OwnerInvAfter
<1> QED
  BY <1>1, <1>2

LEMMA claimOwns ==
    ASSUME SysInv, LeaderInv, OwnerInv, MaxFaults = 0, NEW n \in Node, Scheduling(n), claim(n) PROVE OwnerInv'
<1> DEFINE tasks == FirstOf(Claimable, ClaimCount(n))
           s == [sched[n] EXCEPT !.pc = "assign", !.tasks = tasks]
<1>1. sched[n] \in SchedRecord /\ sched[n].pc = "claim"
  BY SchedOf DEF claim, At
<1>2. IsLeader(n) /\ \A t \in Task : status[t] # "SCHEDULING"
  BY Zenon, <1>1, NothingInHand
<1>3. ClaimQueued(ClaimCount(n)) /\ sched'[n] = IF tasks = {} THEN Idle(sched[n]) ELSE s
  BY Zenon, NoFault, BecomesIs DEF claim, Fails
<1>4. \A t \in Task : status'[t] = "SCHEDULING" => t \in tasks
  BY <1>2, <1>3 DEF ClaimQueued
<1>5. CASE tasks = {}
  BY Zenon, <1>2, <1>4, <1>5, OwnerInvAfter
<1>6. CASE tasks # {}
  <2>1. sched'[n].pc = "assign" /\ sched'[n].tasks = tasks
    BY Zenon, <1>1, <1>3, <1>6 DEF SchedRecord
  <2> QED
    BY Zenon, <1>2, <1>4, <2>1, OwnerInvAfter DEF Owns
<1> QED
  BY <1>5, <1>6

LEMMA dispatchOwns ==
    ASSUME SysInv, LeaderInv, OwnerInv, MaxFaults = 0, NEW n \in Node, Scheduling(n),
           assign(n) \/ dispatched(n) \/ dispatchFailed(n) \/ workerLost(n) \/ AssignTask(n)
    PROVE  OwnerInv'
<1> DEFINE o == sched[n]
           t == First(o.tasks)
           w == Pick(o.free, counter[n])
<1>1. o \in SchedRecord /\ Fits(o, n) /\ o.pc \in Dispatching /\ status \in [Task -> States \cup {"ABSENT"}]
  BY SchedOf DEF assign, dispatched, dispatchFailed, workerLost, AssignTask, At, Dispatching, SysInv, StoreInv, StoreTypeOK
<1>2. IsLeader(n) /\ o.recovered /\ t \in Task
  BY Zenon, <1>1, ContinueFits DEF LeaderInv, Fits, Dispatching
<1>3. \A u \in Task : status[u] = "SCHEDULING" => Owns(o, u)
  BY <1>2 DEF OwnerInv
\* The task at hand has left SCHEDULING, and no other one enters it.
<1>4. \A u \in Task : status'[u] = "SCHEDULING" => u \in o.tasks /\ u # t
  <2>1. CASE assign(n)
    <3>1. o.pc = "assign" /\ (MarkAssigned(t, w) \/ (status[t] # "SCHEDULING" /\ UNCHANGED status))
      BY Zenon, <2>1, NoFault DEF assign, At, Fails, MarkAssignedOK, storeVars
    <3>2. status'[t] # "SCHEDULING" /\ \A u \in Task \ {t} : status'[u] = status[u]
      BY Zenon, <1>1, <1>2, <3>1 DEF MarkAssigned
    <3> QED
      BY Zenon, <1>3, <3>2 DEF Owns
  <2>2. CASE dispatched(n) \/ dispatchFailed(n) \/ workerLost(n) \/ AssignTask(n)
    <3>1. o.pc # "assign" /\ (MarkWorkerLost(t, o.worker) \/ UNCHANGED status)
      BY <2>2 DEF dispatched, dispatchFailed, workerLost, AssignTask, At, Fails, storeVars
    <3>2. NoneScheduled
      BY Zenon, <1>1, <1>2, <3>1 DEF MarkWorkerLost, NoneScheduled
    <3> QED
      BY ZenonT(30), <1>3, <3>1, <3>2 DEF Owns, NoneScheduled
  <2> QED
    BY Zenon, <2>1, <2>2
<1>5. \/ sched'[n] = Continue(o)
      \/ sched'[n] = [o EXCEPT !.pc = "call", !.worker = w]
      \/ \E pc \in {"answered", "lost"} : sched'[n] = [o EXCEPT !.pc = pc]
  BY BecomesIs DEF assign, dispatched, dispatchFailed, workerLost, AssignTask, GoTo
<1>6. CASE sched'[n] = Continue(o)
  <2>1. sched'[n].pc # "dead"
    BY Zenon, <1>1, <1>6, ContinueFits
  <2> QED
    BY Zenon, <1>1, <1>2, <1>4, <1>6, <2>1, OwnContinue, OwnerInvAfter
<1>7. CASE sched'[n].tasks = o.tasks /\ sched'[n].pc \in {"call", "answered", "lost"}
  BY Zenon, <1>2, <1>4, <1>7, OwnerInvAfter DEF Owns
<1>8. CASE sched'[n] # Continue(o)
  BY ZenonT(30), <1>1, <1>5, <1>7, <1>8 DEF SchedRecord
<1> QED
  BY Zenon, <1>6, <1>8

LEMMA OwnerInit == SystemInit => OwnerInv
<1> SUFFICES ASSUME SystemInit PROVE OwnerInv
  OBVIOUS
<1>1. (\A t \in Task : status[t] = "ABSENT") /\ \A n \in Node : sched[n].pc = "idle"
  BY DEF SystemInit, StoreInit, SchedInit, NewScheduler
<1> QED
  BY <1>1 DEF OwnerInv

LEMMA OwnerStep ==
    SysInv /\ ~Overlap /\ MaxFaults = 0 /\ LeaderInv /\ LeaseInv /\ OwnerInv /\ [SystemNext]_systemVars => OwnerInv'
<1> SUFFICES ASSUME SysInv, ~Overlap, MaxFaults = 0, LeaderInv, LeaseInv, OwnerInv, [SystemNext]_systemVars
             PROVE  OwnerInv'
  OBVIOUS
<1>0. /\ \A n \in Node : n # NoLeader
      /\ status \in [Task -> States \cup {"ABSENT"}]
  BY NodeAssumption DEF SysInv, StoreInv, StoreTypeOK
<1>1. ASSUME NEW n \in Node, Crash(n) PROVE OwnerInv'
  <2>1. /\ sched'[n] = NewScheduler /\ NewScheduler.pc = "idle" /\ ~NewScheduler.recovered /\ NoneScheduled
        /\ \A m \in Node \ {n} : sched'[m] = sched[m] /\ leader'[m] = leader[m]
    BY <1>1 DEF Crash, Die, SysInv, SchedTypeOK, ViewTypeOK, NewScheduler, storeVars, NoneScheduled
  <2>2. \A m \in Node \ {n}, t \in Task :
              /\ status'[t] = "SCHEDULING" /\ IsLeader(m)' /\ sched'[m].recovered => Owns(sched'[m], t)
              /\ sched'[m].pc = "dead" => status'[t] # "SCHEDULING"
    BY <2>1, OwnerStays DEF IsLeader
  <2> QED
    BY Zenon, <2>1, <2>2 DEF OwnerInv
<1>2. ASSUME NEW n \in Node, Scheduling(n) PROVE OwnerInv'
  BY Zenon, <1>2, tickOwns, recoverOwns, claimOwns, dispatchOwns DEF Scheduling, SchedulerStep
<1>3. ASSUME NEW t \in Task, SubmitTask(t) \/ Expire(t) PROVE OwnerInv'
  <2>1. NoneScheduled /\ UNCHANGED <<sched, leader>>
    BY Zenon, <1>0, <1>3 DEF SubmitTask, Expire, Submit, LeaseExpires, NoneScheduled, schedVars, viewVars
  <2> QED
    BY Zenon, <2>1, OwnerInvStays DEF IsLeader
<1>4. CASE LeadershipStep
  <2>1. NoneScheduled /\ UNCHANGED sched
    BY <1>4 DEF LeadershipStep, storeVars, schedVars, NoneScheduled
  <2>2. ASSUME NEW n \in Node, StartNode(n) \/ Detect(n) PROVE \A m \in Node : IsLeader(m)' => IsLeader(m)
    BY Zenon, <1>0, <2>2 DEF StartNode, Detect, IsLeader
  <2>3. ASSUME NEW l \in Node, TicksOver(l), Elect(l) \/ Handover(l)
        PROVE  \A m \in Node : IsLeader(m)' => IsLeader(m) \/ ~sched[m].recovered
    BY <2>3 DEF Elect, Handover, TicksOver, IsLeader
  <2>4. \A m \in Node : IsLeader(m)' => IsLeader(m) \/ ~sched[m].recovered
    BY Zenon, <1>4, <2>2, <2>3 DEF LeadershipStep
  <2> QED
    BY Zenon, <2>1, <2>4, OwnerInvStays
<1>5. CASE Working
  <2>1. NoneScheduled /\ UNCHANGED <<sched, leader>>
    BY Zenon, <1>5, WorkerFine, WorkersScheduleNone DEF Working, schedVars
  <2> QED
    BY Zenon, <2>1, OwnerInvStays DEF IsLeader
<1>6. CASE UNCHANGED systemVars
  <2>1. NoneScheduled /\ UNCHANGED <<sched, leader>>
    BY <1>6 DEF systemVars, storeVars, schedVars, viewVars, NoneScheduled
  <2> QED
    BY <2>1, OwnerInvStays DEF IsLeader
<1> QED
  BY Zenon, <1>1, <1>2, <1>3, <1>4, <1>5, <1>6 DEF SystemNext

\* A task in SCHEDULING is in the hands of a scheduler, or the leader has yet to do
\* its recovery, while leaders change more slowly than the schedulers tick and no
\* call fails.
THEOREM SchedulingOwned ==
    ASSUME ~Overlap, MaxFaults = 0 PROVE SystemSpec => []SchedulingHasOwner
<1>1. LeaderInv /\ OwnerInv /\ SysInv => SchedulingHasOwner
  <2> SUFFICES ASSUME LeaderInv, OwnerInv, SysInv, NEW t \in Task, status[t] = "SCHEDULING",
                      NEW n \in up, IsLeader(n), sched[n].recovered
               PROVE  \E m \in up : t \in sched[m].tasks /\ (At(m, "assign") \/ t # First(sched[m].tasks))
    BY DEF SchedulingHasOwner
  <2>1. n \in Node
    BY DEF SysInv, ViewTypeOK
  <2>2. Owns(sched[n], t)
    BY <2>1 DEF OwnerInv
  <2> QED
    BY <2>2 DEF Owns, At
<1>2. SysInv /\ LeaderInv /\ [SystemNext]_systemVars => LeaderInv'
  BY LeaderStep
<1>3. SysInv /\ LeaderInv /\ LeaseInv /\ OwnerInv /\ [SystemNext]_systemVars => OwnerInv'
  BY OwnerStep
<1> QED
  BY <1>1, <1>2, <1>3, LeaderInit, LeaseInit, LeaseStep, OwnerInit, SysAlways, PTL DEF SystemSpec
=============================================================================
