-------------------------- MODULE TaskStoreProofs --------------------------
(***************************************************************************)
(* What TLAPS proves about TaskStore, for every set of tasks and workers,  *)
(* every retry limit and any clients.                                      *)
(***************************************************************************)
EXTENDS TaskStore, TLAPS

\* task_lease.task_id references a task.
ForeignKey == \A t \in Task : status[t] = "ABSENT" => lease[t] = NoWorker

\* The invariants of the store need each other: a recovery requeues every leased
\* task, which is right only because finished tasks have no lease; a failure may
\* be counted only because an active task has retries left.
StoreInv == StoreTypeOK /\ ActiveIsLeased /\ TerminalIsUnleased /\ RetryBudget /\ ForeignKey

\* The same, of one task.
Sound(s, f, l, max) ==
    /\ s \in Active => l # NoWorker
    /\ s \in Terminal \cup {"ABSENT"} => l = NoWorker
    /\ f <= max
    /\ s \in Active \cup {"SCHEDULING"} => f < max
    /\ s = "FAILED" <=> f = max /\ max > 0

LEMMA StoreInvByTask ==
    StoreInv <=> StoreTypeOK /\ \A t \in Task : Sound(status[t], failed[t], lease[t], MaxRetries[t])
BY DEF StoreInv, ActiveIsLeased, TerminalIsUnleased, RetryBudget, ForeignKey, Sound

LEMMA SoundAfter ==
    ASSUME StoreTypeOK', \A t \in Task : Sound(status'[t], failed'[t], lease'[t], MaxRetries[t])
    PROVE  StoreInv'
BY DEF StoreInv, ActiveIsLeased, TerminalIsUnleased, RetryBudget, ForeignKey, Sound

\* A transaction that writes to one task only.
LEMMA OneTask ==
    ASSUME StoreInv, NEW t \in Task, NEW s \in States, NEW f \in Nat, NEW l \in Worker \cup {NoWorker},
           Sound(s, f, l, MaxRetries[t]),
           status' = [status EXCEPT ![t] = s], failed' = [failed EXCEPT ![t] = f],
           lease' = [lease EXCEPT ![t] = l], expired' \subseteq expired, l = NoWorker => t \notin expired'
    PROVE  StoreInv'
<1>1. StoreTypeOK
  BY DEF StoreInv
<1>2. /\ status'[t] = s /\ failed'[t] = f /\ lease'[t] = l
      /\ \A u \in Task \ {t} : /\ status'[u] = status[u] /\ failed'[u] = failed[u]
                               /\ lease'[u] = lease[u]
  BY <1>1 DEF StoreTypeOK
<1>3. StoreTypeOK'
  <2>1. /\ status' \in [Task -> States \cup {"ABSENT"}] /\ failed' \in [Task -> Nat]
        /\ lease' \in [Task -> Worker \cup {NoWorker}]
    BY <1>1 DEF StoreTypeOK
  <2>2. expired' \subseteq {u \in Task : lease'[u] # NoWorker}
    BY <1>1, <1>2 DEF StoreTypeOK
  <2> QED
    BY <2>1, <2>2 DEF StoreTypeOK
<1>4. \A u \in Task : Sound(status'[u], failed'[u], lease'[u], MaxRetries[u])
  BY <1>2, StoreInvByTask
<1> QED
  BY <1>3, <1>4, SoundAfter

LEMMA StoreInitSound == StoreInit => StoreInv
<1> SUFFICES ASSUME StoreInit PROVE StoreInv
  OBVIOUS
<1>1. StoreTypeOK
  BY DEF StoreInit, StoreTypeOK
<1>2. ASSUME NEW t \in Task
      PROVE  Sound(status[t], failed[t], lease[t], MaxRetries[t])
  BY TaskAssumption DEF StoreInit, Sound, Active, Terminal
<1> QED
  BY <1>1, <1>2, StoreInvByTask

\* Requeueing tasks that have a lease.
LEMMA RequeueSound ==
    ASSUME StoreInv, NEW S \in SUBSET Task, \A t \in S : lease[t] # NoWorker, Requeue(S)
    PROVE  StoreInv'
<1>1. \A t \in Task : /\ failed'[t] = failed[t]
                      /\ t \in S => status'[t] = "QUEUED" /\ lease'[t] = NoWorker
                      /\ t \notin S => status'[t] = status[t] /\ lease'[t] = lease[t]
  BY DEF Requeue
<1>2. StoreTypeOK'
  BY <1>1 DEF Requeue, StoreInv, StoreTypeOK, States
<1>3. ASSUME NEW t \in Task
      PROVE  Sound(status'[t], failed'[t], lease'[t], MaxRetries[t])
  <2>1. Sound(status[t], failed[t], lease[t], MaxRetries[t])
    BY StoreInvByTask
  <2>2. CASE t \in S
    <3>1. status[t] \notin Terminal
      BY <2>1, <2>2 DEF Sound
    <3> QED
      BY <1>1, <2>1, <2>2, <3>1 DEF Sound, Active, Terminal
  <2>3. CASE t \notin S
    BY <1>1, <2>1, <2>3
  <2> QED
    BY <2>2, <2>3
<1> QED
  BY <1>2, <1>3, SoundAfter

\* What StoreInv says of one task, and the types of its parts.
LEMMA AboutTask ==
    ASSUME StoreInv, NEW t \in Task
    PROVE  /\ Sound(status[t], failed[t], lease[t], MaxRetries[t])
           /\ status[t] \in States \cup {"ABSENT"} /\ failed[t] \in Nat /\ MaxRetries[t] \in Nat
           /\ lease[t] \in Worker \cup {NoWorker}
           /\ [status EXCEPT ![t] = status[t]] = status
           /\ [failed EXCEPT ![t] = failed[t]] = failed
           /\ [lease EXCEPT ![t] = lease[t]] = lease
<1>1. StoreTypeOK /\ Sound(status[t], failed[t], lease[t], MaxRetries[t])
  BY StoreInvByTask
<1> QED
  BY <1>1, TaskAssumption DEF StoreTypeOK

\* The owner deletes its lease.
LEMMA OwnerDeletes ==
    ASSUME StoreInv, NEW t \in Task, NEW w \in Worker, lease[t] = w, DeleteLease(t, w)
    PROVE  /\ lease' = [lease EXCEPT ![t] = NoWorker]
           /\ expired' \subseteq expired /\ t \notin expired'
BY DEF DeleteLease

LEMMA StoreNextSound == StoreInv /\ [StoreNext]_storeVars => StoreInv'
<1> SUFFICES ASSUME StoreInv, [StoreNext]_storeVars
             PROVE  StoreInv'
  OBVIOUS
<1> USE DEF Active, Terminal
<1>1. ASSUME NEW t \in Task, Submit(t)
      PROVE  StoreInv'
  <2>1. Sound("QUEUED", failed[t], lease[t], MaxRetries[t])
    BY <1>1, AboutTask DEF Submit, Sound
  <2>2. /\ status' = [status EXCEPT ![t] = "QUEUED"] /\ failed' = [failed EXCEPT ![t] = failed[t]]
        /\ lease' = [lease EXCEPT ![t] = lease[t]] /\ expired' = expired
    BY <1>1, AboutTask DEF Submit
  <2>3. lease[t] = NoWorker => t \notin expired'
    BY <2>2 DEF StoreInv, StoreTypeOK
  <2>4. "QUEUED" \in States
    BY DEF States
  <2> QED
    BY <2>1, <2>2, <2>3, <2>4, AboutTask, OneTask
<1>2. ASSUME NEW t \in Task, LeaseExpires(t)
      PROVE  StoreInv'
  BY <1>2 DEF LeaseExpires, StoreInv, StoreTypeOK, ActiveIsLeased, TerminalIsUnleased, RetryBudget, ForeignKey
<1>3. ASSUME NEW k, ClaimQueued(k)
      PROVE  StoreInv'
  <2> DEFINE tasks == FirstOf(Claimable, k)
  <2>1. tasks \subseteq Claimable
    BY DEF FirstOf
  <2>2. /\ status' = [t \in Task |-> IF t \in tasks THEN "SCHEDULING" ELSE status[t]]
        /\ UNCHANGED <<failed, lease, expired>>
    BY <1>3 DEF ClaimQueued
  <2> HIDE DEF tasks
  <2>3. StoreTypeOK'
    BY <2>2 DEF StoreInv, StoreTypeOK, States
  <2>4. ASSUME NEW t \in Task
        PROVE  Sound(status'[t], failed'[t], lease'[t], MaxRetries[t])
    <3>1. CASE t \in tasks
      <4>1. status[t] \in {"QUEUED", "WORKER_LOST"} /\ failed[t] < MaxRetries[t]
        BY <2>1, <3>1 DEF Claimable
      <4> QED
        BY <2>2, <3>1, <4>1, AboutTask DEF Sound
    <3>2. CASE t \notin tasks
      BY <2>2, <3>2, AboutTask
    <3> QED
      BY <3>1, <3>2
  <2> QED
    BY <2>3, <2>4, SoundAfter
<1>4. CASE RecoverStaleScheduling
  <2>1. StoreTypeOK'
    BY <1>4 DEF RecoverStaleScheduling, StoreInv, StoreTypeOK, States
  <2>2. ASSUME NEW t \in Task
        PROVE  Sound(status'[t], failed'[t], lease'[t], MaxRetries[t])
    BY <1>4, AboutTask DEF RecoverStaleScheduling, StaleScheduling, Sound
  <2> QED
    BY <2>1, <2>2, SoundAfter
<1>5. CASE RecoverExpiredLeases
  BY <1>5, RequeueSound DEF RecoverExpiredLeases, StoreInv, StoreTypeOK
<1>6. ASSUME NEW alive, RecoverDeadWorkerLeases(alive)
      PROVE  StoreInv'
  BY <1>6, RequeueSound DEF RecoverDeadWorkerLeases, DeadLeases
<1>7. ASSUME NEW t \in Task, NEW w \in Worker, MarkAssigned(t, w)
      PROVE  StoreInv'
  <2>1. Sound("ASSIGNED", failed[t], w, MaxRetries[t])
    BY <1>7, AboutTask, TaskAssumption DEF MarkAssigned, MarkAssignedOK, Sound
  <2> QED
    BY <1>7, <2>1, AboutTask, OneTask, TaskAssumption DEF MarkAssigned, States
<1>8. ASSUME NEW t \in Task, NEW w \in Worker, RenewLease(t, w)
      PROVE  StoreInv'
  BY <1>8 DEF RenewLease, StoreInv, StoreTypeOK, ActiveIsLeased, TerminalIsUnleased, RetryBudget, ForeignKey
<1>9. ASSUME NEW t \in Task, NEW w \in Worker, MarkRunning(t, w)
      PROVE  StoreInv'
  <2>1. Sound("RUNNING", failed[t], lease[t], MaxRetries[t])
    BY <1>9, AboutTask DEF MarkRunning, MarkRunningOK, OwnedIn, Sound
  <2>2. /\ status' = [status EXCEPT ![t] = "RUNNING"] /\ failed' = [failed EXCEPT ![t] = failed[t]]
        /\ lease' = [lease EXCEPT ![t] = lease[t]] /\ expired' = expired
    BY <1>9, AboutTask DEF MarkRunning
  <2>3. lease[t] = NoWorker => t \notin expired'
    BY <2>2 DEF StoreInv, StoreTypeOK
  <2>4. "RUNNING" \in States
    BY DEF States
  <2> QED
    BY <2>1, <2>2, <2>3, <2>4, AboutTask, OneTask
<1>10. ASSUME NEW t \in Task, NEW w \in Worker, MarkCompleted(t, w)
       PROVE  StoreInv'
  <2>1. Sound("COMPLETED", failed[t], NoWorker, MaxRetries[t])
    BY <1>10, AboutTask DEF MarkCompleted, MarkCompletedOK, OwnedIn, Sound
  <2>2. lease[t] = w /\ DeleteLease(t, w)
    BY <1>10 DEF MarkCompleted, MarkCompletedOK, OwnedIn
  <2>3. /\ status' = [status EXCEPT ![t] = "COMPLETED"]
        /\ failed' = [failed EXCEPT ![t] = failed[t]]
    BY <1>10, AboutTask DEF MarkCompleted
  <2>4. "COMPLETED" \in States
    BY DEF States
  <2> QED
    BY <2>1, <2>2, <2>3, <2>4, AboutTask, OneTask, OwnerDeletes
<1>11. ASSUME NEW t \in Task, NEW w \in Worker, MarkFailed(t, w)
       PROVE  StoreInv'
  <2> DEFINE f == failed[t] + 1
             s == IF failed[t] + 1 < MaxRetries[t] THEN "QUEUED" ELSE "FAILED"
  <2>1. lease[t] = w /\ DeleteLease(t, w) /\ status[t] \in Active
    BY <1>11 DEF MarkFailed, MarkFailedOK, OwnedIn
  <2>2. /\ failed' = [failed EXCEPT ![t] = f] /\ status' = [status EXCEPT ![t] = s]
    BY <1>11 DEF MarkFailed
  <2>3. Sound(s, f, NoWorker, MaxRetries[t])
    BY <2>1, AboutTask DEF Sound
  <2>4. f \in Nat /\ s \in States
    BY AboutTask DEF States
  <2> HIDE DEF f, s
  <2> QED
    BY <2>1, <2>2, <2>3, <2>4, OneTask, OwnerDeletes
<1>12. ASSUME NEW t \in Task, NEW w \in Worker, MarkWorkerLost(t, w)
       PROVE  StoreInv'
  <2>1. \A l \in Worker \cup {NoWorker} : Sound("QUEUED", failed[t], l, MaxRetries[t])
    BY <1>12, AboutTask DEF MarkWorkerLost, MarkWorkerLostOK, Sound
  <2>2. /\ status' = [status EXCEPT ![t] = "QUEUED"] /\ failed' = [failed EXCEPT ![t] = failed[t]]
        /\ DeleteLease(t, w) /\ "QUEUED" \in States
    BY <1>12, AboutTask DEF MarkWorkerLost, States
  <2>3. CASE lease[t] = w
    BY <2>1, <2>2, <2>3, AboutTask, OneTask, OwnerDeletes
  <2>4. CASE lease[t] # w
    <3>1. lease' = [lease EXCEPT ![t] = lease[t]] /\ expired' = expired
      BY <2>2, <2>4, AboutTask DEF DeleteLease
    <3>2. lease[t] = NoWorker => t \notin expired
      BY DEF StoreInv, StoreTypeOK
    <3> QED
      BY <2>1, <2>2, <3>1, <3>2, AboutTask, OneTask
  <2> QED
    BY <2>3, <2>4
<1>13. CASE UNCHANGED storeVars
  BY <1>13 DEF storeVars, StoreInv, StoreTypeOK, ActiveIsLeased, TerminalIsUnleased, RetryBudget, ForeignKey
<1> QED
  BY <1>1, <1>2, <1>3, <1>4, <1>5, <1>6, <1>7, <1>8, <1>9, <1>10, <1>11, <1>12, <1>13 DEF StoreNext

LEMMA StoreInductive == StoreSpec => []StoreInv
BY StoreInitSound, StoreNextSound, PTL DEF StoreSpec

-----------------------------------------------------------------------------
(* The theorems.                                                            *)

\* Every variable of the store keeps its type; only leased tasks can expire.
THEOREM StoreTyped == StoreSpec => []StoreTypeOK
<1>1. StoreInv => StoreTypeOK
  BY DEF StoreInv
<1> QED
  BY <1>1, StoreInductive, PTL

\* Assigned and running tasks are protected by leases.
THEOREM LeasesProtect == StoreSpec => []ActiveIsLeased
<1>1. StoreInv => ActiveIsLeased
  BY DEF StoreInv
<1> QED
  BY <1>1, StoreInductive, PTL

\* No recovery can touch a finished task.
THEOREM FinishedUnleased == StoreSpec => []TerminalIsUnleased
<1>1. StoreInv => TerminalIsUnleased
  BY DEF StoreInv
<1> QED
  BY <1>1, StoreInductive, PTL

\* The retry limit is respected and FAILED means that it is used up.
THEOREM BudgetKept == StoreSpec => []RetryBudget
<1>1. StoreInv => RetryBudget
  BY DEF StoreInv
<1> QED
  BY <1>1, StoreInductive, PTL

LEMMA StoreNextFinal ==
    ASSUME StoreInv, [StoreNext]_storeVars, NEW t \in Task
    PROVE  /\ status[t] \in Terminal => status'[t] = status[t]
           /\ failed'[t] >= failed[t]
<1> USE DEF Active, Terminal
<1>0. /\ StoreTypeOK /\ failed[t] \in Nat
      /\ status[t] \in Terminal => lease[t] = NoWorker
  BY DEF StoreInv, StoreTypeOK, TerminalIsUnleased
<1>1. CASE failed' = failed /\ (status[t] \in Terminal => status'[t] = status[t])
  BY <1>0, <1>1
<1>2. ASSUME NEW u \in Task, Submit(u) \/ LeaseExpires(u)
      PROVE  failed' = failed /\ (status[t] \in Terminal => status'[t] = status[t])
  BY <1>0, <1>2 DEF Submit, LeaseExpires, StoreTypeOK
<1>3. ASSUME NEW k, ClaimQueued(k)
      PROVE  failed' = failed /\ (status[t] \in Terminal => status'[t] = status[t])
  BY <1>0, <1>3 DEF ClaimQueued, FirstOf, Claimable
<1>4. CASE RecoverStaleScheduling
  BY <1>0, <1>1, <1>4 DEF RecoverStaleScheduling, StaleScheduling
<1>5. ASSUME NEW S, \A u \in S : lease[u] # NoWorker, Requeue(S)
      PROVE  failed' = failed /\ (status[t] \in Terminal => status'[t] = status[t])
  BY <1>0, <1>5 DEF Requeue
<1>6. CASE RecoverExpiredLeases
  BY <1>0, <1>1, <1>5, <1>6 DEF RecoverExpiredLeases, StoreTypeOK
<1>7. ASSUME NEW alive, RecoverDeadWorkerLeases(alive)
      PROVE  failed' = failed /\ (status[t] \in Terminal => status'[t] = status[t])
  BY <1>5, <1>7 DEF RecoverDeadWorkerLeases, DeadLeases
<1>8. ASSUME NEW u \in Task, NEW w \in Worker,
             \/ MarkAssigned(u, w) \/ RenewLease(u, w) \/ MarkRunning(u, w)
             \/ MarkCompleted(u, w) \/ MarkWorkerLost(u, w)
      PROVE  failed' = failed /\ (status[t] \in Terminal => status'[t] = status[t])
  BY <1>0, <1>8 DEF MarkAssigned, MarkAssignedOK, RenewLease, MarkRunning, MarkRunningOK, OwnedIn,
     MarkCompleted, MarkCompletedOK, MarkWorkerLost, MarkWorkerLostOK, StoreTypeOK
<1>9. ASSUME NEW u \in Task, NEW w \in Worker, MarkFailed(u, w)
      PROVE  failed'[t] >= failed[t] /\ (status[t] \in Terminal => status'[t] = status[t])
  BY <1>0, <1>9 DEF MarkFailed, MarkFailedOK, OwnedIn, StoreTypeOK
<1>10. CASE UNCHANGED storeVars
  BY <1>1, <1>10 DEF storeVars
<1> QED
  BY <1>1, <1>2, <1>3, <1>4, <1>6, <1>7, <1>8, <1>9, <1>10 DEF StoreNext

\* A finished task stays finished, whatever is called.
THEOREM FinishedStays == StoreSpec => TerminalIsFinal
<1>1. StoreInv /\ [StoreNext]_storeVars =>
        [\A t \in Task : /\ status[t] \in Terminal => status'[t] = status[t]
                         /\ failed'[t] >= failed[t]]_storeVars
  BY StoreNextFinal
<1> QED
  BY <1>1, StoreInductive, PTL DEF StoreSpec, TerminalIsFinal

-----------------------------------------------------------------------------
(* The store implements TaskLifecycle.                                      *)

\* The mapping of each status.
LEMMA LifePhases ==
    /\ LifePhase("ABSENT") = "absent"
    /\ \A s \in Active : LifePhase(s) = "held"
    /\ LifePhase("COMPLETED") = "completed" /\ LifePhase("FAILED") = "failed"
    /\ \A s \in {"QUEUED", "SCHEDULING", "WORKER_LOST"} : LifePhase(s) = "pending"
    /\ \A s, l : s \notin Active => LifeHolder(s, l) = NoWorker
    /\ \A s \in Active : \A l : LifeHolder(s, l) = l
BY DEF LifePhase, LifeHolder, Active

\* A step that moves no task to another phase or holder.
LEMMA LifecycleStutter ==
    ASSUME \A t \in Task : LifePhase(status'[t]) = LifePhase(status[t]),
           \A t \in Task : LifeHolder(status'[t], lease'[t]) = LifeHolder(status[t], lease[t]),
           failed' = failed
    PROVE  UNCHANGED Lifecycle!lifecycleVars
BY DEF Lifecycle!lifecycleVars

\* A step that moves one task.
LEMMA LifecycleMoves ==
    ASSUME NEW t \in Task, NEW p, NEW h,
           \A u \in Task \ {t} : status'[u] = status[u] /\ lease'[u] = lease[u],
           LifePhase(status'[t]) = p, LifeHolder(status'[t], lease'[t]) = h
    PROVE  /\ [u \in Task |-> LifePhase(status[u])]' =
                 [[u \in Task |-> LifePhase(status[u])] EXCEPT ![t] = p]
           /\ [u \in Task |-> LifeHolder(status[u], lease[u])]' =
                 [[u \in Task |-> LifeHolder(status[u], lease[u])] EXCEPT ![t] = h]
OBVIOUS

LEMMA LifecycleInit == StoreInit => Lifecycle!Init
BY LifePhases DEF StoreInit, Lifecycle!Init, Active

LEMMA RequeueLoses ==
    ASSUME StoreInv, NEW S \in SUBSET Task, \A t \in S : lease[t] # NoWorker, Requeue(S)
    PROVE  Lifecycle!Next
<1> DEFINE H == {t \in S : status[t] \in Active}
<1>1. \A t \in H : LifePhase(status[t]) = "held"
  BY LifePhases
<1>2. ASSUME NEW t \in Task
      PROVE  /\ LifePhase(status'[t]) = IF t \in H THEN "pending" ELSE LifePhase(status[t])
             /\ LifeHolder(status'[t], lease'[t]) =
                   IF t \in H THEN NoWorker ELSE LifeHolder(status[t], lease[t])
  <2>1. CASE t \in S
    <3>1. status'[t] = "QUEUED" /\ "QUEUED" \notin Active
      BY <2>1 DEF Requeue, Active
    <3>2. CASE t \in H
      BY <3>1, <3>2, LifePhases
    <3>3. CASE t \notin H
      <4>1. status[t] \notin Terminal /\ status[t] \notin Active /\ status[t] \in States \cup {"ABSENT"}
        BY <2>1, <3>3 DEF StoreInv, TerminalIsUnleased, StoreTypeOK
      <4>2. status[t] # "ABSENT"
        BY <2>1 DEF StoreInv, ForeignKey
      <4>3. status[t] \in {"QUEUED", "SCHEDULING", "WORKER_LOST"}
        BY <4>1, <4>2 DEF States, Active, Terminal
      <4> QED
        BY <3>1, <3>3, <4>1, <4>3, LifePhases
    <3> QED
      BY <3>2, <3>3
  <2>2. CASE t \notin S
    BY <2>2 DEF Requeue
  <2> QED
    BY <2>1, <2>2
<1> HIDE DEF H
<1>3. Lifecycle!Lose(H)
  BY <1>1, <1>2 DEF Lifecycle!Lose, Requeue, H
<1> QED
  BY <1>3 DEF Lifecycle!Next, H

LEMMA LifecycleNext == StoreInv /\ [StoreNext]_storeVars => [Lifecycle!Next]_(Lifecycle!lifecycleVars)
<1> SUFFICES ASSUME StoreInv, [StoreNext]_storeVars
             PROVE  Lifecycle!Next \/ UNCHANGED Lifecycle!lifecycleVars
  OBVIOUS
<1>0. StoreTypeOK
  BY DEF StoreInv
<1>1. ASSUME NEW t \in Task, Submit(t)
      PROVE  Lifecycle!Submit(t)
  <2>1. status[t] = "ABSENT" /\ status'[t] = "QUEUED" /\ "QUEUED" \notin Active /\ "ABSENT" \notin Active
    BY <1>0, <1>1 DEF Submit, StoreTypeOK, Active
  <2>2. \A u \in Task : u # t => status'[u] = status[u]
    BY <1>0, <1>1 DEF Submit, StoreTypeOK
  <2>3. UNCHANGED <<failed, lease>>
    BY <1>1 DEF Submit
  <2>4. \A u \in Task : LifeHolder(status'[u], lease'[u]) = LifeHolder(status[u], lease[u])
    BY <2>1, <2>2, <2>3, LifePhases
  <2>5. \A u \in Task : LifePhase(status'[u]) = IF u = t THEN "pending" ELSE LifePhase(status[u])
    BY <2>1, <2>2, LifePhases
  <2> QED
    BY <2>1, <2>3, <2>4, <2>5, LifePhases DEF Lifecycle!Submit
<1>2. ASSUME NEW t \in Task, LeaseExpires(t)
      PROVE  UNCHANGED Lifecycle!lifecycleVars
  BY <1>2 DEF LeaseExpires, Lifecycle!lifecycleVars
<1>3. ASSUME NEW S \in SUBSET Task, NEW s \in {"QUEUED", "SCHEDULING"}, UNCHANGED <<failed, lease>>,
             \A t \in S : status[t] \in {"QUEUED", "SCHEDULING", "WORKER_LOST"},
             status' = [t \in Task |-> IF t \in S THEN s ELSE status[t]]
      PROVE  UNCHANGED Lifecycle!lifecycleVars
  <2>1. "QUEUED" \notin Active /\ "SCHEDULING" \notin Active /\ "WORKER_LOST" \notin Active
    BY DEF Active
  <2>2. ASSUME NEW t \in Task
        PROVE  /\ LifePhase(status'[t]) = LifePhase(status[t])
               /\ LifeHolder(status'[t], lease'[t]) = LifeHolder(status[t], lease[t])
    <3>1. CASE t \in S
      <4>1. status'[t] = s /\ status[t] \in {"QUEUED", "SCHEDULING", "WORKER_LOST"}
        BY <1>3, <3>1
      <4> QED
        BY <2>1, <4>1, LifePhases
    <3>2. CASE t \notin S
      BY <1>3, <3>2
    <3> QED
      BY <3>1, <3>2
  <2> QED
    BY <1>3, <2>2, LifecycleStutter
<1>4. ASSUME NEW k, ClaimQueued(k)
      PROVE  UNCHANGED Lifecycle!lifecycleVars
  <2> DEFINE tasks == FirstOf(Claimable, k)
  <2>1. \A t \in tasks : t \in Task /\ status[t] \in {"QUEUED", "SCHEDULING", "WORKER_LOST"}
    BY DEF FirstOf, Claimable
  <2>2. /\ status' = [t \in Task |-> IF t \in tasks THEN "SCHEDULING" ELSE status[t]]
        /\ UNCHANGED <<failed, lease>>
    BY <1>4 DEF ClaimQueued
  <2> HIDE DEF tasks
  <2>3. tasks \in SUBSET Task
    BY <2>1
  <2> QED
    BY <1>3, <2>1, <2>2, <2>3
<1>5. CASE RecoverStaleScheduling
  <2>1. \A t \in StaleScheduling : t \in Task /\ status[t] \in {"QUEUED", "SCHEDULING", "WORKER_LOST"}
    BY DEF StaleScheduling
  <2>2. /\ status' = [t \in Task |-> IF t \in StaleScheduling THEN "QUEUED" ELSE status[t]]
        /\ UNCHANGED <<failed, lease>>
    BY <1>5 DEF RecoverStaleScheduling
  <2> QED
    BY <1>3, <2>1, <2>2
<1>6. CASE RecoverExpiredLeases
  BY <1>0, <1>6, RequeueLoses DEF RecoverExpiredLeases, StoreTypeOK
<1>7. ASSUME NEW alive, RecoverDeadWorkerLeases(alive)
      PROVE  Lifecycle!Next
  BY <1>7, RequeueLoses DEF RecoverDeadWorkerLeases, DeadLeases
<1>8. ASSUME NEW t \in Task, NEW w \in Worker, MarkAssigned(t, w)
      PROVE  Lifecycle!Take(t, w)
  <2>1. /\ status[t] = "SCHEDULING" /\ status'[t] = "ASSIGNED" /\ lease'[t] = w /\ failed' = failed
        /\ \A u \in Task \ {t} : status'[u] = status[u] /\ lease'[u] = lease[u]
    BY <1>0, <1>8 DEF MarkAssigned, MarkAssignedOK, StoreTypeOK
  <2>2. LifePhase(status[t]) = "pending" /\ failed[t] < MaxRetries[t]
    BY <2>1, LifePhases DEF StoreInv, RetryBudget
  <2>3. LifePhase(status'[t]) = "held" /\ LifeHolder(status'[t], lease'[t]) = w
    BY <2>1, LifePhases DEF Active
  <2>4. /\ [u \in Task |-> LifePhase(status[u])]' =
              [[u \in Task |-> LifePhase(status[u])] EXCEPT ![t] = "held"]
        /\ [u \in Task |-> LifeHolder(status[u], lease[u])]' =
              [[u \in Task |-> LifeHolder(status[u], lease[u])] EXCEPT ![t] = w]
    BY <2>1, <2>3, LifecycleMoves
  <2> QED
    BY <2>1, <2>2, <2>4 DEF Lifecycle!Take
<1>9. ASSUME NEW t \in Task, NEW w \in Worker, RenewLease(t, w)
      PROVE  UNCHANGED Lifecycle!lifecycleVars
  BY <1>9 DEF RenewLease, Lifecycle!lifecycleVars
<1>10. ASSUME NEW t \in Task, NEW w \in Worker, MarkRunning(t, w)
       PROVE  UNCHANGED Lifecycle!lifecycleVars
  <2>1. /\ status[t] \in Active /\ status'[t] \in Active /\ UNCHANGED <<failed, lease>>
        /\ \A u \in Task \ {t} : status'[u] = status[u]
    BY <1>0, <1>10 DEF MarkRunning, MarkRunningOK, OwnedIn, StoreTypeOK, Active
  <2>2. \A u \in Task : /\ LifePhase(status'[u]) = LifePhase(status[u])
                        /\ LifeHolder(status'[u], lease'[u]) = LifeHolder(status[u], lease[u])
    BY <2>1, LifePhases
  <2> QED
    BY <2>1, <2>2, LifecycleStutter
<1>11. ASSUME NEW t \in Task, NEW w \in Worker, lease[t] = w, DeleteLease(t, w),
              NEW s, s \notin Active, status' = [status EXCEPT ![t] = s], status[t] \in Active
       PROVE  /\ LifePhase(status[t]) = "held" /\ LifeHolder(status[t], lease[t]) = w
              /\ [u \in Task |-> LifePhase(status[u])]' =
                    [[u \in Task |-> LifePhase(status[u])] EXCEPT ![t] = LifePhase(s)]
              /\ [u \in Task |-> LifeHolder(status[u], lease[u])]' =
                    [[u \in Task |-> LifeHolder(status[u], lease[u])] EXCEPT ![t] = NoWorker]
  <2>1. /\ status'[t] = s
        /\ \A u \in Task \ {t} : status'[u] = status[u] /\ lease'[u] = lease[u]
    BY <1>0, <1>11 DEF DeleteLease, StoreTypeOK
  <2>2. LifePhase(status'[t]) = LifePhase(s) /\ LifeHolder(status'[t], lease'[t]) = NoWorker
    BY <1>11, <2>1, LifePhases
  <2>3. LifePhase(status[t]) = "held" /\ LifeHolder(status[t], lease[t]) = w
    BY <1>11, LifePhases
  <2> QED
    BY <2>1, <2>2, <2>3, LifecycleMoves
<1>12. ASSUME NEW t \in Task, NEW w \in Worker, MarkCompleted(t, w)
       PROVE  Lifecycle!Complete(t, w)
  <2> DEFINE s == "COMPLETED"
  <2>1. /\ lease[t] = w /\ DeleteLease(t, w) /\ s \notin Active /\ status[t] \in Active
        /\ status' = [status EXCEPT ![t] = s] /\ failed' = failed
    BY <1>12 DEF MarkCompleted, MarkCompletedOK, OwnedIn, Active
  <2>2. LifePhase(s) = "completed"
    BY LifePhases
  <2> HIDE DEF s
  <2> QED
    BY <1>11, <2>1, <2>2 DEF Lifecycle!Complete
<1>13. ASSUME NEW t \in Task, NEW w \in Worker, MarkFailed(t, w)
       PROVE  Lifecycle!Fail(t, w)
  <2> DEFINE s == IF failed[t] + 1 < MaxRetries[t] THEN "QUEUED" ELSE "FAILED"
  <2>1. /\ lease[t] = w /\ DeleteLease(t, w) /\ s \notin Active /\ status[t] \in Active
        /\ status' = [status EXCEPT ![t] = s] /\ failed' = [failed EXCEPT ![t] = failed[t] + 1]
    BY <1>13 DEF MarkFailed, MarkFailedOK, OwnedIn, Active
  <2>2. LifePhase(s) = IF failed[t] + 1 < MaxRetries[t] THEN "pending" ELSE "failed"
    BY LifePhases
  <2> HIDE DEF s
  <2> QED
    BY <1>11, <2>1, <2>2 DEF Lifecycle!Fail
<1>14. ASSUME NEW t \in Task, NEW w \in Worker, MarkWorkerLost(t, w)
       PROVE  Lifecycle!Lose({t})
  <2>1. /\ status[t] \in Active /\ status'[t] = "QUEUED" /\ failed' = failed
        /\ "QUEUED" \notin Active
        /\ \A u \in Task \ {t} : status'[u] = status[u] /\ lease'[u] = lease[u]
    BY <1>0, <1>14 DEF MarkWorkerLost, MarkWorkerLostOK, DeleteLease, StoreTypeOK, Active
  <2>2. \A u \in Task : /\ LifePhase(status'[u]) = IF u \in {t} THEN "pending" ELSE LifePhase(status[u])
                        /\ LifeHolder(status'[u], lease'[u]) =
                             IF u \in {t} THEN NoWorker ELSE LifeHolder(status[u], lease[u])
    BY <2>1, LifePhases
  <2>3. LifePhase(status[t]) = "held"
    BY <2>1, LifePhases
  <2> QED
    BY <2>1, <2>2, <2>3 DEF Lifecycle!Lose
<1>15. CASE UNCHANGED storeVars
  BY <1>15 DEF storeVars, Lifecycle!lifecycleVars
<1> QED
  BY <1>1, <1>2, <1>4, <1>5, <1>6, <1>7, <1>8, <1>9, <1>10, <1>12, <1>13, <1>14, <1>15
     DEF StoreNext, Lifecycle!Next

\* The store implements the life cycle of a task.
THEOREM StoreImplementsLifecycle == StoreSpec => ImplementsLifecycle
BY LifecycleInit, LifecycleNext, StoreInductive, PTL
   DEF StoreSpec, ImplementsLifecycle, Lifecycle!LifecycleSpec
=============================================================================
