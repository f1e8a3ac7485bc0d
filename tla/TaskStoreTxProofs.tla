------------------------- MODULE TaskStoreTxProofs -------------------------
(***************************************************************************)
(* Proofs about the overlapping transactions of module TaskStoreTx, for    *)
(* any tasks, workers, schedulers and batch size: the locks they wait for, *)
(* and the life cycle of the tasks that no conflicting transactions have   *)
(* met on.                                                                 *)
(***************************************************************************)
EXTENDS TaskStoreTx, TaskStoreProofs

Singles == Reports \cup {"MarkAssigned", "MarkWorkerLost"}

TxRecord == [method : Methods \cup {"none"}, pc : TxPC, worker : Worker \cup {NoWorker},
             todo : SUBSET Task, tasks : SUBSET Task, leases : SUBSET Task, last : States,
             due : SUBSET Task, older : SUBSET Client, late : SUBSET Task]

(* What a transaction holds at each of its statements.  A claim locks no    *)
(* lease and never waits; a recovery locks all its leases, those it will    *)
(* leave alone too, before its first insert; a method on one task locks the *)
(* lease after its insert.                                                  *)
ShapeNone(r)     == r.method = "none" => r.pc = "none" /\ r.todo = {} /\ r.tasks = {} /\ r.leases = {}
ShapeRows(r)     == r.method \in RowMethods => r.pc \in {"select", "lock", "commit"} /\ r.leases = {}
ShapeRecovery(r) ==
    r.method \in Recoveries =>
        \/ r.pc = "select" /\ r.todo = {} /\ r.tasks = {} /\ r.leases = {}
        \/ r.pc \in {"insert", "commit"} /\ r.todo \cup r.tasks \subseteq r.leases
ShapeSingle(r) ==
    r.method \in Singles =>
        /\ r.worker \in Worker
        /\ \/ /\ r.pc \in {"owner", "status", "insert"}
              /\ r.tasks = {} /\ r.leases = {} /\ \E t \in Task : r.todo = {t}
           \/ /\ r.pc \in {"lease", "count", "commit"}
              /\ r.todo = {} /\ \E t \in Task : r.tasks = {t} /\ r.leases \subseteq {t}
              /\ r.pc = "lease" => r.leases = {}

Shape(r) == ShapeNone(r) /\ ShapeRows(r) /\ ShapeRecovery(r) /\ ShapeSingle(r)

Rows(r) == IF r.method \in RowMethods THEN r.tasks ELSE {}

\* Two transactions hold different leases, and nobody writes a status for a task
\* whose row the other has locked.
Apart(r, s) == r.leases \cap s.leases = {} /\ Rows(r) \cap s.tasks = {} /\ Rows(s) \cap r.tasks = {}

\* What a recovery has locked is still there, and a claimed row exists.
Holds(r, st, l, x) ==
    /\ r.method \in Recoveries => \A t \in r.leases : l[t] # NoWorker
    /\ r.method = "RecoverExpiredLeases" => r.leases \subseteq x
    /\ r.method \in RowMethods => \A t \in r.todo \cup r.tasks : st[t] # "ABSENT"

ClientsTyped ==
    /\ duty \in [Client -> SUBSET Task]
    /\ sent \in [Scheduler -> SUBSET (Task \X Worker)]
    /\ disturbed \subseteq Task

TxsTyped == tx \in [Client -> TxRecord]

Locks ==
    /\ \A c \in Client : Shape(tx[c]) /\ Holds(tx[c], status, lease, expired)
    /\ \A c, d \in Client : c # d => Apart(tx[c], tx[d])

TxInv == StoreTypeOK /\ TxsTyped /\ ClientsTyped /\ Locks

LEMMA Typed == TxTypeOK <=> StoreTypeOK /\ TxsTyped /\ ClientsTyped
  BY Zenon DEF TxTypeOK, TxsTyped, TxRecord, ClientsTyped

\* The part of a transaction the locks depend on.
Same(r, s) ==
    /\ r.method = s.method /\ r.pc = s.pc /\ r.worker = s.worker
    /\ r.todo = s.todo /\ r.tasks = s.tasks /\ r.leases = s.leases

LEMMA SameShape ==
  ASSUME NEW r, NEW s, Same(r, s)
  PROVE  /\ Shape(r) <=> Shape(s)
         /\ Rows(r) = Rows(s)
         /\ \A st, l, x : Holds(r, st, l, x) <=> Holds(s, st, l, x)
  <1>1. Shape(r) <=> Shape(s)
    BY Zenon DEF Same, Shape, ShapeNone, ShapeRows, ShapeRecovery, ShapeSingle
  <1>2. Rows(r) = Rows(s)
    BY DEF Same, Rows
  <1>3. \A st, l, x : Holds(r, st, l, x) <=> Holds(s, st, l, x)
    BY DEF Same, Holds
  <1> QED BY <1>1, <1>2, <1>3

LEMMA NoTxFits ==
  /\ NoTx \in TxRecord /\ Shape(NoTx)
  /\ NoTx.method = "none" /\ NoTx.leases = {} /\ NoTx.tasks = {}
  /\ \A st, l, x : Holds(NoTx, st, l, x)
  /\ \A r : Apart(NoTx, r) /\ Apart(r, NoTx)
  <1>1. /\ NoTx.method = "none" /\ NoTx.pc = "none" /\ NoTx.todo = {} /\ NoTx.tasks = {} /\ NoTx.leases = {}
        /\ NoTx \in TxRecord
    BY DEF NoTx, TxRecord, TxPC, States
  <1>2. "none" \notin RowMethods /\ "none" \notin Recoveries /\ "none" \notin Singles /\ "none" # "RecoverExpiredLeases"
    BY DEF RowMethods, Recoveries, Singles, Reports
  <1>3. Shape(NoTx)
    BY <1>1, <1>2, Zenon DEF Shape, ShapeNone, ShapeRows, ShapeRecovery, ShapeSingle
  <1>4. \A st, l, x : Holds(NoTx, st, l, x)
    BY <1>1, <1>2 DEF Holds
  <1>5. \A r : Apart(NoTx, r) /\ Apart(r, NoTx)
    BY <1>1, <1>2 DEF Apart, Rows
  <1> QED BY <1>1, <1>3, <1>4, <1>5

LEMMA ApartSymmetric == \A r, s : Apart(r, s) <=> Apart(s, r)
  BY DEF Apart

-----------------------------------------------------------------------------
(* The kinds of steps.                                                      *)

\* A transaction ends: its locks are gone, the others keep theirs.
LEMMA EndsFits ==
  ASSUME TxInv, NEW c \in Client, NEW W \in SUBSET Task, Ends(c, W),
         \A d \in Client \ {c} : Holds(tx[d], status', lease', expired')
  PROVE  TxsTyped' /\ Locks' /\ tx'[c] = NoTx /\ \A d \in Client \ {c} : Same(tx'[d], tx[d])
  <1>0. TxsTyped /\ Locks
    BY DEF TxInv
  <1>1. tx'[c] = NoTx
    BY Zenon DEF Ends
  <1>2. ASSUME NEW d \in Client \ {c}
        PROVE  tx'[d] \in TxRecord /\ Same(tx'[d], tx[d])
    <2> DEFINE o == tx[d].older \ {c}
               l == IF d \in tx[c].older THEN tx[d].late \cup W ELSE tx[d].late
    <2>1. tx'[d] = [tx[d] EXCEPT !.older = o, !.late = l]
      BY Zenon DEF Ends
    <2>2. tx[d] \in TxRecord
      BY <1>0 DEF TxsTyped
    <2>3. o \in SUBSET Client /\ l \in SUBSET Task
      BY <2>2 DEF TxRecord
    <2> HIDE DEF o, l
    <2> QED BY Zenon, <2>1, <2>2, <2>3 DEF TxRecord, Same
  <1>3. TxsTyped'
    <2>1. tx' = [d \in Client |-> tx'[d]]
      BY Zenon DEF Ends
    <2> QED BY <2>1, <1>1, <1>2, NoTxFits DEF TxsTyped
  <1>4. \A d \in Client : Shape(tx'[d]) /\ Holds(tx'[d], status', lease', expired')
    BY <1>0, <1>1, <1>2, NoTxFits, SameShape DEF Locks
  <1>5. ASSUME NEW d \in Client, NEW e \in Client, d # e PROVE Apart(tx'[d], tx'[e])
    <2>1. CASE d = c \/ e = c
      BY <2>1, <1>1, NoTxFits
    <2>2. CASE d # c /\ e # c
      <3>1. Apart(tx[d], tx[e]) /\ Same(tx'[d], tx[d]) /\ Same(tx'[e], tx[e])
        BY <1>0, <1>2, <1>5, <2>2 DEF Locks
      <3>2. Rows(tx'[d]) = Rows(tx[d]) /\ Rows(tx'[e]) = Rows(tx[e])
        BY <3>1, SameShape
      <3> QED BY <3>1, <3>2 DEF Apart, Same
    <2> QED BY <2>1, <2>2
  <1>6. Locks'
    BY <1>4, <1>5 DEF Locks
  <1> QED BY <1>1, <1>2, <1>3, <1>6

\* A transaction takes its next statement.
LEMMA StatementFits ==
  ASSUME TxInv, NEW c \in Client, NEW s \in TxRecord, tx' = [tx EXCEPT ![c] = s],
         Shape(s), Holds(s, status, lease, expired), \A d \in Client \ {c} : Apart(s, tx[d]),
         UNCHANGED storeVars
  PROVE  StoreTypeOK' /\ TxsTyped' /\ Locks'
  <1>0. StoreTypeOK /\ TxsTyped /\ Locks
    BY DEF TxInv
  <1>1. StoreTypeOK' /\ status' = status /\ lease' = lease /\ expired' = expired
    BY <1>0 DEF StoreTypeOK, storeVars
  <1>2. tx'[c] = s /\ \A d \in Client \ {c} : tx'[d] = tx[d]
    BY <1>0 DEF TxsTyped
  <1>3. TxsTyped'
    BY <1>0 DEF TxsTyped
  <1>4. \A d \in Client : Shape(tx'[d]) /\ Holds(tx'[d], status', lease', expired')
    BY <1>0, <1>1, <1>2 DEF Locks
  <1>5. \A d, e \in Client : d # e => Apart(tx'[d], tx'[e])
    BY <1>0, <1>2, ApartSymmetric DEF Locks
  <1> QED BY <1>1, <1>3, <1>4, <1>5 DEF Locks

\* The store changes and no transaction does.
LEMMA StoreFits ==
  ASSUME TxInv, UNCHANGED <<tx, clientVars, disturbed>>, StoreTypeOK',
         \A c \in Client : Holds(tx[c], status', lease', expired')
  PROVE  TxInv'
  <1>1. tx' = tx /\ TxsTyped' /\ ClientsTyped'
    BY DEF TxInv, TxsTyped, ClientsTyped, clientVars
  <1>2. Locks'
    BY <1>1 DEF TxInv, Locks
  <1> QED BY <1>1, <1>2 DEF TxInv

LEMMA ProceedFits ==
  ASSUME TxInv, NEW c \in Client, NEW ok, NEW s, Proceed(c, ok, s),
         ok => /\ s \in TxRecord /\ Shape(s) /\ Holds(s, status, lease, expired)
               /\ \A d \in Client \ {c} : Apart(s, tx[d])
  PROVE  TxInv'
  <1>1. UNCHANGED storeVars /\ ClientsTyped'
    BY DEF Proceed, TxInv, ClientsTyped, clientVars
  <1>2. CASE ok
    <2>1. tx' = [tx EXCEPT ![c] = s]
      BY <1>2 DEF Proceed
    <2> QED BY Zenon, <1>1, <1>2, <2>1, StatementFits DEF TxInv
  <1>3. CASE ~ok
    <2>1. Ends(c, {})
      BY <1>3 DEF Proceed
    <2>2. StoreTypeOK' /\ \A d \in Client \ {c} : Holds(tx[d], status', lease', expired')
      BY <1>1 DEF TxInv, Locks, StoreTypeOK, storeVars
    <2> QED BY <1>1, <2>1, <2>2, EndsFits DEF TxInv
  <1> QED BY <1>2, <1>3

\* What is known of one transaction.
LEMMA One ==
  ASSUME TxInv, NEW c \in Client
  PROVE  /\ tx[c] \in TxRecord /\ Shape(tx[c]) /\ Holds(tx[c], status, lease, expired)
         /\ \A d \in Client \ {c} : Apart(tx[c], tx[d])
  BY DEF TxInv, TxsTyped, Locks

LEMMA Disjoint ==
  /\ \A m \in RowMethods : m \notin Recoveries /\ m \notin Singles /\ m # "none"
  /\ \A m \in Recoveries : m \notin Singles /\ m # "none"
  /\ \A m \in Singles : m # "none"
  /\ Methods = RowMethods \cup Recoveries \cup Singles
  /\ "RecoverExpiredLeases" \in Recoveries
  BY DEF RowMethods, Recoveries, Singles, Reports, Methods

\* A method on one task is at one of its own statements.
LEMMA SingleAt ==
  ASSUME NEW r \in TxRecord, Shape(r), r.pc \in {"owner", "status", "lease", "count"}
  PROVE  r.method \in Singles
  <1>1. r.method \notin RowMethods /\ r.method \notin Recoveries /\ r.method # "none"
    BY DEF Shape, ShapeNone, ShapeRows, ShapeRecovery
  <1> QED BY <1>1, Disjoint DEF TxRecord

LEMMA SingleFits ==
  ASSUME NEW r \in TxRecord, r.method \in Singles, ShapeSingle(r)
  PROVE  Shape(r) /\ \A st, l, x : Holds(r, st, l, x)
  <1>1. r.method \notin RowMethods /\ r.method \notin Recoveries /\ r.method # "none" /\ r.method # "RecoverExpiredLeases"
    BY Disjoint
  <1> QED BY <1>1, Zenon DEF Shape, ShapeNone, ShapeRows, ShapeRecovery, Holds

LEMMA checkFits ==
  ASSUME TxInv, NEW c \in Client, checkLeaseOwner(c) \/ checkStatus(c)
  PROVE  TxInv'
  <1> DEFINE r == tx[c]
  <1>1. r \in TxRecord /\ Shape(r) /\ r.method \in Singles /\ \A d \in Client \ {c} : Apart(r, tx[d])
    BY One, SingleAt DEF checkLeaseOwner, checkStatus, At
  <1>2. ASSUME NEW pc \in {"status", "insert"}, r.pc \in {"owner", "status"}
        PROVE  LET s == [r EXCEPT !.pc = pc]
               IN  /\ s \in TxRecord /\ Shape(s) /\ Holds(s, status, lease, expired)
                   /\ \A d \in Client \ {c} : Apart(s, tx[d])
    <2> DEFINE s == [r EXCEPT !.pc = pc]
    <2>1. /\ s \in TxRecord /\ s.pc = pc /\ s.method = r.method /\ s.worker = r.worker
          /\ s.todo = r.todo /\ s.tasks = r.tasks /\ s.leases = r.leases
      BY <1>1 DEF TxRecord, TxPC
    <2>2. ShapeSingle(r)
      BY <1>1 DEF Shape
    <2> HIDE DEF r, s
    <2>3. ShapeSingle(s)
      BY <2>1, <2>2, <1>1, <1>2 DEF ShapeSingle
    <2>4. \A d \in Client \ {c} : Apart(s, tx[d])
      BY <1>1, <2>1 DEF Apart, Rows
    <2>5. s \in TxRecord /\ Shape(s) /\ Holds(s, status, lease, expired)
      BY <1>1, <2>1, <2>3, SingleFits
    <2> QED BY <2>4, <2>5 DEF s
  <1>3. CASE checkLeaseOwner(c)
    BY <1>2, <1>3, ProceedFits DEF checkLeaseOwner, At
  <1>4. CASE checkStatus(c)
    BY <1>2, <1>4, ProceedFits DEF checkStatus, At
  <1> QED BY <1>3, <1>4

LEMMA insertFits ==
  ASSUME TxInv, NEW c \in Client, insertStatus(c)
  PROVE  TxInv'
  <1> DEFINE r == tx[c]
  <1>1. /\ r \in TxRecord /\ Shape(r) /\ Holds(r, status, lease, expired)
        /\ \A d \in Client \ {c} : Apart(r, tx[d])
    BY One
  <1>2. r.pc = "insert" /\ Blockers(c) = {}
    BY DEF insertStatus, At
  <1>3. PICK t \in r.todo :
           Proceed(c, TRUE, [r EXCEPT !.todo = @ \ {t}, !.tasks = @ \cup {t}, !.pc = AfterInsert(c, t)])
    BY Zenon DEF insertStatus
  <1> DEFINE pc == AfterInsert(c, t)
             s == [r EXCEPT !.todo = r.todo \ {t}, !.tasks = r.tasks \cup {t}, !.pc = pc]
  <1>4. r.method \in Recoveries \/ r.method \in Singles
    BY <1>1, <1>2, Disjoint DEF TxRecord, Shape, ShapeNone, ShapeRows
  <1>5. /\ r.method \in Recoveries => pc \in {"insert", "commit"}
        /\ r.method \notin Recoveries => pc \in {"lease", "commit"}
        /\ t \in Task
    BY <1>1 DEF AfterInsert, TxRecord
  <1> HIDE DEF pc
  <1>6. /\ s \in TxRecord /\ s.pc = pc /\ s.method = r.method /\ s.worker = r.worker
        /\ s.todo = r.todo \ {t} /\ s.tasks = r.tasks \cup {t} /\ s.leases = r.leases
    BY Zenon, <1>1, <1>5 DEF TxRecord, TxPC
  <1>7. Proceed(c, TRUE, s)
    BY Zenon, <1>3 DEF pc
  <1> HIDE DEF s
  <1>8. ASSUME NEW d \in Client \ {c} PROVE Apart(s, tx[d])
    <2>1. t \notin Rows(tx[d])
      <3>1. CASE tx[d].method = "none"
        BY <3>1, Disjoint DEF Rows
      <3>2. CASE tx[d].method # "none"
        <4>1. d \in Others(c) /\ d \notin Blockers(c)
          BY <1>2, <3>2 DEF Others, Open
        <4>2. RowLocks(d) \cap r.todo = {}
          BY <1>2, <4>1 DEF Blockers
        <4> QED BY <4>2 DEF RowLocks, Rows
      <3> QED BY <3>1, <3>2
    <2>2. Rows(s) = {}
      BY <1>4, <1>6, Disjoint DEF Rows
    <2> QED BY <1>1, <1>6, <2>1, <2>2 DEF Apart
  <1>9. CASE r.method \in Recoveries
    <2>1. ShapeRecovery(s)
      BY <1>1, <1>2, <1>5, <1>6, <1>9 DEF Shape, ShapeRecovery
    <2>2. Shape(s)
      BY <1>6, <1>9, <2>1, Disjoint, Zenon DEF Shape, ShapeNone, ShapeRows, ShapeSingle
    <2>3. Holds(s, status, lease, expired)
      BY <1>1, <1>6, <1>9, Disjoint DEF Holds
    <2> QED BY Zenon, <1>6, <1>7, <1>8, <2>2, <2>3, ProceedFits
  <1>10. CASE r.method \in Singles
    <2>1. ShapeSingle(r)
      BY <1>1 DEF Shape
    <2>2. r.worker \in Worker /\ r.tasks = {} /\ r.leases = {} /\ r.todo = {t}
      BY <2>1, <1>2, <1>10 DEF ShapeSingle
    <2>3. ShapeSingle(s)
      <3>1. s.pc \in {"lease", "commit"} /\ s.worker \in Worker /\ s.todo = {} /\ s.tasks = {t} /\ s.leases = {}
        BY <1>5, <1>6, <1>10, <2>2, Disjoint
      <3> QED BY <3>1, <1>5 DEF ShapeSingle
    <2> QED BY Zenon, <1>6, <1>7, <1>8, <1>10, <2>3, SingleFits, ProceedFits
  <1> QED BY <1>4, <1>9, <1>10

LEMMA leaseFits ==
  ASSUME TxInv, NEW c \in Client, changeLease(c)
  PROVE  TxInv'
  <1> DEFINE r == tx[c]
             l == IF ChangesLease(c) THEN r.tasks ELSE {}
             pc == IF r.method = "MarkFailed" THEN "count" ELSE "commit"
             s == [r EXCEPT !.leases = l, !.pc = pc]
  <1>1. r \in TxRecord /\ Shape(r) /\ \A d \in Client \ {c} : Apart(r, tx[d])
    BY One
  <1>2. r.pc = "lease" /\ Blockers(c) = {} /\ Proceed(c, TRUE, s)
    BY Zenon DEF changeLease, At
  <1>3. r.method \in Singles
    BY <1>1, <1>2, SingleAt
  <1>4. PICK t \in Task : r.tasks = {t} /\ r.todo = {} /\ r.worker \in Worker
    BY <1>1, <1>2, <1>3 DEF Shape, ShapeSingle
  <1>5. TaskOf(c) = t
    BY <1>4 DEF TaskOf, Touched
  <1>6. l \subseteq {t} /\ pc \in {"count", "commit"}
    BY <1>4
  <1>7. ASSUME NEW d \in Client \ {c} PROVE l \cap tx[d].leases = {}
    <2>1. CASE ~ChangesLease(c)
      BY <2>1
    <2>2. CASE tx[d].method = "none"
      BY <2>2, One DEF Shape, ShapeNone
    <2>3. CASE ChangesLease(c) /\ tx[d].method # "none"
      <3>1. d \in Others(c) /\ d \notin Blockers(c)
        BY <1>2, <2>3 DEF Others, Open
      <3>2. TaskOf(c) \notin LeaseLocks(d)
        BY <1>2, <2>3, <3>1 DEF Blockers
      <3> QED BY <1>5, <1>6, <3>2 DEF LeaseLocks
    <2> QED BY <2>1, <2>2, <2>3
  <1> HIDE DEF l, pc
  <1>8. /\ s \in TxRecord /\ s.pc = pc /\ s.method = r.method /\ s.worker = r.worker
        /\ s.todo = r.todo /\ s.tasks = r.tasks /\ s.leases = l
    BY Zenon, <1>1, <1>4, <1>6 DEF TxRecord, TxPC
  <1> HIDE DEF s
  <1>9. \A d \in Client \ {c} : Apart(s, tx[d])
    BY <1>1, <1>7, <1>8 DEF Apart, Rows
  <1>10. ShapeSingle(s)
    BY <1>4, <1>6, <1>8 DEF ShapeSingle
  <1> QED BY Zenon, <1>2, <1>3, <1>8, <1>9, <1>10, SingleFits, ProceedFits

LEMMA countFits ==
  ASSUME TxInv, NEW c \in Client, countFailed(c)
  PROVE  TxInv'
  <1> DEFINE r == tx[c]
             last == IF failed[TaskOf(c)] + 1 < MaxRetries[TaskOf(c)] THEN "QUEUED" ELSE "FAILED"
             s == [r EXCEPT !.pc = "commit", !.last = last]
  <1>1. r \in TxRecord /\ Shape(r) /\ \A d \in Client \ {c} : Apart(r, tx[d])
    BY One
  <1>2. r.pc = "count" /\ Proceed(c, TRUE, s)
    BY Zenon DEF countFailed, At
  <1>3. r.method \in Singles
    BY <1>1, <1>2, SingleAt
  <1>4. last \in States
    BY DEF States
  <1> HIDE DEF last
  <1>5. /\ s \in TxRecord /\ s.pc = "commit" /\ s.method = r.method /\ s.worker = r.worker
        /\ s.todo = r.todo /\ s.tasks = r.tasks /\ s.leases = r.leases
    BY Zenon, <1>1, <1>4 DEF TxRecord, TxPC
  <1> HIDE DEF s
  <1>6. \A d \in Client \ {c} : Apart(s, tx[d])
    BY <1>1, <1>5 DEF Apart, Rows
  <1>7. ShapeSingle(s)
    BY <1>1, <1>2, <1>3, <1>5 DEF Shape, ShapeSingle
  <1> QED BY Zenon, <1>2, <1>3, <1>5, <1>6, <1>7, SingleFits, ProceedFits

\* The leases a recovery locks, which nobody else has locked, and those it takes as lost.
LEMMA SelectedRows ==
  ASSUME NEW c \in Client, selectLeases(c)
  PROVE  \E rows, lost :
           /\ rows \subseteq (IF tx[c].method = "RecoverExpiredLeases" THEN expired ELSE {t \in Task : lease[t] # NoWorker})
           /\ \A d \in Others(c) : rows \cap LeaseLocks(d) = {}
           /\ lost \subseteq rows
           /\ tx' = [tx EXCEPT ![c] = LockedLeases(c, rows, lost)]
           /\ disturbed' = disturbed \cup Meets(c, tx[c].method, lost)
  <1> DEFINE held == UNION {LeaseLocks(d) : d \in Others(c)}
             rows == IF tx[c].method = "RecoverExpiredLeases" THEN (tx[c].due \cap expired) \ held
                     ELSE {t \in Task : lease[t] # NoWorker} \ held
  <1>1. PICK alive :
           /\ tx' = [tx EXCEPT ![c] = LockedLeases(c, rows, rows \cap DeadLeases(alive))]
           /\ disturbed' = disturbed \cup Meets(c, tx[c].method, rows \cap DeadLeases(alive))
    BY Zenon DEF selectLeases
  <1>2. /\ rows \subseteq (IF tx[c].method = "RecoverExpiredLeases" THEN expired ELSE {t \in Task : lease[t] # NoWorker})
        /\ \A d \in Others(c) : rows \cap LeaseLocks(d) = {}
    OBVIOUS
  <1>3. rows \cap DeadLeases(alive) \subseteq rows
    OBVIOUS
  <1> HIDE DEF rows
  <1> QED BY Zenon, <1>1, <1>2, <1>3

LEMMA selectFits ==
  ASSUME TxInv, NEW c \in Client, selectLeases(c)
  PROVE  TxInv'
  <1> DEFINE r == tx[c]
  <1>1. r \in TxRecord /\ Shape(r) /\ \A d \in Client \ {c} : Apart(r, tx[d])
    BY One
  <1>2. r.pc = "select" /\ r.method \in Recoveries /\ UNCHANGED storeVars /\ UNCHANGED clientVars
    BY DEF selectLeases, At
  <1>3. PICK rows, lost :
           /\ rows \subseteq (IF r.method = "RecoverExpiredLeases" THEN expired ELSE {t \in Task : lease[t] # NoWorker})
           /\ \A d \in Others(c) : rows \cap LeaseLocks(d) = {}
           /\ lost \subseteq rows
           /\ tx' = [tx EXCEPT ![c] = LockedLeases(c, rows, lost)]
           /\ disturbed' = disturbed \cup Meets(c, r.method, lost)
    BY SelectedRows
  <1>4. rows \subseteq Task /\ (\A t \in rows : lease[t] # NoWorker)
        /\ (r.method = "RecoverExpiredLeases" => rows \subseteq expired)
    BY <1>3 DEF TxInv, StoreTypeOK
  <1>5. ClientsTyped'
    <2>1. Meets(c, r.method, lost) \subseteq Task
      BY <1>3, <1>4 DEF Meets
    <2> QED BY <1>2, <1>3, <2>1 DEF TxInv, ClientsTyped, clientVars
  <1> DEFINE s == LockedLeases(c, rows, lost)
  <1>6. rows \in SUBSET Task /\ lost \in SUBSET Task
    BY <1>3, <1>4
  <1>7. /\ s \in TxRecord /\ s.pc = "insert" /\ s.method = r.method /\ s.worker = r.worker
        /\ s.todo = lost /\ s.tasks = r.tasks /\ s.leases = rows
    BY Zenon, <1>1, <1>6 DEF LockedLeases, TxRecord, TxPC
  <1>8. tx' = [tx EXCEPT ![c] = s]
    BY <1>3
  <1> HIDE DEF s
  <1>9. r.tasks = {}
    BY <1>1, <1>2 DEF Shape, ShapeRecovery
  <1>10. ShapeRecovery(s)
    BY <1>3, <1>7, <1>9 DEF ShapeRecovery
  <1>11. Shape(s)
    BY <1>2, <1>7, <1>10, Disjoint, Zenon DEF Shape, ShapeNone, ShapeRows, ShapeSingle
  <1>12. Holds(s, status, lease, expired)
    BY <1>2, <1>4, <1>7, Disjoint DEF Holds
  <1>13. ASSUME NEW d \in Client \ {c} PROVE Apart(s, tx[d])
    <2>1. rows \cap tx[d].leases = {}
      <3>1. CASE tx[d].method = "none"
        BY <3>1, One DEF Shape, ShapeNone
      <3>2. CASE tx[d].method # "none"
        BY <1>3, <3>2 DEF Others, Open, LeaseLocks
      <3> QED BY <3>1, <3>2
    <2> QED BY <1>1, <1>7, <2>1 DEF Apart, Rows
  <1> QED BY Zenon, <1>2, <1>5, <1>7, <1>8, <1>11, <1>12, <1>13, StatementFits DEF TxInv

LEMMA snapshotFits ==
  ASSUME TxInv, NEW c \in Client, snapshot(c)
  PROVE  TxInv'
  <1> DEFINE r == tx[c]
             rows == IF r.method = "ClaimQueued" THEN Claimable ELSE StaleScheduling
             s == [r EXCEPT !.todo = rows, !.pc = "lock"]
  <1>1. /\ r \in TxRecord /\ Shape(r) /\ Holds(r, status, lease, expired)
        /\ \A d \in Client \ {c} : Apart(r, tx[d])
    BY One
  <1>2. /\ r.method \in RowMethods /\ UNCHANGED storeVars /\ UNCHANGED clientVars
        /\ disturbed' = disturbed \cup Meets(c, r.method, rows)
        /\ IF rows # {} THEN tx' = [tx EXCEPT ![c].todo = rows, ![c].pc = "lock"] ELSE Ends(c, {})
    BY DEF snapshot
  <1>3. rows \subseteq Task /\ \A t \in rows : status[t] # "ABSENT"
    BY DEF Claimable, StaleScheduling
  <1>4. ClientsTyped'
    <2>1. Meets(c, r.method, rows) \subseteq Task
      BY <1>3 DEF Meets
    <2> QED BY <1>2, <2>1 DEF TxInv, ClientsTyped, clientVars
  <1> HIDE DEF rows
  <1>5. CASE rows = {}
    <2>1. StoreTypeOK' /\ \A d \in Client \ {c} : Holds(tx[d], status', lease', expired')
      BY <1>2 DEF TxInv, Locks, StoreTypeOK, storeVars
    <2> QED BY <1>2, <1>4, <1>5, <2>1, EndsFits DEF TxInv
  <1>6. CASE rows # {}
    <2>1. /\ s \in TxRecord /\ s.pc = "lock" /\ s.method = r.method /\ s.worker = r.worker
          /\ s.todo = rows /\ s.tasks = r.tasks /\ s.leases = r.leases
      BY Zenon, <1>1, <1>3 DEF TxRecord, TxPC
    <2>2. tx' = [tx EXCEPT ![c] = s]
      BY Zenon, <1>2, <1>6 DEF TxInv, TxsTyped
    <2> HIDE DEF s
    <2>3. ShapeRows(s)
      BY <1>1, <1>2, <2>1 DEF Shape, ShapeRows
    <2>4. Shape(s)
      BY <1>2, <2>1, <2>3, Disjoint, Zenon DEF Shape, ShapeNone, ShapeRecovery, ShapeSingle
    <2>5. Holds(s, status, lease, expired)
      BY <1>1, <1>2, <1>3, <2>1, Disjoint DEF Holds
    <2>6. \A d \in Client \ {c} : Apart(s, tx[d])
      BY <1>1, <2>1 DEF Apart, Rows
    <2> QED BY Zenon, <1>2, <1>4, <2>1, <2>2, <2>4, <2>5, <2>6, StatementFits DEF TxInv
  <1> QED BY <1>5, <1>6

\* What one step of FOR UPDATE SKIP LOCKED does.
LEMMA LockedRow ==
  ASSUME TxInv, NEW c \in Client, lockRow(c)
  PROVE  \E t \in tx[c].todo, tasks \in SUBSET Task, todo \in SUBSET Task, pc \in {"lock", "commit"}, ok \in BOOLEAN :
           /\ tasks = IF \A d \in Others(c) : t \notin RowLocks(d) \cup ShareLocks(d) THEN tx[c].tasks \cup {t} ELSE tx[c].tasks
           /\ todo \subseteq tx[c].todo
           /\ Proceed(c, ok, [tx[c] EXCEPT !.tasks = tasks, !.todo = todo, !.pc = pc])
  <1> DEFINE r == tx[c]
  <1>0. r \in TxRecord
    BY One
  <1>1. PICK t \in IF r.method = "ClaimQueued" THEN FirstOf(r.todo, 1) ELSE r.todo :
           LET free  == \A d \in Others(c) : t \notin RowLocks(d) \cup ShareLocks(d)
               tasks == IF free THEN r.tasks \cup {t} ELSE r.tasks
               done  == \/ r.todo = {t}
                        \/ r.method = "ClaimQueued" /\ Cardinality(tasks) = BatchSize
           IN Proceed(c, ~(done /\ tasks = {}),
                      [r EXCEPT !.tasks = tasks,
                                !.todo = IF done THEN {} ELSE @ \ {t},
                                !.pc = IF done THEN "commit" ELSE "lock"])
    BY Zenon DEF lockRow
  <1> DEFINE free  == \A d \in Others(c) : t \notin RowLocks(d) \cup ShareLocks(d)
             tasks == IF free THEN r.tasks \cup {t} ELSE r.tasks
             done  == \/ r.todo = {t}
                      \/ r.method = "ClaimQueued" /\ Cardinality(tasks) = BatchSize
             todo  == IF done THEN {} ELSE r.todo \ {t}
             pc    == IF done THEN "commit" ELSE "lock"
             ok    == ~(done /\ tasks = {})
  <1>2. t \in r.todo
    BY <1>1 DEF FirstOf
  <1>3. Proceed(c, ok, [r EXCEPT !.tasks = tasks, !.todo = todo, !.pc = pc])
    BY <1>1
  <1>4. todo \subseteq r.todo /\ pc \in {"lock", "commit"} /\ ok \in BOOLEAN
    OBVIOUS
  <1>5. tasks = IF \A d \in Others(c) : t \notin RowLocks(d) \cup ShareLocks(d) THEN r.tasks \cup {t} ELSE r.tasks
    OBVIOUS
  <1>6. tasks \in SUBSET Task /\ todo \in SUBSET Task
    BY SMTT(30), <1>0, <1>2 DEF TxRecord
  <1> HIDE DEF tasks, todo, pc, ok
  <1> USE <1>2, <1>4, <1>6
  <1> WITNESS t \in r.todo, tasks \in SUBSET Task, todo \in SUBSET Task, pc \in {"lock", "commit"}, ok \in BOOLEAN
  <1> QED BY <1>3, <1>4, <1>5

\* A row is locked if nobody has locked it or written a status for it.
LEMMA lockFits ==
  ASSUME TxInv, NEW c \in Client, lockRow(c)
  PROVE  TxInv'
  <1> DEFINE r == tx[c]
  <1>1. /\ r \in TxRecord /\ Shape(r) /\ Holds(r, status, lease, expired)
        /\ \A d \in Client \ {c} : Apart(r, tx[d])
    BY One
  <1>2. r.pc = "lock" /\ r.method \in RowMethods /\ r.leases = {}
    <2>1. r.pc = "lock"
      BY DEF lockRow, At
    <2>2. r.method \notin Singles /\ r.method \notin Recoveries /\ r.method # "none"
      BY <1>1, <2>1 DEF Shape, ShapeNone, ShapeRecovery, ShapeSingle
    <2> QED BY <1>1, <2>1, <2>2, Disjoint DEF TxRecord, Shape, ShapeRows
  <1>3. PICK t \in r.todo, tasks \in SUBSET Task, todo \in SUBSET Task, pc \in {"lock", "commit"}, ok \in BOOLEAN :
           /\ tasks = IF \A d \in Others(c) : t \notin RowLocks(d) \cup ShareLocks(d) THEN r.tasks \cup {t} ELSE r.tasks
           /\ todo \subseteq r.todo
           /\ Proceed(c, ok, [r EXCEPT !.tasks = tasks, !.todo = todo, !.pc = pc])
    BY Zenon, LockedRow
  <1> DEFINE s == [r EXCEPT !.tasks = tasks, !.todo = todo, !.pc = pc]
  <1>4. tasks \subseteq r.tasks \cup {t} /\ tasks \subseteq Task /\ todo \subseteq Task
    BY <1>1, <1>3 DEF TxRecord
  <1>5. /\ s \in TxRecord /\ s.pc = pc /\ s.method = r.method /\ s.worker = r.worker
        /\ s.todo = todo /\ s.tasks = tasks /\ s.leases = r.leases
    BY Zenon, <1>1, <1>3, <1>4 DEF TxRecord, TxPC
  <1>6. Proceed(c, ok, s)
    BY <1>3
  <1> HIDE DEF s
  <1>7. Shape(s)
    <2>1. ShapeRows(s)
      BY <1>2, <1>3, <1>5 DEF ShapeRows
    <2> QED BY <1>2, <1>5, <2>1, Disjoint, Zenon DEF Shape, ShapeNone, ShapeRecovery, ShapeSingle
  <1>8. Holds(s, status, lease, expired)
    BY <1>1, <1>2, <1>3, <1>4, <1>5, Disjoint DEF Holds
  <1>9. ASSUME NEW d \in Client \ {c} PROVE Apart(s, tx[d])
    <2>1. tasks # r.tasks => t \notin tx[d].tasks
      <3>1. CASE tx[d].method = "none"
        BY <3>1, One DEF Shape, ShapeNone
      <3>2. CASE tx[d].method # "none"
        BY <1>3, <3>2 DEF Others, Open, RowLocks, ShareLocks
      <3> QED BY <3>1, <3>2
    <2>2. Rows(s) = tasks /\ Rows(r) = r.tasks /\ Rows(tx[d]) \subseteq tx[d].tasks
      BY <1>2, <1>5 DEF Rows
    <2>3. r.tasks \cap tx[d].tasks = {} /\ Rows(tx[d]) \cap r.tasks = {} /\ r.leases \cap tx[d].leases = {}
      BY <1>1, <2>2 DEF Apart
    <2>4. tasks \cap tx[d].tasks = {}
      BY <1>4, <2>1, <2>3
    <2> QED BY <1>5, <2>2, <2>3, <2>4 DEF Apart
  <1> QED BY <1>5, <1>6, <1>7, <1>8, <1>9, ProceedFits

\* The committed statuses and leases are those of the transaction's own rows, which
\* no other recovery or claim holds.
LEMMA commitFits ==
  ASSUME TxInv, NEW c \in Client, commit(c)
  PROVE  TxInv'
  <1> DEFINE r == tx[c]
  <1>1. /\ r \in TxRecord /\ Shape(r) /\ \A d \in Client \ {c} : Apart(r, tx[d])
        /\ StoreTypeOK /\ ClientsTyped
    BY One DEF TxInv
  <1>2. r.pc = "commit" /\ Ends(c, r.tasks)
    BY DEF commit, At
  <1>3. LastStatus(c) \in States
    BY <1>1 DEF LastStatus, States, TxRecord
  <1>4. r.method = "MarkAssigned" => r.worker \in Worker
    BY <1>1 DEF Shape, ShapeSingle, Singles
  <1>5. StoreTypeOK'
    <2>1. status' \in [Task -> States \cup {"ABSENT"}]
      BY <1>1, <1>3 DEF commit, StoreTypeOK
    <2>2. failed' \in [Task -> Nat]
      BY <1>1 DEF commit, StoreTypeOK
    <2>3. lease' \in [Task -> Worker \cup {NoWorker}]
      BY <1>1, <1>4 DEF commit, StoreTypeOK
    <2>4. \A t \in expired' : t \in Task /\ lease'[t] # NoWorker
      BY <1>1 DEF commit, StoreTypeOK, ReplacedLeases, ChangedLeases
    <2> QED BY <2>1, <2>2, <2>3, <2>4 DEF StoreTypeOK
  <1>6. ASSUME NEW d \in Client \ {c} PROVE Holds(tx[d], status', lease', expired')
    <2>1. /\ Holds(tx[d], status, lease, expired) /\ Apart(r, tx[d]) /\ tx[d] \in TxRecord
      BY One, <1>1
    <2>2. ASSUME NEW t \in tx[d].leases PROVE lease'[t] = lease[t] /\ (t \in expired => t \in expired')
      <3>1. t \in Task /\ t \notin r.leases
        BY <2>1, <2>2 DEF TxRecord, Apart
      <3> QED BY <3>1 DEF commit, ReplacedLeases, ChangedLeases
    <2>3. ASSUME NEW t \in Task, status[t] # "ABSENT" PROVE status'[t] # "ABSENT"
      BY <1>3, <2>3 DEF commit, States
    <2>4. /\ tx[d].method \in Recoveries => \A t \in tx[d].leases : lease'[t] # NoWorker
          /\ tx[d].method = "RecoverExpiredLeases" => tx[d].leases \subseteq expired'
      BY <2>1, <2>2 DEF Holds
    <2>5. tx[d].method \in RowMethods => \A t \in tx[d].todo \cup tx[d].tasks : status'[t] # "ABSENT"
      BY <2>1, <2>3 DEF Holds, TxRecord
    <2> QED BY <2>4, <2>5 DEF Holds
  <1>7. ClientsTyped'
    <2>1. disturbed' \subseteq Task /\ r.tasks \subseteq Task
      BY <1>1 DEF commit, ClientsTyped, TxRecord
    <2>2. CASE r.method = "ClaimQueued"
      BY <1>1, <2>1, <2>2 DEF commit, Informs, ClientsTyped
    <2>3. CASE r.method = "MarkAssigned"
      <3>1. duty' = [duty EXCEPT ![r.worker] = @ \cup r.tasks] /\ sent' = [sent EXCEPT ![c] = {<<t, r.worker>> : t \in r.tasks}]
        BY <2>3 DEF commit, Informs
      <3>2. {<<t, r.worker>> : t \in r.tasks} \in SUBSET (Task \X Worker)
        BY <1>4, <2>1, <2>3
      <3> QED BY Zenon, <1>1, <2>1, <3>1, <3>2 DEF ClientsTyped
    <2>4. CASE r.method \notin {"ClaimQueued", "MarkAssigned"}
      BY <1>1, <2>1, <2>4 DEF commit, Informs, ClientsTyped, clientVars
    <2> QED BY <2>2, <2>3, <2>4
  <1>8. r.tasks \in SUBSET Task
    BY <1>1 DEF TxRecord
  <1> QED BY <1>2, <1>5, <1>6, <1>7, <1>8, EndsFits DEF TxInv

LEMMA beginFits ==
  ASSUME TxInv, NEW c \in Client, NEW m \in Methods, NEW pc, NEW w, NEW S \in SUBSET Task, Begin(c, m, pc, w, S),
         \/ m \in RowMethods \cup Recoveries /\ pc = "select" /\ w = NoWorker /\ S = {}
         \/ m \in Singles /\ pc \in {"owner", "status"} /\ w \in Worker /\ \E t \in Task : S = {t}
  PROVE  StoreTypeOK' /\ TxsTyped' /\ Locks' /\ disturbed' \subseteq Task
  <1> DEFINE due == IF m = "RecoverExpiredLeases" THEN expired ELSE {}
             s == [NoTx EXCEPT !.method = m, !.pc = pc, !.worker = w, !.todo = S, !.due = due, !.older = Open]
  <1>1. /\ s \in TxRecord /\ s.pc = pc /\ s.method = m /\ s.worker = w
        /\ s.todo = S /\ s.tasks = {} /\ s.leases = {}
    <2>1. Open \in SUBSET Client /\ pc \in TxPC /\ w \in Worker \cup {NoWorker} /\ due \in SUBSET Task
      BY DEF Open, TxPC, TxInv, StoreTypeOK
    <2>2. NoTx \in TxRecord /\ NoTx.tasks = {} /\ NoTx.leases = {}
      BY NoTxFits
    <2> HIDE DEF due
    <2> QED BY Zenon, <2>1, <2>2 DEF TxRecord
  <1>2. tx' = [tx EXCEPT ![c] = s] /\ UNCHANGED storeVars /\ disturbed' = disturbed \cup Meets(c, m, S)
    BY DEF Begin
  <1> HIDE DEF s
  <1>3. \A d \in Client \ {c} : Apart(s, tx[d])
    BY <1>1 DEF Apart, Rows
  <1>4. CASE m \in RowMethods \cup Recoveries
    <2>1. pc = "select" /\ S = {}
      BY <1>4, Disjoint
    <2>2. ShapeRows(s) /\ ShapeRecovery(s) /\ Holds(s, status, lease, expired)
      BY <1>1, <2>1 DEF ShapeRows, ShapeRecovery, Holds
    <2>3. Shape(s)
      BY <1>1, <1>4, <2>2, Disjoint, Zenon DEF Shape, ShapeNone, ShapeSingle
    <2> QED BY Zenon, <1>1, <1>2, <1>3, <2>2, <2>3, StatementFits DEF TxInv, ClientsTyped, Meets
  <1>5. CASE m \in Singles
    <2>1. pc \in {"owner", "status"} /\ w \in Worker /\ \E t \in Task : S = {t}
      BY <1>5, Disjoint
    <2>2. ShapeSingle(s)
      BY <1>1, <2>1 DEF ShapeSingle
    <2> QED BY Zenon, <1>1, <1>2, <1>3, <1>5, <2>2, SingleFits, StatementFits DEF TxInv, ClientsTyped, Meets
  <1> QED BY <1>4, <1>5, Disjoint

LEMMA schedulerFits ==
  ASSUME TxInv, NEW c \in Scheduler, BeginScheduler(c)
  PROVE  TxInv'
  <1> DEFINE Fits == StoreTypeOK' /\ TxsTyped' /\ Locks' /\ disturbed' \subseteq Task
  <1>0. c \in Client /\ ClientsTyped
    BY DEF Client, TxInv
  <1>1. ASSUME NEW m \in RowMethods \cup Recoveries, Begin(c, m, "select", NoWorker, {}),
               duty' = [duty EXCEPT ![c] = {}], sent' = [sent EXCEPT ![c] = {}]
        PROVE  TxInv'
    <2>1. Fits
      BY <1>0, <1>1, beginFits, Disjoint
    <2> QED BY <1>0, <1>1, <2>1 DEF TxInv, ClientsTyped
  <1>2. ASSUME NEW t \in duty[c], NEW w \in Worker, Begin(c, "MarkAssigned", "status", w, {t}),
               duty' = [duty EXCEPT ![c] = @ \ {t}], sent' = [sent EXCEPT ![c] = {}]
        PROVE  TxInv'
    <2>1. t \in Task /\ "MarkAssigned" \in Singles /\ "MarkAssigned" \in Methods
      BY <1>0 DEF ClientsTyped, Singles, Methods
    <2>2. Fits
      BY <1>0, <1>2, <2>1, beginFits
    <2> QED BY <1>0, <1>2, <2>2 DEF TxInv, ClientsTyped
  <1>3. ASSUME NEW a \in sent[c], Begin(c, "MarkWorkerLost", "status", a[2], {a[1]}),
               sent' = [sent EXCEPT ![c] = {}], UNCHANGED duty
        PROVE  TxInv'
    <2>1. a[1] \in Task /\ a[2] \in Worker /\ "MarkWorkerLost" \in Singles /\ "MarkWorkerLost" \in Methods
      BY <1>0 DEF ClientsTyped, Singles, Methods
    <2>2. Fits
      BY <1>0, <1>3, <2>1, beginFits
    <2> QED BY <1>0, <1>3, <2>2 DEF TxInv, ClientsTyped
  <1> QED BY Zenon, <1>1, <1>2, <1>3 DEF BeginScheduler

LEMMA reportFits ==
  ASSUME TxInv, NEW c \in Worker, BeginReport(c)
  PROVE  TxInv'
  <1>0. c \in Client /\ ClientsTyped
    BY DEF Client, TxInv
  <1>1. PICK m \in Reports, t \in duty[c] : Begin(c, m, "owner", c, {t})
    BY DEF BeginReport
  <1>2. t \in Task /\ m \in Singles /\ m \in Methods
    BY <1>0 DEF ClientsTyped, Singles, Methods
  <1>3. StoreTypeOK' /\ TxsTyped' /\ Locks' /\ disturbed' \subseteq Task
    BY <1>0, <1>1, <1>2, beginFits
  <1> QED BY <1>0, <1>3 DEF TxInv, ClientsTyped, BeginReport, clientVars

\* The clock and a renewal: the renewal waits for a locked lease.
LEMMA storeStepFits ==
  ASSUME TxInv, UNCHANGED <<tx, clientVars, disturbed>>, NEW t \in Task,
         \/ LeaseExpires(t)
         \/ \E w \in Worker : RenewLease(t, w) /\ \A d \in Open : t \notin LeaseLocks(d)
  PROVE  TxInv'
  <1>0. StoreTypeOK
    BY DEF TxInv
  <1>1. StoreTypeOK'
    BY <1>0 DEF StoreTypeOK, LeaseExpires, RenewLease
  <1>2. ASSUME NEW c \in Client PROVE Holds(tx[c], status', lease', expired')
    <2>1. tx[c] \in TxRecord /\ Holds(tx[c], status, lease, expired)
      BY One
    <2>2. lease' = lease /\ status' = status
      BY DEF LeaseExpires, RenewLease
    <2>3. tx[c].method = "RecoverExpiredLeases" => \A u \in tx[c].leases : u \in expired => u \in expired'
      <3>1. CASE LeaseExpires(t)
        BY <3>1 DEF LeaseExpires
      <3>2. CASE \E w \in Worker : RenewLease(t, w) /\ \A d \in Open : t \notin LeaseLocks(d)
        BY <3>2 DEF RenewLease, Open, LeaseLocks
      <3> QED BY <3>1, <3>2
    <2> QED BY <2>1, <2>2, <2>3 DEF Holds, TxRecord
  <1> QED BY <1>1, <1>2, StoreFits

\* What the insertion of a task changes of a transaction.
LEMMA insertTaskTx ==
  ASSUME TxInv, NEW t \in Task, insertTask(t), NEW c \in Client
  PROVE  /\ tx'[c] \in TxRecord /\ Same(tx'[c], tx[c]) /\ tx'[c].last = tx[c].last
         /\ tx'[c].late = tx[c].late \/ tx'[c].late = tx[c].late \cup {t}
  <1>1. PICK S : tx' = [d \in Client |-> IF d \in S THEN [tx[d] EXCEPT !.late = @ \cup {t}] ELSE tx[d]]
    BY Zenon DEF insertTask
  <1>2. tx[c] \in TxRecord
    BY One
  <1>3. CASE c \notin S
    BY Zenon, <1>1, <1>2, <1>3 DEF Same
  <1>4. CASE c \in S
    <2> DEFINE l == tx[c].late \cup {t}
    <2>1. tx'[c] = [tx[c] EXCEPT !.late = l]
      BY Zenon, <1>1, <1>4
    <2>2. l \in SUBSET Task
      BY <1>2 DEF TxRecord
    <2> HIDE DEF l
    <2>3. tx'[c] \in TxRecord /\ Same(tx'[c], tx[c]) /\ tx'[c].last = tx[c].last /\ tx'[c].late = l
      BY Zenon, <1>2, <2>1, <2>2 DEF TxRecord, Same
    <2> QED BY <2>3 DEF l
  <1> QED BY <1>3, <1>4

\* A new task.
LEMMA insertTaskFits ==
  ASSUME TxInv, NEW t \in Task, insertTask(t)
  PROVE  TxInv'
  <1>0. StoreTypeOK /\ ClientsTyped /\ Locks
    BY DEF TxInv
  <1>1. StoreTypeOK' /\ ClientsTyped'
    BY <1>0 DEF insertTask, Submit, StoreTypeOK, States, ClientsTyped, clientVars
  <1>2. \A c \in Client : tx'[c] \in TxRecord /\ Same(tx'[c], tx[c])
    BY insertTaskTx
  <1>3. TxsTyped'
    <2>1. tx' = [c \in Client |-> tx'[c]]
      BY Zenon DEF insertTask
    <2> QED BY <1>2, <2>1 DEF TxsTyped
  <1>4. ASSUME NEW c \in Client PROVE Shape(tx'[c]) /\ Holds(tx'[c], status', lease', expired')
    <2>1. tx[c] \in TxRecord /\ Shape(tx[c]) /\ Holds(tx[c], status, lease, expired)
      BY One
    <2>2. /\ lease' = lease /\ expired' = expired
          /\ \A u \in Task : status[u] # "ABSENT" => status'[u] # "ABSENT"
      BY <1>0 DEF StoreTypeOK, insertTask, Submit
    <2>3. Holds(tx[c], status', lease', expired')
      BY <2>1, <2>2 DEF Holds, TxRecord
    <2> QED BY <1>2, <2>1, <2>3, SameShape
  <1>5. ASSUME NEW c \in Client, NEW d \in Client, c # d PROVE Apart(tx'[c], tx'[d])
    <2>1. Apart(tx[c], tx[d]) /\ Same(tx'[c], tx[c]) /\ Same(tx'[d], tx[d])
      BY <1>0, <1>2, <1>5 DEF Locks
    <2>2. Rows(tx'[c]) = Rows(tx[c]) /\ Rows(tx'[d]) = Rows(tx[d])
      BY <2>1, SameShape
    <2> QED BY <2>1, <2>2 DEF Apart, Same
  <1> QED BY <1>1, <1>3, <1>4, <1>5 DEF TxInv, Locks

-----------------------------------------------------------------------------
(* The theorems.                                                            *)

LEMMA TxInvInit == TxInit => TxInv
  <1> SUFFICES ASSUME TxInit PROVE TxInv
    OBVIOUS
  <1>1. StoreTypeOK
    BY DEF TxInit, StoreInit, StoreTypeOK
  <1>2. TxsTyped /\ \A c \in Client : tx[c] = NoTx
    BY NoTxFits DEF TxInit, TxsTyped
  <1>3. ClientsTyped
    BY DEF TxInit, ClientsTyped
  <1>4. Locks
    BY <1>2, NoTxFits DEF Locks
  <1> QED BY <1>1, <1>2, <1>3, <1>4 DEF TxInv

LEMMA TxInvStep == TxInv /\ [TxNext]_txVars => TxInv'
  <1> SUFFICES ASSUME TxInv, [TxNext]_txVars PROVE TxInv'
    OBVIOUS
  <1>1. CASE UNCHANGED txVars
    BY <1>1 DEF txVars, storeVars, clientVars, TxInv, StoreTypeOK, TxsTyped, ClientsTyped, Locks
  <1>2. CASE \E t \in Task : insertTask(t) \/ (LeaseExpires(t) /\ UNCHANGED <<tx, clientVars, disturbed>>)
    BY Zenon, <1>2, insertTaskFits, storeStepFits
  <1>3. CASE \E c \in Scheduler : BeginScheduler(c)
    BY <1>3, schedulerFits
  <1>4. CASE \E c \in Worker : BeginReport(c)
    BY <1>4, reportFits
  <1>5. CASE \E c \in Worker : renewLease(c)
    BY SMTT(30), <1>5, storeStepFits DEF renewLease
  <1>6. ASSUME NEW c \in Client, Rollback(c) PROVE TxInv'
    <2>1. UNCHANGED storeVars /\ ClientsTyped' /\ Ends(c, {})
      BY <1>6 DEF Rollback, TxInv, ClientsTyped, clientVars
    <2>2. StoreTypeOK' /\ \A d \in Client \ {c} : Holds(tx[d], status', lease', expired')
      BY <2>1 DEF TxInv, Locks, StoreTypeOK, storeVars
    <2> QED BY <2>1, <2>2, EndsFits DEF TxInv
  <1>7. CASE \E c \in Client : TxStep(c)
    BY <1>6, <1>7, checkFits, insertFits, leaseFits, countFits, selectFits, snapshotFits, lockFits, commitFits
       DEF TxStep
  <1> QED BY <1>1, <1>2, <1>3, <1>4, <1>5, <1>7 DEF TxNext

LEMMA TxInvAlways == TxSpec => []TxInv
  BY TxInvInit, TxInvStep, PTL DEF TxSpec

\* Type correctness of the transactions, for any number of clients.
THEOREM TxTyped == TxSpec => []TxTypeOK
  BY TxInvAlways, Typed, PTL DEF TxInv

\* The transactions cannot deadlock.  A transaction waits only at an insert, for a
\* claim, which waits for nobody, or at the change of a lease, for one that has
\* locked its leases and is at most at an insert.
THEOREM NobodyWaitsInACircle == TxSpec => []NoCircularWait
  <1>1. TxInv => NoCircularWait
    <2> SUFFICES ASSUME TxInv, NEW S \in SUBSET Open, \A c \in S : Blockers(c) \cap S # {}
                 PROVE  S = {}
      BY DEF NoCircularWait
    <2>0. \A c \in S : c \in Client /\ tx[c] \in TxRecord /\ Shape(tx[c])
      BY One DEF Open
    <2>1. ASSUME NEW c \in S, tx[c].pc = "insert" PROVE FALSE
      <3>1. PICK d \in S : RowLocks(d) \cap tx[c].todo # {}
        BY <2>1 DEF Blockers
      <3>2. tx[d].pc \in {"select", "lock", "commit"}
        BY <2>0, <3>1 DEF RowLocks, Shape, ShapeRows
      <3>3. Blockers(d) = {}
        BY <3>2 DEF Blockers
      <3> QED BY <3>3
    <2>2. ASSUME NEW c \in S, tx[c].pc = "lease" PROVE FALSE
      <3>1. PICK d \in S : TaskOf(c) \in LeaseLocks(d)
        BY <2>2 DEF Blockers
      <3>2. tx[d].pc # "lease"
        <4>1. CASE tx[d].pc = "lease"
          <5>1. tx[d].method \in Singles /\ ShapeSingle(tx[d])
            BY <2>0, <4>1, SingleAt DEF Shape
          <5> QED BY <3>1, <4>1, <5>1 DEF LeaseLocks, ShapeSingle
        <4> QED BY <4>1
      <3>3. Blockers(d) = {}
        BY <2>1, <3>2 DEF Blockers
      <3> QED BY <3>3
    <2>3. ASSUME NEW c \in S PROVE FALSE
      BY <2>1, <2>2, <2>3 DEF Blockers
    <2> QED BY <2>3
  <1> QED BY <1>1, TxInvAlways, PTL

\* The leases a recovery has selected are there, and expired if that was the reason,
\* until it commits, whatever the workers and the other schedulers do.
THEOREM RecoveriesKeepLeases == TxSpec => []RecoveryKeepsLease
  <1>1. TxInv => RecoveryKeepsLease
    <2> SUFFICES ASSUME TxInv, NEW c \in Open, tx[c].method \in Recoveries, tx[c].pc \in {"insert", "commit"},
                        NEW t \in Touched(c)
                 PROVE  lease[t] # NoWorker /\ (tx[c].method = "RecoverExpiredLeases" => t \in expired)
      BY DEF RecoveryKeepsLease
    <2>1. c \in Client /\ Shape(tx[c]) /\ Holds(tx[c], status, lease, expired)
      BY One DEF Open
    <2>2. t \in tx[c].leases
      BY <2>1 DEF Touched, Shape, ShapeRecovery
    <2> QED BY <2>1, <2>2 DEF Holds
  <1> QED BY <1>1, TxInvAlways, PTL

\* Nobody writes a status for a task that a claim or a recovery of stale scheduling
\* has locked.
THEOREM ClaimsHoldTasks == TxSpec => ClaimHoldsTask
  <1>1. ASSUME TxInv, [TxNext]_txVars
        PROVE  [\A c \in Open : tx'[c].tasks = tx[c].tasks => \A t \in RowLocks(c) : status'[t] = status[t]]_txVars
    <2> SUFFICES ASSUME NEW c \in Open, tx'[c].tasks = tx[c].tasks, NEW t \in RowLocks(c), TxNext
                 PROVE  status'[t] = status[t]
      BY SMTT(30), <1>1
    <2>1. /\ c \in Client /\ tx[c] \in TxRecord /\ tx[c].method \in RowMethods /\ t \in tx[c].tasks
          /\ t \in Task /\ status[t] # "ABSENT"
      BY <1>1, One DEF Open, RowLocks, TxRecord, Holds
    <2>2. CASE UNCHANGED status
      BY <2>2
    <2>3. CASE \E u \in Task : insertTask(u)
      BY <1>1, <2>1, <2>3 DEF insertTask, Submit, TxInv, StoreTypeOK
    <2>4. ASSUME NEW d \in Client, commit(d) PROVE status'[t] = status[t]
      <3>1. CASE d = c
        BY ZenonT(30), <2>1, <2>4, <3>1, NoTxFits DEF commit, Ends
      <3>2. CASE d # c
        <4>1. t \notin tx[d].tasks
          BY <1>1, <2>1, <3>2, One DEF Apart, Rows
        <4> QED BY SMTT(30), <2>1, <2>4, <4>1 DEF commit, WrittenLatest
      <3> QED BY <3>1, <3>2
    <2>5. CASE \E u \in Task : LeaseExpires(u)
      BY <2>2, <2>5 DEF LeaseExpires
    <2>6. CASE \E d \in Scheduler : BeginScheduler(d)
      BY Zenon, <2>2, <2>6 DEF BeginScheduler, Begin, storeVars
    <2>7. CASE \E d \in Worker : BeginReport(d) \/ renewLease(d)
      BY Zenon, <2>2, <2>7 DEF BeginReport, Begin, renewLease, RenewLease, storeVars
    <2>8. CASE \E d \in Client : TxStep(d) /\ ~commit(d)
      BY ZenonT(30), <2>2, <2>8 DEF TxStep, Proceed, checkLeaseOwner, checkStatus, insertStatus, changeLease, countFailed,
                        selectLeases, snapshot, lockRow, Rollback, storeVars
    <2> QED BY <2>3, <2>4, <2>5, <2>6, <2>7, <2>8 DEF TxNext
  <1> QED BY <1>1, TxInvAlways, PTL DEF TxSpec, ClaimHoldsTask

-----------------------------------------------------------------------------
(* The life cycle: what a transaction has checked is still so when it        *)
(* commits, and what it writes is the latest or changes nothing.             *)

\* The tasks a transaction is about, of its record: Touched(c) = Mine(tx[c]).
Mine(r) == r.todo \cup r.tasks

\* The server reports for the worker that called it; schedulers call the rest.
Caller(c, r) ==
    /\ r.method \in Reports => c \in Worker /\ r.worker = c
    /\ c \in Worker => r.method \in Reports \cup {"none"}

\* Two transactions that would disturb each other are about different tasks.
Alone(c, d, r, s) ==
    {c, d} \subseteq Scheduler \/ Conflict(r.method, s.method) => Mine(r) \cap Mine(s) = {}

\* What the statements already executed have found is still so: the owner of the
\* lease, the latest status, and for a claim or a stale task the snapshot.
Checked(c, r, t, st, f, l) ==
    /\ r.method = "ClaimQueued" => st[t] \in {"QUEUED", "WORKER_LOST"} /\ f[t] < MaxRetries[t]
    /\ r.method = "RecoverStaleScheduling" => st[t] = "SCHEDULING"
    /\ r.method \in Reports /\ r.pc # "owner" => l[t] = c
    /\ r.method \in Singles /\ r.pc \notin {"owner", "status"} => st[t] \in Allowed(r.method)

\* A younger transaction has committed a status for the task only if this one is a
\* claim or the like, whose row then has no effect, or will be refused: a report by
\* the owner of the lease or by the latest status, a call for a task that has just
\* been inserted by its status.
Superseded(c, r, t, st, l) ==
    t \in r.late =>
        \/ r.method \in RowMethods
        \/ r.method \in Reports /\ r.pc = "owner" /\ l[t] # c
        \/ r.method \in Reports /\ r.pc \in {"owner", "status"} /\ st[t] \notin Active
        \/ r.method \in {"MarkAssigned", "MarkWorkerLost"} /\ r.pc = "status" /\ st[t] = "QUEUED"

\* The status that will be written and the leases that will be replaced.
Prepared(r, f, l) ==
    /\ r.pc = "select" => Mine(r) = {}
    /\ r.pc = "owner" => r.method \in Reports
    /\ r.pc = "count" => r.method = "MarkFailed"
    /\ r.method # "MarkFailed" \/ r.pc # "commit" => r.last = "QUEUED"
    /\ r.method = "MarkFailed" /\ r.pc = "commit" =>
          \A t \in r.tasks : r.last = IF f[t] + 1 < MaxRetries[t] THEN "QUEUED" ELSE "FAILED"
    /\ r.method = "MarkRunning" => r.leases = {} /\ r.pc # "lease"
    /\ r.method \in {"MarkAssigned", "MarkCompleted", "MarkFailed"} /\ r.pc \in {"count", "commit"} =>
          r.leases = r.tasks
    /\ r.method = "MarkWorkerLost" /\ r.pc = "commit" =>
          \A t \in r.tasks : r.leases = IF l[t] = r.worker THEN {t} ELSE {}

Kept(c, r, st, f, l) ==
    /\ Caller(c, r) /\ Prepared(r, f, l)
    /\ \A t \in Mine(r) : Checked(c, r, t, st, f, l) /\ Superseded(c, r, t, st, l)

Undisturbed ==
    /\ StoreInv
    /\ \A c \in Client : Kept(c, tx[c], status, failed, lease)
    /\ \A c, d \in Client : c # d => Alone(c, d, tx[c], tx[d])

LifeInv == disturbed = {} => Undisturbed

\* The step is one of the life cycle, and nothing is disturbed after it.
Keeps == Undisturbed' /\ (Lifecycle!Next \/ UNCHANGED Lifecycle!lifecycleVars)

-----------------------------------------------------------------------------
(* The kinds of steps.                                                      *)

LEMMA AloneSymmetric == \A c, d, r, s : Alone(c, d, r, s) <=> Alone(d, c, s, r)
  BY DEF Alone, Conflict

LEMMA StoreStays ==
  ASSUME StoreInv, UNCHANGED storeVars
  PROVE  /\ StoreInv' /\ UNCHANGED Lifecycle!lifecycleVars
         /\ status' = status /\ failed' = failed /\ lease' = lease
  <1>1. StoreInv'
    BY StoreNextSound
  <1>2. status' = status /\ failed' = failed /\ lease' = lease
    BY DEF storeVars
  <1>3. UNCHANGED Lifecycle!lifecycleVars
    BY SMTT(30), <1>2 DEF Lifecycle!lifecycleVars
  <1> QED BY <1>1, <1>2, <1>3

\* A transaction takes its next statement, or begins.
LEMMA StatementKeeps ==
  ASSUME TxInv, Undisturbed, NEW c \in Client, NEW s, tx' = [tx EXCEPT ![c] = s], UNCHANGED storeVars,
         Kept(c, s, status, failed, lease), \A d \in Client \ {c} : Alone(c, d, s, tx[d])
  PROVE  Keeps
  <1>1. tx'[c] = s /\ \A d \in Client \ {c} : tx'[d] = tx[d]
    BY SMTT(30) DEF TxInv, TxsTyped
  <1>2. /\ StoreInv' /\ UNCHANGED Lifecycle!lifecycleVars
        /\ status' = status /\ failed' = failed /\ lease' = lease
    BY StoreStays DEF Undisturbed
  <1>3. \A d \in Client : Kept(d, tx'[d], status', failed', lease')
    BY SMTT(30), <1>1, <1>2 DEF Undisturbed
  <1>4. \A d, e \in Client : d # e => Alone(d, e, tx'[d], tx'[e])
    BY <1>1, AloneSymmetric DEF Undisturbed
  <1> QED BY <1>2, <1>3, <1>4 DEF Undisturbed, Keeps

\* What the end of another transaction leaves of the checks of d at task t.
Unharmed(d, t, W) ==
    \/ t \notin W /\ status'[t] = status[t] /\ failed'[t] = failed[t] /\ lease'[t] = lease[t]
    \/ /\ tx[d].method \in Reports /\ tx[d].pc \in {"owner", "status"}
       /\ \/ tx[d].pc = "owner" /\ lease'[t] # d
          \/ status'[t] \notin Active /\ lease'[t] = lease[t]

\* A transaction ends, by a commit or not.
LEMMA EndsKeeps ==
  ASSUME TxInv, Undisturbed, NEW c \in Client, NEW W \in SUBSET Task, Ends(c, W), StoreInv',
         \A d \in Client \ {c} : \A t \in Mine(tx[d]) : Unharmed(d, t, W)
  PROVE  Undisturbed'
  <1>1. tx'[c] = NoTx
    BY Zenon DEF Ends
  <1>2. ASSUME NEW d \in Client \ {c}
        PROVE  /\ Same(tx'[d], tx[d]) /\ Mine(tx'[d]) = Mine(tx[d]) /\ tx'[d].last = tx[d].last
               /\ tx'[d].late = IF d \in tx[c].older THEN tx[d].late \cup W ELSE tx[d].late
    <2> DEFINE o == tx[d].older \ {c}
               l == IF d \in tx[c].older THEN tx[d].late \cup W ELSE tx[d].late
    <2>1. tx'[d] = [tx[d] EXCEPT !.older = o, !.late = l] /\ tx[d] \in TxRecord
      BY Zenon, One DEF Ends
    <2> HIDE DEF o, l
    <2>2. Same(tx'[d], tx[d]) /\ tx'[d].last = tx[d].last /\ tx'[d].late = l
      BY <2>1 DEF TxRecord, Same
    <2> QED BY <2>2 DEF Same, Mine, l
  <1>3. ASSUME NEW d \in Client \ {c} PROVE Kept(d, tx'[d], status', failed', lease')
    <2> DEFINE r == tx[d]
               s == tx'[d]
    <2>1. Kept(d, r, status, failed, lease) /\ Same(s, r) /\ Mine(s) = Mine(r) /\ s.last = r.last
      BY Zenon, <1>2 DEF Undisturbed
    <2>2. \A t \in Mine(r) : t \in s.late => t \in r.late \/ t \in W
      BY Zenon, <1>2
    <2>3. \A t \in Mine(r) : Unharmed(d, t, W)
      OBVIOUS
    <2> HIDE DEF s
    <2>4. Caller(d, s)
      BY <2>1 DEF Kept, Caller, Same
    <2>5. ASSUME NEW t \in r.tasks, r.pc \in {"count", "commit"}
          PROVE  failed'[t] = failed[t] /\ lease'[t] = lease[t]
      BY SMTT(30), <2>3, <2>5 DEF Unharmed, Mine
    <2>6. Prepared(s, failed', lease')
      <3>1. Prepared(r, failed, lease)
        BY <2>1 DEF Kept
      <3>2. \A t \in r.tasks : r.pc = "commit" => failed'[t] = failed[t] /\ lease'[t] = lease[t]
        BY SMTT(30), <2>5
      <3> HIDE DEF r
      <3> QED BY SMTT(30), <2>1, <3>1, <3>2 DEF Prepared, Same
    <2>7. ASSUME NEW t \in Mine(r)
          PROVE  Checked(d, s, t, status', failed', lease') /\ Superseded(d, s, t, status', lease')
      <3>1. Checked(d, r, t, status, failed, lease) /\ Superseded(d, r, t, status, lease) /\ Unharmed(d, t, W)
        BY <2>1, <2>3 DEF Kept
      <3>2. "ClaimQueued" \notin Reports /\ "RecoverStaleScheduling" \notin Reports
        BY DEF Reports
      <3>3. CASE t \notin W /\ status'[t] = status[t] /\ failed'[t] = failed[t] /\ lease'[t] = lease[t]
        <4>1. Checked(d, s, t, status', failed', lease')
          BY <2>1, <3>1, <3>3 DEF Checked, Same
        <4>2. Superseded(d, s, t, status', lease')
          BY ZenonT(30), <2>1, <2>2, <3>1, <3>3 DEF Superseded, Same
        <4> QED BY SMTT(30), <4>1, <4>2
      <3>4. CASE r.method \in Reports /\ r.pc = "owner" /\ lease'[t] # d
        <4>1. Checked(d, s, t, status', failed', lease')
          BY ZenonT(30), <2>1, <3>2, <3>4 DEF Checked, Same
        <4>2. Superseded(d, s, t, status', lease')
          BY ZenonT(30), <2>1, <3>4 DEF Superseded, Same
        <4> QED BY <4>1, <4>2
      <3>5. CASE /\ r.method \in Reports /\ r.pc \in {"owner", "status"}
                 /\ status'[t] \notin Active /\ lease'[t] = lease[t]
        <4>1. Checked(d, s, t, status', failed', lease')
          BY ZenonT(30), <2>1, <3>1, <3>2, <3>5 DEF Checked, Same
        <4>2. Superseded(d, s, t, status', lease')
          BY Zenon, <2>1, <3>5 DEF Superseded, Same
        <4> QED BY <4>1, <4>2
      <3> QED BY Zenon, <3>1, <3>3, <3>4, <3>5 DEF Unharmed
    <2> QED BY Zenon, <2>1, <2>4, <2>6, <2>7 DEF Kept, s
  <1>4. Kept(c, NoTx, status', failed', lease') /\ Mine(NoTx) = {}
    <2>1. NoTx.method = "none" /\ NoTx.pc = "none" /\ NoTx.todo = {} /\ NoTx.tasks = {} /\ NoTx.last = "QUEUED"
      BY DEF NoTx
    <2>2. "none" \notin Reports /\ "none" \notin Recoveries
      BY DEF Reports, Recoveries
    <2>3. Mine(NoTx) = {}
      BY SMTT(30), <2>1 DEF Mine
    <2>4. Caller(c, NoTx) /\ Prepared(NoTx, failed', lease')
      BY <2>1, <2>2, <2>3 DEF Caller, Prepared
    <2> QED BY <2>3, <2>4 DEF Kept
  <1>5. ASSUME NEW d \in Client, NEW e \in Client, d # e PROVE Alone(d, e, tx'[d], tx'[e])
    <2>1. CASE d = c \/ e = c
      BY <1>1, <1>4, <2>1 DEF Alone
    <2>2. CASE d # c /\ e # c
      <3>1. Alone(d, e, tx[d], tx[e])
        BY <1>5 DEF Undisturbed
      <3>2. Mine(tx'[d]) = Mine(tx[d]) /\ tx'[d].method = tx[d].method
        BY Zenon, <1>2, <2>2 DEF Same
      <3>3. Mine(tx'[e]) = Mine(tx[e]) /\ tx'[e].method = tx[e].method
        BY Zenon, <1>2, <2>2 DEF Same
      <3> QED BY <3>1, <3>2, <3>3 DEF Alone
    <2> QED BY <2>1, <2>2
  <1>6. \A d \in Client : Kept(d, tx'[d], status', failed', lease')
    BY <1>1, <1>3, <1>4
  <1> QED BY <1>5, <1>6 DEF Undisturbed

\* A refused or rolled back transaction has changed nothing.
LEMMA RollbackKeeps ==
  ASSUME TxInv, Undisturbed, NEW c \in Client, Ends(c, {}), UNCHANGED storeVars
  PROVE  Keeps
  <1>1. /\ StoreInv' /\ UNCHANGED Lifecycle!lifecycleVars
        /\ status' = status /\ failed' = failed /\ lease' = lease
    BY StoreStays DEF Undisturbed
  <1>2. \A d \in Client \ {c} : \A t \in Mine(tx[d]) : Unharmed(d, t, {})
    BY <1>1 DEF Unharmed
  <1> QED BY <1>1, <1>2, EndsKeeps DEF Keeps

\* A statement that takes up no other task.
LEMMA ProceedKeeps ==
  ASSUME TxInv, Undisturbed, NEW c \in Client, NEW ok, NEW s, Proceed(c, ok, s),
         ok => Kept(c, s, status, failed, lease) /\ Mine(s) \subseteq Mine(tx[c]) /\ s.method = tx[c].method
  PROVE  Keeps
  <1>1. CASE ok
    <2>1. tx' = [tx EXCEPT ![c] = s] /\ UNCHANGED storeVars
      BY <1>1 DEF Proceed
    <2>2. \A d \in Client \ {c} : Alone(c, d, s, tx[d])
      BY <1>1 DEF Undisturbed, Alone
    <2> QED BY Zenon, <1>1, <2>1, <2>2, StatementKeeps
  <1>2. CASE ~ok
    BY <1>2, RollbackKeeps DEF Proceed
  <1> QED BY <1>1, <1>2

-----------------------------------------------------------------------------
(* The statements.                                                          *)

\* A method on one task is about that task before and after its insert.
LEMMA SingleTask ==
  ASSUME TxInv, NEW c \in Client, tx[c].method \in Singles
  PROVE  /\ TaskOf(c) \in Task /\ Mine(tx[c]) = {TaskOf(c)} /\ tx[c].worker \in Worker
         /\ tx[c].pc \in {"lease", "count", "commit"} => tx[c].tasks = {TaskOf(c)} /\ tx[c].leases \subseteq {TaskOf(c)}
  <1>1. ShapeSingle(tx[c])
    BY One DEF Shape
  <1>2. PICK t \in Task : Touched(c) = {t}
    BY <1>1 DEF ShapeSingle, Touched
  <1>3. TaskOf(c) = t
    BY <1>2 DEF TaskOf
  <1>4. Mine(tx[c]) = {t}
    BY <1>2 DEF Mine, Touched
  <1>5. tx[c].worker \in Worker
    BY <1>1 DEF ShapeSingle
  <1>6. tx[c].pc \in {"lease", "count", "commit"} => tx[c].tasks = {t} /\ tx[c].leases \subseteq {t}
    BY <1>1, <1>4 DEF ShapeSingle, Mine
  <1> QED BY <1>3, <1>4, <1>5, <1>6

\* What is known of the transaction of c and the task it is about.
LEMMA KeptSingle ==
  ASSUME TxInv, Undisturbed, NEW c \in Client, tx[c].method \in Singles
  PROVE  /\ Caller(c, tx[c]) /\ Prepared(tx[c], failed, lease)
         /\ Checked(c, tx[c], TaskOf(c), status, failed, lease) /\ Superseded(c, tx[c], TaskOf(c), status, lease)
  <1>1. Kept(c, tx[c], status, failed, lease)
    BY DEF Undisturbed
  <1>2. TaskOf(c) \in Mine(tx[c])
    BY SingleTask
  <1> QED BY <1>1, <1>2 DEF Kept

LEMMA ReportsCheck ==
  /\ \A m \in Reports : m \in Singles /\ Allowed(m) \subseteq Active /\ m \notin Recoveries
  /\ \A m \in Singles : m \notin Recoveries /\ m # "ClaimQueued" /\ m # "RecoverStaleScheduling"
  /\ Allowed("MarkAssigned") = {"SCHEDULING"} /\ Allowed("MarkWorkerLost") = Active
  /\ Allowed("MarkCompleted") = {"RUNNING"} /\ Allowed("MarkRunning") = Active /\ Allowed("MarkFailed") = Active
  /\ "MarkAssigned" \notin Reports /\ "MarkWorkerLost" \notin Reports
  /\ \A m \in Singles : m \notin RowMethods
  BY DEF RowMethods, Reports, Singles, Recoveries, Allowed, Active

LEMMA checkKeeps ==
  ASSUME TxInv, Undisturbed, NEW c \in Client, checkLeaseOwner(c) \/ checkStatus(c)
  PROVE  Keeps
  <1> DEFINE r == tx[c]
             t == TaskOf(c)
  <1>1. r \in TxRecord /\ r.method \in Singles
    BY SMTT(30), One, SingleAt DEF checkLeaseOwner, checkStatus, At
  <1>2. /\ Mine(r) = {t} /\ Caller(c, r) /\ Prepared(r, failed, lease)
        /\ Checked(c, r, t, status, failed, lease) /\ Superseded(c, r, t, status, lease)
    BY <1>1, SingleTask, KeptSingle
  <1>3. ASSUME NEW pc \in {"status", "insert"}, r.pc \in {"owner", "status"},
               r.method \in Reports => lease[t] = c,
               pc = "insert" => status[t] \in Allowed(r.method),
               LET s == [r EXCEPT !.pc = pc] IN Proceed(c, TRUE, s)
        PROVE  Keeps
    <2> DEFINE s == [r EXCEPT !.pc = pc]
    <2>1. /\ s.pc = pc /\ s.method = r.method /\ s.worker = r.worker /\ s.last = r.last /\ s.late = r.late
          /\ s.todo = r.todo /\ s.tasks = r.tasks /\ s.leases = r.leases
      BY <1>1 DEF TxRecord
    <2>2. Proceed(c, TRUE, s)
      BY ZenonT(30), <1>3
    <2> HIDE DEF r, s, t
    <2>3. Mine(s) = {t}
      BY Zenon, <1>2, <2>1 DEF Mine
    <2>4. Caller(c, s)
      BY <1>2, <2>1 DEF Caller
    <2>5. r.method \notin Recoveries
      BY <1>1, ReportsCheck
    <2>6. Prepared(s, failed, lease)
      BY <1>2, <1>3, <2>1, <2>5 DEF Prepared
    <2>7. Checked(c, s, t, status, failed, lease)
      BY <1>2, <1>3, <2>1 DEF Checked
    <2>8. Superseded(c, s, t, status, lease)
      <3>1. "QUEUED" \notin Active
        BY DEF Active
      <3> QED BY <1>1, <1>2, <1>3, <2>1, <3>1, ReportsCheck DEF Superseded
    <2>9. Kept(c, s, status, failed, lease)
      BY <2>3, <2>4, <2>6, <2>7, <2>8 DEF Kept
    <2> QED BY Zenon, <1>2, <2>1, <2>2, <2>3, <2>9, ProceedKeeps DEF r
  <1>4. CASE checkLeaseOwner(c)
    <2>1. r.pc = "owner" /\ Proceed(c, lease[t] = r.worker, [r EXCEPT !.pc = "status"])
      BY <1>4 DEF checkLeaseOwner, At
    <2>2. CASE lease[t] = r.worker
      <3>1. r.method \in Reports => lease[t] = c
        BY <1>2, <2>2 DEF Caller
      <3>2. Proceed(c, TRUE, [r EXCEPT !.pc = "status"])
        BY <2>1, <2>2 DEF Proceed
      <3> QED BY ZenonT(30), <1>3, <2>1, <3>1, <3>2
    <2>3. CASE lease[t] # r.worker
      BY <2>1, <2>3, RollbackKeeps DEF Proceed
    <2> QED BY <2>2, <2>3
  <1>5. CASE checkStatus(c)
    <2>1. r.pc = "status" /\ Proceed(c, status[t] \in Allowed(r.method), [r EXCEPT !.pc = "insert"])
      BY <1>5 DEF checkStatus, At
    <2>2. CASE status[t] \in Allowed(r.method)
      <3>1. r.method \in Reports => lease[t] = c
        BY <1>2, <2>1 DEF Checked
      <3>2. Proceed(c, TRUE, [r EXCEPT !.pc = "insert"])
        BY <2>1, <2>2 DEF Proceed
      <3> QED BY Zenon, <1>3, <2>1, <2>2, <3>1, <3>2
    <2>3. CASE status[t] \notin Allowed(r.method)
      BY <2>1, <2>3, RollbackKeeps DEF Proceed
    <2> QED BY <2>2, <2>3
  <1> QED BY <1>4, <1>5

\* A statement after the checks.
LEMMA PastChecks ==
  ASSUME NEW c, NEW r, NEW s, s.method = r.method, s.worker = r.worker, s.late = r.late, Mine(s) \subseteq Mine(r),
         r.pc \notin {"owner", "status"}, s.pc \notin {"owner", "status"},
         Kept(c, r, status, failed, lease), Prepared(s, failed, lease)
  PROVE  Kept(c, s, status, failed, lease)
  <1>1. Caller(c, s)
    BY DEF Kept, Caller
  <1>2. ASSUME NEW t \in Mine(s) PROVE Checked(c, s, t, status, failed, lease) /\ Superseded(c, s, t, status, lease)
    <2>1. Checked(c, r, t, status, failed, lease) /\ Superseded(c, r, t, status, lease)
      BY DEF Kept
    <2>2. Checked(c, s, t, status, failed, lease)
      BY SMTT(30), <2>1 DEF Checked
    <2>3. Superseded(c, s, t, status, lease)
      BY <2>1 DEF Superseded
    <2> QED BY <2>2, <2>3
  <1> QED BY <1>1, <1>2 DEF Kept

LEMMA insertKeeps ==
  ASSUME TxInv, Undisturbed, NEW c \in Client, insertStatus(c)
  PROVE  Keeps
  <1> DEFINE r == tx[c]
  <1>1. /\ r \in TxRecord /\ Shape(r) /\ r.pc = "insert" /\ Kept(c, r, status, failed, lease)
    BY One DEF insertStatus, At, Undisturbed
  <1>2. PICK t \in r.todo :
           Proceed(c, TRUE, [r EXCEPT !.todo = @ \ {t}, !.tasks = @ \cup {t}, !.pc = AfterInsert(c, t)])
    BY ZenonT(30) DEF insertStatus
  <1> DEFINE pc == AfterInsert(c, t)
             s == [r EXCEPT !.todo = r.todo \ {t}, !.tasks = r.tasks \cup {t}, !.pc = pc]
  <1>3. r.method \in Recoveries \/ r.method \in Singles
    BY <1>1, Disjoint DEF TxRecord, Shape, ShapeNone, ShapeRows
  <1>4. /\ r.method \in Recoveries => pc = IF r.todo = {t} THEN "commit" ELSE "insert"
        /\ r.method = "MarkRunning" => pc = "commit"
        /\ r.method \in Singles \ {"MarkRunning"} => pc = "lease"
    BY SMTT(30), ReportsCheck DEF AfterInsert, Reports
  <1>5. r.method \in Singles => r.leases = {}
    BY <1>1 DEF Shape, ShapeSingle
  <1>6. Proceed(c, TRUE, s)
    BY Zenon, <1>2
  <1> HIDE DEF pc
  <1>7. /\ s.pc = pc /\ s.method = r.method /\ s.worker = r.worker /\ s.last = r.last /\ s.late = r.late
        /\ s.todo = r.todo \ {t} /\ s.tasks = r.tasks \cup {t} /\ s.leases = r.leases
    BY <1>1 DEF TxRecord
  <1> HIDE DEF s, r
  <1>8. Mine(s) = Mine(r)
    BY SMTT(30), <1>2, <1>7 DEF Mine
  <1>9. Prepared(r, failed, lease)
    BY SMTT(30), <1>1 DEF Kept
  <1>10. Prepared(s, failed, lease)
    <2>1. CASE r.method \in Recoveries
      <3>1. r.method \notin Singles /\ r.method \notin {"MarkFailed", "MarkRunning", "MarkAssigned", "MarkCompleted", "MarkWorkerLost"}
        BY SMTT(30), <2>1 DEF Recoveries, Singles, Reports
      <3> QED BY Zenon, <1>1, <1>4, <1>7, <1>9, <2>1, <3>1 DEF Prepared
    <2>2. CASE r.method = "MarkRunning"
      <3>1. r.method \notin Recoveries /\ r.method \in Singles
        BY SMTT(30), <2>2 DEF Recoveries, Singles, Reports
      <3> QED BY Zenon, <1>1, <1>4, <1>5, <1>7, <1>9, <2>2, <3>1 DEF Prepared
    <2>3. CASE r.method \in Singles \ {"MarkRunning"}
      <3>1. r.method \notin Recoveries
        BY <2>3, ReportsCheck
      <3> QED BY Zenon, <1>1, <1>4, <1>7, <1>9, <2>3, <3>1 DEF Prepared
    <2> QED BY SMTT(30), <1>3, <2>1, <2>2, <2>3
  <1>11. s.pc \notin {"owner", "status"}
    BY <1>3, <1>4, <1>7
  <1>12. Kept(c, s, status, failed, lease)
    BY Zenon, <1>1, <1>7, <1>8, <1>10, <1>11, PastChecks
  <1> QED BY Zenon, <1>6, <1>7, <1>8, <1>12, ProceedKeeps DEF r

LEMMA leaseKeeps ==
  ASSUME TxInv, Undisturbed, NEW c \in Client, changeLease(c)
  PROVE  Keeps
  <1> DEFINE r == tx[c]
             t == TaskOf(c)
             ls == IF ChangesLease(c) THEN r.tasks ELSE {}
             pc == IF r.method = "MarkFailed" THEN "count" ELSE "commit"
             s == [r EXCEPT !.leases = ls, !.pc = pc]
  <1>1. r \in TxRecord /\ r.method \in Singles /\ r.pc = "lease"
    BY One, SingleAt DEF changeLease, At
  <1>2. /\ Caller(c, r) /\ Prepared(r, failed, lease) /\ Checked(c, r, t, status, failed, lease)
        /\ Kept(c, r, status, failed, lease) /\ Mine(r) = {t} /\ r.tasks = {t}
    BY Zenon, <1>1, SingleTask, KeptSingle DEF Undisturbed
  <1>3. Proceed(c, TRUE, s)
    BY ZenonT(30) DEF changeLease
  <1>4. ls = IF r.method = "MarkAssigned" \/ lease[t] = r.worker THEN {t} ELSE {}
    BY <1>2 DEF ChangesLease
  <1> HIDE DEF ls
  <1>5. /\ s.pc = pc /\ s.method = r.method /\ s.worker = r.worker /\ s.last = r.last /\ s.late = r.late
        /\ s.todo = r.todo /\ s.tasks = r.tasks /\ s.leases = ls
    BY SMTT(30), <1>1 DEF TxRecord
  <1> HIDE DEF r, s, t
  <1>6. r.method \in Reports => lease[t] = r.worker
    BY SMTT(30), <1>1, <1>2 DEF Caller, Checked
  <1>7. Mine(s) = Mine(r) /\ r.method \notin Recoveries
    BY <1>1, <1>5, ReportsCheck DEF Mine
  <1>8. Prepared(s, failed, lease)
    BY Zenon, <1>1, <1>2, <1>4, <1>5, <1>6, <1>7 DEF Prepared, Reports
  <1>9. Kept(c, s, status, failed, lease)
    BY Zenon, <1>1, <1>2, <1>5, <1>7, <1>8, PastChecks
  <1> QED BY Zenon, <1>3, <1>5, <1>7, <1>9, ProceedKeeps DEF r

LEMMA countKeeps ==
  ASSUME TxInv, Undisturbed, NEW c \in Client, countFailed(c)
  PROVE  Keeps
  <1> DEFINE r == tx[c]
             t == TaskOf(c)
             last == IF failed[t] + 1 < MaxRetries[t] THEN "QUEUED" ELSE "FAILED"
             s == [r EXCEPT !.pc = "commit", !.last = last]
  <1>1. r \in TxRecord /\ r.method \in Singles /\ r.pc = "count"
    BY One, SingleAt DEF countFailed, At
  <1>2. Kept(c, r, status, failed, lease) /\ Prepared(r, failed, lease) /\ r.tasks = {t}
    BY Zenon, <1>1, SingleTask, KeptSingle DEF Undisturbed
  <1>3. Proceed(c, TRUE, s)
    BY Zenon DEF countFailed
  <1>4. /\ s.pc = "commit" /\ s.method = r.method /\ s.worker = r.worker /\ s.last = last /\ s.late = r.late
        /\ s.todo = r.todo /\ s.tasks = r.tasks /\ s.leases = r.leases
    BY <1>1 DEF TxRecord
  <1> HIDE DEF r, s, t
  <1>5. Mine(s) = Mine(r) /\ r.method = "MarkFailed" /\ "MarkFailed" \notin Recoveries
    BY ZenonT(30), <1>1, <1>2, <1>4 DEF Mine, Prepared, Recoveries
  <1>6. Prepared(s, failed, lease)
    BY Zenon, <1>1, <1>2, <1>4, <1>5 DEF Prepared
  <1>7. Kept(c, s, status, failed, lease)
    BY ZenonT(30), <1>1, <1>2, <1>4, <1>5, <1>6, PastChecks
  <1> QED BY Zenon, <1>3, <1>4, <1>5, <1>7, ProceedKeeps DEF r

\* The tasks a transaction takes up, when it meets nobody on them.
LEMMA MeetsNobody ==
  ASSUME TxInv, NEW c \in Client, NEW m, NEW S, Meets(c, m, S) = {}, NEW s, s.method = m, Mine(s) = S
  PROVE  /\ m \in Recoveries => \A t \in S : t \notin tx[c].late
         /\ \A d \in Client \ {c} : Alone(c, d, s, tx[d])
  <1>1. m \in Recoveries => \A t \in S : t \notin tx[c].late
    BY DEF Meets
  <1>2. ASSUME NEW d \in Client \ {c} PROVE Alone(c, d, s, tx[d])
    <2>1. CASE tx[d].method = "none"
      <3>1. Mine(tx[d]) = {}
        BY <2>1, One DEF Shape, ShapeNone, Mine
      <3> QED BY SMTT(30), <3>1 DEF Alone
    <2>2. CASE tx[d].method # "none"
      <3>1. d \in Others(c)
        BY SMTT(30), <2>2 DEF Others, Open
      <3>2. \A t \in S \cap Mine(tx[d]) : ~(Conflict(m, tx[d].method) \/ {c, d} \subseteq Scheduler)
        BY <3>1 DEF Meets, Touched, Mine
      <3> QED BY <3>2 DEF Alone
    <2> QED BY <2>1, <2>2
  <1> QED BY <1>1, <1>2

LEMMA selectKeeps ==
  ASSUME TxInv, Undisturbed, NEW c \in Client, selectLeases(c), disturbed' = {}
  PROVE  Keeps
  <1> DEFINE r == tx[c]
  <1>1. /\ r \in TxRecord /\ Shape(r) /\ r.pc = "select" /\ r.method \in Recoveries /\ UNCHANGED storeVars
        /\ Kept(c, r, status, failed, lease)
    BY Zenon, One DEF selectLeases, At, Undisturbed
  <1>2. PICK rows, lost :
           /\ tx' = [tx EXCEPT ![c] = LockedLeases(c, rows, lost)]
           /\ disturbed' = disturbed \cup Meets(c, r.method, lost)
    BY Zenon, SelectedRows
  <1> DEFINE s == LockedLeases(c, rows, lost)
  <1>3. tx' = [tx EXCEPT ![c] = s] /\ Meets(c, r.method, lost) = {}
    BY <1>2
  <1>4. /\ s.pc = "insert" /\ s.method = r.method /\ s.worker = r.worker /\ s.last = r.last /\ s.late = r.late
        /\ s.todo = lost /\ s.tasks = r.tasks /\ s.leases = rows
    BY SMTT(30), <1>1 DEF LockedLeases, TxRecord
  <1> HIDE DEF s
  <1>5. Mine(s) = lost
    BY <1>1, <1>4 DEF Shape, ShapeRecovery, Mine
  <1>6. (\A t \in lost : t \notin r.late) /\ \A d \in Client \ {c} : Alone(c, d, s, tx[d])
    <2>1. /\ r.method \in Recoveries => \A t \in lost : t \notin tx[c].late
          /\ \A d \in Client \ {c} : Alone(c, d, s, tx[d])
      BY Zenon, <1>3, <1>4, <1>5, MeetsNobody
    <2> QED BY Zenon, <1>1, <2>1
  <1>7. /\ r.method \notin Reports /\ r.method \notin Singles
        /\ r.method \notin {"ClaimQueued", "RecoverStaleScheduling", "MarkFailed", "MarkRunning", "MarkAssigned",
                            "MarkCompleted", "MarkWorkerLost"}
    BY SMTT(30), <1>1 DEF Recoveries, Singles, Reports
  <1> HIDE DEF r
  <1>8. Caller(c, s) /\ Prepared(r, failed, lease)
    BY <1>1, <1>4 DEF Kept, Caller
  <1>9. Prepared(s, failed, lease)
    BY Zenon, <1>1, <1>4, <1>7, <1>8 DEF Prepared
  <1>10. \A t \in Mine(s) : Checked(c, s, t, status, failed, lease) /\ Superseded(c, s, t, status, lease)
    BY Zenon, <1>4, <1>5, <1>6, <1>7 DEF Checked, Superseded
  <1>11. Kept(c, s, status, failed, lease)
    BY <1>8, <1>9, <1>10 DEF Kept
  <1> QED BY Zenon, <1>1, <1>3, <1>6, <1>11, StatementKeeps

LEMMA snapshotKeeps ==
  ASSUME TxInv, Undisturbed, NEW c \in Client, snapshot(c), disturbed' = {}
  PROVE  Keeps
  <1> DEFINE r == tx[c]
             rows == IF r.method = "ClaimQueued" THEN Claimable ELSE StaleScheduling
             s == [r EXCEPT !.todo = rows, !.pc = "lock"]
  <1>1. /\ r \in TxRecord /\ Shape(r) /\ r.pc = "select" /\ r.method \in RowMethods /\ UNCHANGED storeVars
        /\ Kept(c, r, status, failed, lease)
    BY One DEF snapshot, At, Undisturbed
  <1>2. /\ disturbed' = disturbed \cup Meets(c, r.method, rows)
        /\ IF rows # {} THEN tx' = [tx EXCEPT ![c].todo = rows, ![c].pc = "lock"] ELSE Ends(c, {})
    BY DEF snapshot
  <1>3. /\ r.method = "ClaimQueued" =>
              \A t \in rows : status[t] \in {"QUEUED", "WORKER_LOST"} /\ failed[t] < MaxRetries[t]
        /\ r.method = "RecoverStaleScheduling" => \A t \in rows : status[t] = "SCHEDULING"
    BY DEF Claimable, StaleScheduling
  <1> HIDE DEF rows
  <1>4. CASE rows = {}
    BY <1>1, <1>2, <1>4, RollbackKeeps
  <1>5. CASE rows # {}
    <2>1. tx' = [tx EXCEPT ![c] = s] /\ Meets(c, r.method, rows) = {}
      BY Zenon, <1>2, <1>5 DEF TxInv, TxsTyped
    <2>2. /\ s.pc = "lock" /\ s.method = r.method /\ s.worker = r.worker /\ s.last = r.last /\ s.late = r.late
          /\ s.todo = rows /\ s.tasks = r.tasks /\ s.leases = r.leases
      BY SMTT(30), <1>1 DEF TxRecord
    <2> HIDE DEF s
    <2>3. Prepared(r, failed, lease) /\ Caller(c, r)
      BY <1>1 DEF Kept
    <2>4. Mine(s) = rows
      BY ZenonT(30), <1>1, <2>2, <2>3 DEF Prepared, Mine
    <2>5. \A d \in Client \ {c} : Alone(c, d, s, tx[d])
      BY <2>1, <2>2, <2>4, MeetsNobody
    <2>6. /\ r.method \notin Reports /\ r.method \notin Singles /\ r.method \notin Recoveries
          /\ r.method \notin {"MarkFailed", "MarkRunning", "MarkAssigned", "MarkCompleted", "MarkWorkerLost"}
      BY Zenon, <1>1 DEF RowMethods, Recoveries, Singles, Reports
    <2> HIDE DEF r
    <2>7. Caller(c, s) /\ Prepared(s, failed, lease)
      BY Zenon, <1>1, <2>2, <2>3, <2>6 DEF Prepared, Caller
    <2>8. \A t \in Mine(s) : Checked(c, s, t, status, failed, lease) /\ Superseded(c, s, t, status, lease)
      BY Zenon, <1>1, <1>3, <2>2, <2>4, <2>6 DEF Checked, Superseded
    <2>9. Kept(c, s, status, failed, lease)
      BY SMTT(30), <2>7, <2>8 DEF Kept
    <2> QED BY Zenon, <1>1, <2>1, <2>5, <2>9, StatementKeeps
  <1> QED BY <1>4, <1>5

LEMMA lockKeeps ==
  ASSUME TxInv, Undisturbed, NEW c \in Client, lockRow(c)
  PROVE  Keeps
  <1> DEFINE r == tx[c]
  <1>1. r \in TxRecord /\ Shape(r) /\ r.pc = "lock" /\ Kept(c, r, status, failed, lease)
    BY One DEF lockRow, At, Undisturbed
  <1>2. r.method \in RowMethods
    BY Zenon, <1>1, Disjoint DEF TxRecord, Shape, ShapeNone, ShapeRecovery, ShapeSingle
  <1>3. PICK t \in r.todo, tasks \in SUBSET Task, todo \in SUBSET Task, pc \in {"lock", "commit"}, ok \in BOOLEAN :
           /\ tasks = IF \A d \in Others(c) : t \notin RowLocks(d) \cup ShareLocks(d) THEN r.tasks \cup {t} ELSE r.tasks
           /\ todo \subseteq r.todo
           /\ Proceed(c, ok, [r EXCEPT !.tasks = tasks, !.todo = todo, !.pc = pc])
    BY Zenon, LockedRow
  <1> DEFINE s == [r EXCEPT !.tasks = tasks, !.todo = todo, !.pc = pc]
  <1>4. /\ s.pc = pc /\ s.method = r.method /\ s.worker = r.worker /\ s.last = r.last /\ s.late = r.late
        /\ s.todo = todo /\ s.tasks = tasks /\ s.leases = r.leases
    BY <1>1 DEF TxRecord
  <1>5. Proceed(c, ok, s)
    BY <1>3
  <1> HIDE DEF s, r
  <1>6. Mine(s) \subseteq Mine(r)
    BY <1>3, <1>4 DEF Mine
  <1>7. r.method \notin Recoveries /\ r.method \notin {"MarkFailed", "MarkRunning", "MarkAssigned", "MarkCompleted", "MarkWorkerLost"}
    BY <1>2 DEF RowMethods, Recoveries
  <1>8. Prepared(r, failed, lease)
    BY <1>1 DEF Kept
  <1>9. Prepared(s, failed, lease)
    BY <1>3, <1>4, <1>7, <1>8 DEF Prepared
  <1>10. Kept(c, s, status, failed, lease)
    BY Zenon, <1>1, <1>3, <1>4, <1>6, <1>9, PastChecks
  <1> QED BY <1>4, <1>5, <1>6, <1>10, ProceedKeeps DEF r

-----------------------------------------------------------------------------
(* The beginning of a transaction, and what happens outside of one.         *)

LEMMA beginKeeps ==
  ASSUME TxInv, Undisturbed, NEW c \in Client, NEW m \in Methods, NEW pc, NEW w, NEW S \in SUBSET Task,
         Begin(c, m, pc, w, S), disturbed' = {},
         \/ c \in Scheduler /\ m \in RowMethods \cup Recoveries /\ pc = "select" /\ S = {}
         \/ c \in Scheduler /\ m \in {"MarkAssigned", "MarkWorkerLost"} /\ pc = "status"
         \/ c \in Worker /\ m \in Reports /\ pc = "owner" /\ w = c
  PROVE  Keeps
  <1> DEFINE due == IF m = "RecoverExpiredLeases" THEN expired ELSE {}
             s == [NoTx EXCEPT !.method = m, !.pc = pc, !.worker = w, !.todo = S, !.due = due, !.older = Open]
  <1>1. tx' = [tx EXCEPT ![c] = s] /\ UNCHANGED storeVars /\ Meets(c, m, S) = {}
    BY DEF Begin
  <1>2. /\ s.pc = pc /\ s.method = m /\ s.worker = w /\ s.last = "QUEUED" /\ s.late = {}
        /\ s.todo = S /\ s.tasks = {} /\ s.leases = {}
    BY DEF NoTx
  <1> HIDE DEF s
  <1>3. Mine(s) = S
    BY SMTT(30), <1>2 DEF Mine
  <1>4. \A d \in Client \ {c} : Alone(c, d, s, tx[d])
    BY SMTT(30), <1>1, <1>2, <1>3, MeetsNobody
  <1>5. Caller(c, s)
    BY <1>2, ClientAssumption DEF Caller, RowMethods, Recoveries, Reports
  <1>6. Prepared(s, failed, lease)
    <2>1. pc \in {"select", "status", "owner"} /\ (pc = "select" => S = {})
      BY SMTT(30)
    <2> QED BY Zenon, <1>2, <1>3, <2>1 DEF Prepared
  <1>7. ASSUME NEW t \in Mine(s) PROVE Checked(c, s, t, status, failed, lease) /\ Superseded(c, s, t, status, lease)
    <2>1. pc \in {"status", "owner"} /\ (m \in Reports => pc = "owner") /\ m \in Singles
      BY <1>3 DEF Reports, Singles
    <2> QED BY Zenon, <1>2, <2>1, ReportsCheck DEF Checked, Superseded
  <1>8. Kept(c, s, status, failed, lease)
    BY <1>5, <1>6, <1>7 DEF Kept
  <1> QED BY Zenon, <1>1, <1>4, <1>8, StatementKeeps

LEMMA schedulerKeeps ==
  ASSUME TxInv, Undisturbed, NEW c \in Scheduler, BeginScheduler(c), disturbed' = {}
  PROVE  Keeps
  <1>0. c \in Client /\ ClientsTyped
    BY DEF Client, TxInv
  <1>1. ASSUME NEW m \in RowMethods \cup Recoveries, Begin(c, m, "select", NoWorker, {}) PROVE Keeps
    BY <1>0, <1>1, beginKeeps, Disjoint
  <1>2. ASSUME NEW t \in duty[c], NEW w \in Worker, Begin(c, "MarkAssigned", "status", w, {t}) PROVE Keeps
    <2>1. {t} \in SUBSET Task /\ "MarkAssigned" \in Methods
      BY <1>0 DEF ClientsTyped, Methods
    <2> QED BY <1>0, <1>2, <2>1, beginKeeps
  <1>3. ASSUME NEW a \in sent[c], Begin(c, "MarkWorkerLost", "status", a[2], {a[1]}) PROVE Keeps
    <2>1. {a[1]} \in SUBSET Task /\ "MarkWorkerLost" \in Methods
      BY <1>0 DEF ClientsTyped, Methods
    <2> QED BY <1>0, <1>3, <2>1, beginKeeps
  <1> QED BY Zenon, <1>1, <1>2, <1>3 DEF BeginScheduler

LEMMA reportKeeps ==
  ASSUME TxInv, Undisturbed, NEW c \in Worker, BeginReport(c), disturbed' = {}
  PROVE  Keeps
  <1>0. c \in Client /\ ClientsTyped
    BY DEF Client, TxInv
  <1>1. PICK m \in Reports, t \in duty[c] : Begin(c, m, "owner", c, {t})
    BY Zenon DEF BeginReport
  <1>2. {t} \in SUBSET Task /\ m \in Methods
    BY <1>0 DEF ClientsTyped, Methods
  <1> QED BY <1>0, <1>1, <1>2, beginKeeps

\* Nothing a transaction has checked concerns the time of expiry.
LEMMA storeStepKeeps ==
  ASSUME TxInv, Undisturbed, tx' = tx, NEW t \in Task,
         LeaseExpires(t) \/ \E w \in Worker : RenewLease(t, w)
  PROVE  Keeps
  <1>1. StoreInv
    BY DEF Undisturbed
  <1>2. StoreNext
    BY DEF StoreNext
  <1>3. StoreInv' /\ (Lifecycle!Next \/ UNCHANGED Lifecycle!lifecycleVars)
    BY <1>1, <1>2, StoreNextSound, LifecycleNext
  <1>4. failed' = failed /\ lease' = lease /\ status' = status
    BY SMTT(30) DEF LeaseExpires, RenewLease
  <1> QED BY <1>3, <1>4 DEF Undisturbed, Keeps

\* Nothing a transaction has checked concerns an absent task.
LEMMA insertTaskKeeps ==
  ASSUME TxInv, Undisturbed, NEW t \in Task, insertTask(t)
  PROVE  Keeps
  <1>1. StoreInv /\ StoreTypeOK /\ Submit(t)
    BY DEF Undisturbed, StoreInv, insertTask
  <1>2. StoreNext
    BY <1>1 DEF StoreNext
  <1>3. StoreInv' /\ (Lifecycle!Next \/ UNCHANGED Lifecycle!lifecycleVars)
    BY <1>1, <1>2, StoreNextSound, LifecycleNext
  <1>4. /\ failed' = failed /\ lease' = lease /\ status[t] = "ABSENT" /\ status'[t] = "QUEUED"
        /\ \A u \in Task : u # t => status'[u] = status[u]
    BY <1>1 DEF StoreTypeOK, Submit
  <1>5. lease[t] = NoWorker
    BY <1>1, <1>4, StoreInvByTask DEF Sound
  <1>6. ASSUME NEW c \in Client PROVE Kept(c, tx'[c], status', failed', lease')
    <2> DEFINE r == tx[c]
               s == tx'[c]
    <2>1. /\ r \in TxRecord /\ Shape(r) /\ Holds(r, status, lease, expired) /\ Kept(c, r, status, failed, lease)
          /\ Same(s, r) /\ s.last = r.last /\ (s.late = r.late \/ s.late = r.late \cup {t})
      BY Zenon, One, insertTaskTx DEF Undisturbed
    <2> HIDE DEF r, s
    <2>2. Mine(s) = Mine(r) /\ Caller(c, s) /\ Prepared(s, failed', lease')
      <3>1. Mine(s) = Mine(r)
        BY ZenonT(30), <2>1 DEF Mine, Same
      <3>2. Caller(c, s)
        BY SMTT(30), <2>1 DEF Kept, Caller, Same
      <3>3. Prepared(r, failed, lease)
        BY Zenon, <2>1 DEF Kept
      <3>4. Prepared(s, failed', lease')
        BY ZenonT(30), <1>4, <2>1, <3>1, <3>3 DEF Prepared, Same
      <3> QED BY SMTT(30), <3>1, <3>2, <3>4
    <2>3. ASSUME NEW u \in Mine(r) PROVE Checked(c, s, u, status', failed', lease') /\ Superseded(c, s, u, status', lease')
      <3>1. u \in Task
        BY SMTT(30), <2>1 DEF Mine, TxRecord
      <3>2. Checked(c, r, u, status, failed, lease) /\ Superseded(c, r, u, status, lease)
        BY Zenon, <2>1 DEF Kept
      <3>3. CASE u # t
        <4>1. status'[u] = status[u] /\ (u \in s.late => u \in r.late)
          BY <1>4, <2>1, <3>1, <3>3
        <4>2. Checked(c, s, u, status', failed', lease')
          BY Zenon, <1>4, <2>1, <3>2, <4>1 DEF Checked, Same
        <4>3. Superseded(c, s, u, status', lease')
          BY ZenonT(30), <1>4, <2>1, <3>2, <4>1 DEF Superseded, Same
        <4> QED BY <4>2, <4>3
      <3>4. CASE u = t
        <4>1. r.method \notin RowMethods
          BY <1>4, <2>1, <3>4 DEF Holds, Mine
        <4>2. r.method \notin Recoveries
          <5>1. CASE r.method \in Recoveries
            <6>1. u \in r.leases
              BY ZenonT(30), <2>1, <5>1 DEF Shape, ShapeRecovery, Mine
            <6> QED BY SMTT(30), <1>5, <2>1, <3>4, <5>1, <6>1 DEF Holds
          <5> QED BY SMTT(30), <5>1
        <4>3. r.method # "none"
          BY ZenonT(30), <2>1 DEF Shape, ShapeNone, Mine
        <4>4. r.method \in Singles
          BY Zenon, <2>1, <4>1, <4>2, <4>3, Disjoint DEF TxRecord
        <4>5. "ABSENT" \notin Allowed(r.method)
          BY SMTT(30), <4>4, ReportsCheck DEF Singles, Reports, Active
        <4>6. r.pc \in {"owner", "status"}
          BY SMTT(30), <1>4, <3>2, <3>4, <4>4, <4>5 DEF Checked
        <4>7. r.method \notin Reports => r.method \in {"MarkAssigned", "MarkWorkerLost"} /\ r.pc = "status"
          BY Zenon, <2>1, <4>4, <4>6 DEF Singles, Kept, Prepared
        <4>8. Checked(c, s, u, status', failed', lease')
          BY Zenon, <1>4, <2>1, <3>2, <4>4, <4>6, ReportsCheck DEF Checked, Same
        <4>9. Superseded(c, s, u, status', lease')
          BY ZenonT(30), <1>4, <2>1, <3>4, <4>6, <4>7 DEF Superseded, Same, Active
        <4> QED BY <4>8, <4>9
      <3> QED BY <3>3, <3>4
    <2> QED BY SMTT(30), <2>2, <2>3 DEF Kept, s
  <1>7. ASSUME NEW c \in Client, NEW d \in Client, c # d PROVE Alone(c, d, tx'[c], tx'[d])
    <2>1. Alone(c, d, tx[c], tx[d]) /\ Same(tx'[c], tx[c]) /\ Same(tx'[d], tx[d])
      BY Zenon, <1>7, insertTaskTx DEF Undisturbed
    <2> QED BY SMTT(30), <2>1 DEF Alone, Same, Mine
  <1> QED BY Zenon, <1>3, <1>6, <1>7 DEF Undisturbed, Keeps

-----------------------------------------------------------------------------
(* The commit.                                                              *)

\* All the rows of an undisturbed transaction are the latest of their tasks, except
\* for those of a claim or the like.
LEMMA CommitWrites ==
  ASSUME TxInv, Undisturbed, NEW c \in Client, commit(c)
  PROVE  LET r == tx[c]
         IN  /\ r \in TxRecord /\ r.pc = "commit" /\ r.method # "none" /\ Kept(c, r, status, failed, lease)
             /\ Ends(c, r.tasks)
             /\ WrittenLatest(c) \subseteq r.tasks /\ (r.method \notin RowMethods => WrittenLatest(c) = r.tasks)
             /\ ChangedLeases(c) \subseteq r.tasks
             /\ r.method \in Singles => ChangedLeases(c) = r.leases
             /\ r.method \in Recoveries => ChangedLeases(c) = r.tasks
             /\ r.method \in RowMethods => ChangedLeases(c) = {}
             /\ status' = [t \in Task |-> IF t \in WrittenLatest(c) THEN LastStatus(c) ELSE status[t]]
             /\ failed' = [t \in Task |-> IF r.method = "MarkFailed" /\ t \in r.tasks THEN failed[t] + 1 ELSE failed[t]]
             /\ lease' = [t \in Task |-> IF t \notin ChangedLeases(c) THEN lease[t]
                                         ELSE IF r.method = "MarkAssigned" THEN r.worker ELSE NoWorker]
             /\ expired' = expired \ ChangedLeases(c)
  <1> DEFINE r == tx[c]
  <1>1. r \in TxRecord /\ Shape(r) /\ r.pc = "commit" /\ Kept(c, r, status, failed, lease)
    BY ZenonT(30), One DEF commit, At, Undisturbed
  <1>2. r.method \notin RowMethods => \A t \in r.tasks : t \notin r.late
    BY <1>1 DEF Kept, Superseded, Mine
  <1>3. WrittenLatest(c) \subseteq r.tasks /\ (r.method \notin RowMethods => WrittenLatest(c) = r.tasks)
    BY <1>2 DEF WrittenLatest
  <1>4. r.method # "none"
    BY SMTT(30), <1>1 DEF Shape, ShapeNone
  <1>5. ChangedLeases(c) \subseteq r.tasks
    BY SMTT(30) DEF ChangedLeases
  <1>6. r.method \in RowMethods => ChangedLeases(c) = {}
    BY <1>1 DEF Shape, ShapeRows, ChangedLeases
  <1>7. r.method \in Recoveries => ChangedLeases(c) = r.tasks
    <2>1. r.method \in Recoveries => r.tasks \subseteq r.leases
      BY <1>1 DEF Shape, ShapeRecovery
    <2> QED BY <2>1 DEF ChangedLeases
  <1>8. r.method \in Singles => ChangedLeases(c) = r.leases
    <2>1. r.method \in Singles => r.leases \subseteq r.tasks
      BY <1>1 DEF Shape, ShapeSingle
    <2> QED BY SMTT(30), <2>1 DEF ChangedLeases
  <1> QED BY Zenon, <1>1, <1>3, <1>4, <1>5, <1>6, <1>7, <1>8 DEF commit, ReplacedLeases

\* Of the transactions that overlap with a commit on a task, only reports are left,
\* and those have not got past the check that will refuse them.
LEMMA CommitHarmless ==
  ASSUME TxInv, Undisturbed, NEW c \in Client, commit(c), NEW d \in Client \ {c}, NEW t \in Mine(tx[d])
  PROVE  Unharmed(d, t, tx[c].tasks)
  <1> DEFINE r == tx[c]
             q == tx[d]
             W == WrittenLatest(c)
             L == ChangedLeases(c)
  <1>1. /\ r \in TxRecord /\ r.pc = "commit" /\ r.method # "none" /\ Kept(c, r, status, failed, lease)
        /\ W \subseteq r.tasks /\ L \subseteq r.tasks /\ (r.method \in RowMethods => L = {})
    BY Zenon, CommitWrites
  <1>2. q \in TxRecord /\ Kept(d, q, status, failed, lease) /\ Alone(c, d, r, q) /\ t \in Task
    BY Zenon, One DEF Undisturbed, TxRecord, Mine
  <1>3. /\ status'[t] = IF t \in W THEN LastStatus(c) ELSE status[t]
        /\ lease'[t] = IF t \notin L THEN lease[t] ELSE IF r.method = "MarkAssigned" THEN r.worker ELSE NoWorker
        /\ t \notin r.tasks => failed'[t] = failed[t]
    <2> DEFINE x == LastStatus(c)
    <2>1. /\ status' = [u \in Task |-> IF u \in W THEN x ELSE status[u]]
          /\ failed' = [u \in Task |-> IF r.method = "MarkFailed" /\ u \in r.tasks THEN failed[u] + 1 ELSE failed[u]]
          /\ lease' = [u \in Task |-> IF u \notin L THEN lease[u]
                                      ELSE IF r.method = "MarkAssigned" THEN r.worker ELSE NoWorker]
      BY ZenonT(30), CommitWrites
    <2> HIDE DEF r, q, x, W, L
    <2> QED BY Zenon, <1>2, <2>1 DEF x
  <1> HIDE DEF W, L
  <1>4. CASE t \notin r.tasks
    BY Zenon, <1>1, <1>3, <1>4 DEF Unharmed
  <1>5. CASE t \in r.tasks
    <2>1. /\ Caller(c, r) /\ Caller(d, q) /\ Prepared(r, failed, lease)
          /\ Checked(c, r, t, status, failed, lease) /\ Checked(d, q, t, status, failed, lease)
      BY Zenon, <1>1, <1>2, <1>5 DEF Kept, Mine
    <2>2. q.method # "none"
      BY ZenonT(30), One DEF Shape, ShapeNone, Mine
    <2>3. ~({c, d} \subseteq Scheduler) /\ ~Conflict(r.method, q.method)
      BY SMTT(30), <1>2, <1>5 DEF Alone, Mine
    <2>4. q.method \in Methods /\ r.method \in Methods
      BY ZenonT(30), <1>1, <1>2, <2>2 DEF TxRecord
    <2> HIDE DEF r, q
    <2>5. (r.method \notin Reports => c \in Scheduler) /\ (q.method \notin Reports => d \in Scheduler)
      BY ZenonT(30), <1>1, <2>1, <2>2 DEF Caller, Client
    <2>6. CASE r.method \in Reports
      <3>1. lease[t] = c /\ status[t] \in Active /\ c \in Worker
        BY Zenon, <1>1, <2>1, <2>6, ReportsCheck DEF Checked, Caller
      <3>2. q.method \in Reports
        <4>1. q.method \notin Recoveries \cup {"MarkAssigned", "MarkWorkerLost"}
          BY SMTT(30), <2>3, <2>6 DEF Conflict
        <4>2. q.method # "ClaimQueued" /\ q.method # "RecoverStaleScheduling"
          BY <2>1, <3>1 DEF Checked, Active
        <4> QED BY <2>4, <4>1, <4>2 DEF Methods, RowMethods
      <3>3. q.pc = "owner" /\ d \in Worker
        BY Zenon, <2>1, <3>1, <3>2 DEF Checked, Caller
      <3>4. lease'[t] # d
        BY ZenonT(30), <1>3, <2>6, <3>1, <3>3, ReportsCheck, TaskAssumption
      <3> QED BY <3>2, <3>3, <3>4 DEF Unharmed, q
    <2>7. CASE r.method \in RowMethods
      <3>1. r.method \notin Reports /\ r.method # "MarkFailed" /\ r.method \in {"ClaimQueued", "RecoverStaleScheduling"}
        BY <2>7 DEF RowMethods, Reports
      <3>2. q.method \in Reports
        BY Zenon, <2>3, <2>5, <3>1
      <3>3. status[t] \notin Active
        BY Zenon, <2>1, <3>1 DEF Checked, Active
      <3>4. q.pc \in {"owner", "status"}
        BY Zenon, <2>1, <3>2, <3>3, ReportsCheck DEF Checked
      <3>5. LastStatus(c) \notin Active
        BY SMTT(30), <2>1, <3>1 DEF LastStatus, Prepared, Active, r
      <3>6. lease'[t] = lease[t] /\ status'[t] \notin Active
        BY Zenon, <1>1, <1>3, <2>7, <3>3, <3>5
      <3> QED BY <3>2, <3>4, <3>6 DEF Unharmed, q
    <2>8. CASE r.method \in Recoveries \cup {"MarkAssigned", "MarkWorkerLost"}
      <3>1. r.method \notin Reports
        BY <2>8 DEF Recoveries, Reports
      <3>2. q.method \in Reports
        BY <2>3, <2>5, <3>1
      <3> QED BY <2>3, <2>8, <3>2 DEF Conflict
    <2> QED BY <2>4, <2>6, <2>7, <2>8 DEF Methods
  <1> QED BY SMTT(30), <1>4, <1>5

\* A commit of a method on one task is that method of module TaskStore.
LEMMA SingleCommit ==
  ASSUME TxInv, Undisturbed, NEW c \in Client, commit(c), tx[c].method \in Singles
  PROVE  StoreNext
  <1> DEFINE r == tx[c]
             t == TaskOf(c)
             w == tx[c].worker
  <1>1. /\ r.pc = "commit" /\ r.tasks = {t} /\ t \in Task /\ w \in Worker
        /\ Caller(c, r) /\ Prepared(r, failed, lease) /\ Checked(c, r, t, status, failed, lease)
    BY Zenon, CommitWrites, SingleTask, KeptSingle
  <1>2. status \in [Task -> States \cup {"ABSENT"}] /\ failed \in [Task -> Nat] /\ lease \in [Task -> Worker \cup {NoWorker}]
    BY DEF TxInv, StoreTypeOK
  <1> DEFINE x == LastStatus(c)
  <1>3. /\ status' = [u \in Task |-> IF u \in r.tasks THEN x ELSE status[u]]
         /\ failed' = [u \in Task |-> IF r.method = "MarkFailed" /\ u \in r.tasks THEN failed[u] + 1 ELSE failed[u]]
         /\ lease' = [u \in Task |-> IF u \notin r.leases THEN lease[u]
                                     ELSE IF r.method = "MarkAssigned" THEN w ELSE NoWorker]
         /\ expired' = expired \ r.leases
    <2>1. WrittenLatest(c) = r.tasks /\ ChangedLeases(c) = r.leases
      BY Zenon, CommitWrites, ReportsCheck
    <2> QED BY Zenon, <2>1 DEF commit, ReplacedLeases
  <1> HIDE DEF r, t, w, x
  <1>4. /\ status' = [status EXCEPT ![t] = x]
        /\ failed' = IF r.method = "MarkFailed" THEN [failed EXCEPT ![t] = failed[t] + 1] ELSE failed
    BY Zenon, <1>1, <1>2, <1>3
  <1>5. /\ r.leases = {} => lease' = lease
        /\ r.leases = {t} => lease' = [lease EXCEPT ![t] = IF r.method = "MarkAssigned" THEN w ELSE NoWorker]
    BY ZenonT(30), <1>1, <1>2, <1>3
  <1>6. /\ status[t] \in Allowed(r.method)
        /\ r.method \in Reports => lease[t] = w
    BY <1>1 DEF Checked, Caller, r, w
  <1>7. /\ r.method = "MarkAssigned" => x = "ASSIGNED"
        /\ r.method = "MarkRunning" => x = "RUNNING"
        /\ r.method = "MarkCompleted" => x = "COMPLETED"
        /\ r.method = "MarkFailed" => x = r.last
        /\ r.method = "MarkWorkerLost" => x = r.last
    BY DEF LastStatus, x, r
  <1>8. /\ r.method \in {"MarkAssigned", "MarkCompleted", "MarkFailed"} => r.leases = {t}
        /\ r.method = "MarkRunning" => r.leases = {}
        /\ r.method = "MarkFailed" => r.last = IF failed[t] + 1 < MaxRetries[t] THEN "QUEUED" ELSE "FAILED"
        /\ r.method = "MarkWorkerLost" => r.last = "QUEUED" /\ r.leases = IF lease[t] = w THEN {t} ELSE {}
    BY Zenon, <1>1 DEF Prepared, r, w
  <1>9. CASE r.method = "MarkAssigned"
    <2>1. MarkAssigned(t, w)
      BY Zenon, <1>4, <1>5, <1>6, <1>7, <1>8, <1>3, <1>9, ReportsCheck DEF MarkAssigned, MarkAssignedOK
    <2> QED BY Zenon, <1>1, <2>1 DEF StoreNext
  <1>10. CASE r.method = "MarkRunning"
    <2>1. "MarkRunning" \in Reports
      BY DEF Reports
    <2>2. MarkRunning(t, w)
      BY ZenonT(30), <1>4, <1>5, <1>6, <1>7, <1>8, <1>3, <1>10, <2>1, ReportsCheck DEF MarkRunning, MarkRunningOK, OwnedIn
    <2> QED BY Zenon, <1>1, <2>2 DEF StoreNext
  <1>11. CASE r.method = "MarkCompleted"
    <2>1. "MarkCompleted" \in Reports
      BY DEF Reports
    <2>2. MarkCompleted(t, w)
      BY ZenonT(30), <1>4, <1>5, <1>6, <1>7, <1>8, <1>3, <1>11, <2>1, ReportsCheck DEF MarkCompleted, MarkCompletedOK, OwnedIn, DeleteLease
    <2> QED BY Zenon, <1>1, <2>2 DEF StoreNext
  <1>12. CASE r.method = "MarkFailed"
    <2>1. "MarkFailed" \in Reports
      BY DEF Reports
    <2>2. MarkFailed(t, w)
      BY ZenonT(30), <1>4, <1>5, <1>6, <1>7, <1>8, <1>3, <1>12, <2>1, ReportsCheck DEF MarkFailed, MarkFailedOK, OwnedIn, DeleteLease
    <2> QED BY Zenon, <1>1, <2>2 DEF StoreNext
  <1>13. CASE r.method = "MarkWorkerLost"
    <2>1. MarkWorkerLost(t, w)
      BY ZenonT(30), <1>4, <1>5, <1>6, <1>7, <1>8, <1>3, <1>13, ReportsCheck DEF MarkWorkerLost, MarkWorkerLostOK, DeleteLease
    <2> QED BY Zenon, <1>1, <2>1 DEF StoreNext
  <1> QED BY <1>9, <1>10, <1>11, <1>12, <1>13 DEF Singles, Reports, r

\* A claim moves claimable tasks to SCHEDULING, a recovery of stale ones back.
LEMMA RowCommit ==
  ASSUME TxInv, Undisturbed, NEW c \in Client, commit(c), tx[c].method \in RowMethods
  PROVE  StoreInv' /\ UNCHANGED Lifecycle!lifecycleVars
  <1> DEFINE r == tx[c]
             x == LastStatus(c)
             W == WrittenLatest(c)
  <1>1. StoreInv /\ StoreTypeOK
    BY SMTT(30) DEF Undisturbed, StoreInv
  <1>2. /\ r \in TxRecord /\ r.pc = "commit" /\ Kept(c, r, status, failed, lease)
        /\ status' = [t \in Task |-> IF t \in W THEN x ELSE status[t]] /\ W \subseteq r.tasks
    BY Zenon, CommitWrites
  <1>3. ChangedLeases(c) = {} /\ r.method # "MarkFailed"
    BY Zenon, CommitWrites DEF RowMethods
  <1>4. failed' = failed /\ lease' = lease /\ expired' = expired
    BY Zenon, <1>1, <1>3, CommitWrites DEF StoreTypeOK
  <1>5. x \in {"SCHEDULING", "QUEUED"} /\ (r.method = "RecoverStaleScheduling" => x = "QUEUED")
    BY <1>2, <1>3 DEF LastStatus, Kept, Prepared, RowMethods
  <1>6. \A t \in W : Checked(c, r, t, status, failed, lease)
    BY ZenonT(30), <1>2 DEF Kept, Mine
  <1> HIDE DEF r, x, W
  <1>7. ASSUME NEW t \in Task
        PROVE  /\ Sound(status'[t], failed'[t], lease'[t], MaxRetries[t])
               /\ LifePhase(status'[t]) = LifePhase(status[t])
               /\ LifeHolder(status'[t], lease'[t]) = LifeHolder(status[t], lease[t])
    <2>1. Sound(status[t], failed[t], lease[t], MaxRetries[t])
      BY <1>1, AboutTask
    <2>2. CASE t \notin W
      BY ZenonT(30), <1>2, <1>4, <2>1, <2>2
    <2>3. CASE t \in W
      <3>1. status'[t] = x
        BY SMTT(30), <1>2, <2>3
      <3>2. /\ status[t] \in {"QUEUED", "WORKER_LOST", "SCHEDULING"}
            /\ x = "SCHEDULING" => failed[t] < MaxRetries[t]
        BY SMTT(30), <1>5, <1>6, <2>3 DEF Checked, RowMethods, r
      <3>3. Sound(x, failed[t], lease[t], MaxRetries[t])
        BY <1>5, <2>1, <3>2 DEF Sound, Active, Terminal
      <3>4. status[t] \notin Active /\ x \notin Active
        BY <1>5, <3>2 DEF Active
      <3>5. LifePhase(x) = "pending" /\ LifePhase(status[t]) = "pending"
        BY <1>5, <3>2, LifePhases
      <3> QED BY SMTT(30), <1>4, <3>1, <3>3, <3>4, <3>5, LifePhases
    <2> QED BY <2>2, <2>3
  <1>8. StoreTypeOK'
    BY ZenonT(30), <1>1, <1>2, <1>4, <1>5 DEF StoreTypeOK, States
  <1> QED BY <1>4, <1>7, <1>8, SoundAfter, LifecycleStutter

LEMMA commitKeeps ==
  ASSUME TxInv, Undisturbed, NEW c \in Client, commit(c)
  PROVE  Keeps
  <1> DEFINE r == tx[c]
  <1>1. /\ r \in TxRecord /\ r.pc = "commit" /\ r.method # "none" /\ Ends(c, r.tasks)
        /\ Kept(c, r, status, failed, lease)
    BY ZenonT(30), CommitWrites
  <1>2. StoreInv' /\ (Lifecycle!Next \/ UNCHANGED Lifecycle!lifecycleVars)
    <2>0. StoreInv
      BY DEF Undisturbed
    <2>1. CASE r.method \in Singles
      BY Zenon, <2>0, <2>1, SingleCommit, StoreNextSound, LifecycleNext
    <2>2. CASE r.method \in RowMethods
      BY SMTT(30), <2>2, RowCommit
    <2>3. CASE r.method \in Recoveries
      <3>1. r.tasks \subseteq r.leases /\ r.tasks \in SUBSET Task /\ WrittenLatest(c) = r.tasks /\ ChangedLeases(c) = r.tasks
        <4>1. ShapeRecovery(r)
          BY ZenonT(30), One DEF Shape
        <4>2. r.tasks \subseteq r.leases
          BY Zenon, <1>1, <2>3, <4>1 DEF ShapeRecovery
        <4>3. WrittenLatest(c) = r.tasks /\ ChangedLeases(c) = r.tasks
          BY Zenon, <2>3, CommitWrites, Disjoint
        <4> QED BY Zenon, <1>1, <4>2, <4>3 DEF TxRecord
      <3>2. \A t \in r.tasks : lease[t] # NoWorker
        BY <2>3, <3>1, One DEF Holds
      <3>3. LastStatus(c) = "QUEUED" /\ r.method # "MarkFailed" /\ r.method # "MarkAssigned"
        BY SMTT(30), <1>1, <2>3 DEF LastStatus, Kept, Prepared, Recoveries
      <3>4. Requeue(r.tasks)
        <4>1. /\ status' = [t \in Task |-> IF t \in r.tasks THEN "QUEUED" ELSE status[t]]
              /\ expired' = expired \ r.tasks
          BY Zenon, <3>1, <3>3 DEF commit, ReplacedLeases
        <4>2. failed' = failed
          <5>1. failed' = [t \in Task |-> failed[t]] /\ failed \in [Task -> Nat]
            BY Zenon, <3>3 DEF commit, TxInv, StoreTypeOK
          <5> QED BY Zenon, <5>1
        <4>3. lease' = [t \in Task |-> IF t \in r.tasks THEN NoWorker ELSE lease[t]]
          BY Zenon, <3>1, <3>3 DEF commit
        <4> QED BY SMTT(30), <4>1, <4>2, <4>3 DEF Requeue
      <3> QED BY SMTT(30), <2>0, <3>1, <3>2, <3>4, RequeueSound, RequeueLoses
    <2> QED BY Zenon, <1>1, <2>1, <2>2, <2>3, Disjoint DEF TxRecord
  <1>3. \A d \in Client \ {c} : \A t \in Mine(tx[d]) : Unharmed(d, t, r.tasks)
    BY SMTT(30), CommitHarmless
  <1>4. r.tasks \in SUBSET Task
    BY <1>1 DEF TxRecord
  <1> QED BY <1>1, <1>2, <1>3, <1>4, EndsKeeps DEF Keeps

-----------------------------------------------------------------------------
(* The theorem.                                                             *)

LEMMA LifeInvInit == TxInit => LifeInv
  <1> SUFFICES ASSUME TxInit PROVE Undisturbed
    BY DEF LifeInv
  <1>1. StoreInv
    BY StoreInitSound DEF TxInit
  <1>2. /\ NoTx.method = "none" /\ NoTx.pc = "none" /\ Mine(NoTx) = {} /\ NoTx.last = "QUEUED"
    BY DEF NoTx, Mine
  <1>3. \A c \in Client : tx[c] = NoTx
    BY SMTT(30) DEF TxInit
  <1>4. ASSUME NEW c \in Client PROVE Kept(c, NoTx, status, failed, lease)
    BY <1>2 DEF Kept, Caller, Prepared, Reports, Recoveries
  <1>5. \A c, d \in Client : Alone(c, d, NoTx, NoTx)
    BY <1>2 DEF Alone
  <1> QED BY <1>1, <1>3, <1>4, <1>5 DEF Undisturbed

\* A step after which nothing is disturbed keeps what the transactions rely on.
LEMMA LifeStep ==
  ASSUME TxInv, LifeInv, TxNext, disturbed' = {}
  PROVE  Keeps
  <1>1. disturbed = {}
    <2>1. \A c, m, pc, w, S : Begin(c, m, pc, w, S) => disturbed \subseteq disturbed'
      BY DEF Begin
    <2>2. \A c, ok, s : Proceed(c, ok, s) => disturbed' = disturbed
      BY Zenon DEF Proceed
    <2>3. \A c : BeginScheduler(c) \/ BeginReport(c) => disturbed \subseteq disturbed'
      BY Zenon, <2>1 DEF BeginScheduler, BeginReport
    <2>4. \A c : checkLeaseOwner(c) \/ checkStatus(c) \/ insertStatus(c) \/ changeLease(c) => disturbed' = disturbed
      BY Zenon, <2>2 DEF checkLeaseOwner, checkStatus, insertStatus, changeLease
    <2>5. \A c : countFailed(c) \/ lockRow(c) => disturbed' = disturbed
      <3>1. \A c : countFailed(c) => disturbed' = disturbed
        BY Zenon DEF countFailed, Proceed
      <3>2. \A c : lockRow(c) => disturbed' = disturbed
        BY Zenon DEF lockRow, Proceed
      <3> QED BY Zenon, <3>1, <3>2
    <2>6. \A c : selectLeases(c) \/ snapshot(c) => disturbed \subseteq disturbed'
      BY Zenon DEF selectLeases, snapshot
    <2>7. /\ \A c : commit(c) \/ Rollback(c) \/ renewLease(c) => disturbed' = disturbed
          /\ \A t : insertTask(t) => disturbed' = disturbed
      BY Zenon DEF commit, Rollback, renewLease, insertTask
    <2>8. disturbed \subseteq disturbed'
      BY <2>3, <2>4, <2>5, <2>6, <2>7, Zenon DEF TxNext, TxStep
    <2> QED BY <2>8
  <1>2. Undisturbed
    BY <1>1 DEF LifeInv
  <1>3. CASE \E t \in Task : insertTask(t) \/ (LeaseExpires(t) /\ UNCHANGED <<tx, clientVars, disturbed>>)
    BY Zenon, <1>2, <1>3, insertTaskKeeps, storeStepKeeps
  <1>4. CASE \E c \in Scheduler : BeginScheduler(c)
    BY <1>2, <1>4, schedulerKeeps
  <1>5. CASE \E c \in Worker : BeginReport(c)
    BY <1>2, <1>5, reportKeeps
  <1>6. CASE \E c \in Worker : renewLease(c)
    BY <1>2, <1>6, storeStepKeeps DEF renewLease
  <1>7. ASSUME NEW c \in Client, Rollback(c) PROVE Keeps
    BY <1>2, <1>7, RollbackKeeps DEF Rollback
  <1>8. CASE \E c \in Client : TxStep(c)
    BY ZenonT(30), <1>2, <1>7, <1>8, checkKeeps, insertKeeps, leaseKeeps, countKeeps, selectKeeps, snapshotKeeps, lockKeeps, commitKeeps
       DEF TxStep
  <1> QED BY <1>3, <1>4, <1>5, <1>6, <1>8 DEF TxNext

LEMMA LifeInvStep ==
  TxInv /\ LifeInv /\ [TxNext]_txVars => LifeInv' /\ (disturbed' = {} => [Lifecycle!Next]_(Lifecycle!lifecycleVars))
  <1> SUFFICES ASSUME TxInv, LifeInv, [TxNext]_txVars, disturbed' = {}
               PROVE  Undisturbed' /\ (Lifecycle!Next \/ UNCHANGED Lifecycle!lifecycleVars)
    BY DEF LifeInv
  <1>1. CASE TxNext
    BY <1>1, LifeStep DEF Keeps
  <1>2. CASE UNCHANGED txVars
    <2>1. Undisturbed /\ tx' = tx /\ UNCHANGED storeVars
      BY <1>2 DEF LifeInv, txVars
    <2>2. /\ StoreInv' /\ UNCHANGED Lifecycle!lifecycleVars
          /\ status' = status /\ failed' = failed /\ lease' = lease
      BY <2>1, StoreStays DEF Undisturbed
    <2> QED BY <2>1, <2>2 DEF Undisturbed
  <1> QED BY <1>1, <1>2

LEMMA LifeInvAlways == TxSpec => []LifeInv
  BY LifeInvInit, LifeInvStep, TxInvAlways, PTL DEF TxSpec

\* Until conflicting transactions meet on a task, every commit is a step of the life
\* cycle of module TaskLifecycle, however claims, reports, renewals and rollbacks
\* overlap statement by statement (store.go:157-335).
THEOREM UndisturbedKeepsLifecycle == TxSpec => UndisturbedLifecycle
  <1>1. TxInv /\ LifeInv /\ [TxNext]_txVars => [disturbed' = {} => [Lifecycle!Next]_(Lifecycle!lifecycleVars)]_txVars
    BY LifeInvStep
  <1> QED BY <1>1, TxInvAlways, LifeInvAlways, PTL DEF TxSpec, UndisturbedLifecycle

\* What protects a task in the atomic store protects it among overlapping
\* transactions too, until conflicting ones meet on a task: an active task has a
\* lease, a finished one has none, and the retry budget is kept.
THEOREM UndisturbedStoreSound ==
  TxSpec => [](disturbed = {} => ActiveIsLeased /\ TerminalIsUnleased /\ RetryBudget)
  <1>1. LifeInv => (disturbed = {} => ActiveIsLeased /\ TerminalIsUnleased /\ RetryBudget)
    BY DEF LifeInv, Undisturbed, StoreInv
  <1> QED BY <1>1, LifeInvAlways, PTL
=============================================================================
