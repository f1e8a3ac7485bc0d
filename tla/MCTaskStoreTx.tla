--------------------------- MODULE MCTaskStoreTx ---------------------------
(* Instances of TaskStoreTx for TLC: two tasks, and a bounded number of     *)
(* calls from a store in the middle of its work.                            *)
EXTENDS TaskStoreTx, TLC

CONSTANTS
    MaxCalls,    \* bound: transactions that begin
    w1           \* the worker that has the lease of task 2

VARIABLE calls   \* how many have begun

Twice == [t \in Task |-> 2]

Schedulers == Permutations(Scheduler)

\* Task 2 is executed, task 1 as given.
Midway(status1, lease1) ==
    /\ status = [t \in Task |-> IF t = 2 THEN "RUNNING" ELSE status1]
    /\ lease = [t \in Task |-> IF t = 2 THEN w1 ELSE lease1]
    /\ failed = [t \in Task |-> 0]
    /\ expired = {}
    /\ duty = [c \in Client |-> IF c = w1 THEN {t \in Task : lease[t] = w1} ELSE {}]
    /\ sent = [c \in Scheduler |-> {}]
    /\ calls = Cardinality(Open)

\* No transaction is open.
Quiet ==
    /\ tx = [c \in Client |-> NoTx]
    /\ disturbed = {}
    /\ \E status1 \in {"ABSENT", "QUEUED"} : Midway(status1, NoWorker)

\* A claim that began long ago has locked task 1, which another scheduler has claimed
\* and assigned in the meantime.
Overtaken ==
    /\ \E s \in Scheduler :
          /\ Scheduler # {s}
          /\ tx = [c \in Client |-> IF c # s THEN NoTx
                                    ELSE [NoTx EXCEPT !.method = "ClaimQueued", !.pc = "commit",
                                                      !.tasks = {1}, !.late = {1}]]
    /\ disturbed = {1}
    /\ Midway("ASSIGNED", w1)

Begun == {c \in Client \ Open : tx'[c].method # "none"}

BoundedNext == TxNext /\ calls' = calls + Cardinality(Begun) /\ calls' <= MaxCalls

BoundedSpec == (Quiet \/ Overtaken) /\ [][BoundedNext]_<<txVars, calls>>
=============================================================================
