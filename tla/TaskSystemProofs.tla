-------------------------- MODULE TaskSystemProofs --------------------------
(***************************************************************************)
(* Proofs about the schedulers and workers of module TaskSystem, for any   *)
(* nodes, tasks, retry limits and batch size and any number of crashes,    *)
(* handovers and faults.                                                   *)
(***************************************************************************)
EXTENDS TaskSystem, TaskStoreProofs, FiniteSetTheorems, WellFoundedInduction

(***************************************************************************)
(* The order in which a scheduler goes through claimed tasks and free      *)
(* workers: what First, FirstOf and Pick of module Scheduler return.       *)
(* Inductions are written with the least counterexample.                   *)
(***************************************************************************)

LEMMA Least ==
    ASSUME NEW S \in SUBSET Nat, S # {}
    PROVE  \E m \in S : \A k \in S : m <= k
<1>1. PICK m \in S : \A k \in S : ~ (<<k, m>> \in OpToRel(<, Nat))
  BY NatLessThanWellFounded, WFMin
<1>2. \A k \in S : ~(k < m)
  BY Zenon, <1>1 DEF OpToRel
<1> QED
  BY <1>2

LEMMA FirstIsLeast ==
    ASSUME NEW S \in SUBSET Nat, S # {}
    PROVE  First(S) \in S /\ \A u \in S : First(S) <= u
BY Zenon, Least DEF First

-----------------------------------------------------------------------------
(* The position of a member in the sorted list.                             *)

Below(S, t) == {u \in S : u < t}

Rank(S, t) == Cardinality(Below(S, t))

LEMMA RankTyped ==
    ASSUME NEW S \in SUBSET Nat, IsFiniteSet(S), NEW t \in Nat
    PROVE  IsFiniteSet(Below(S, t)) /\ Rank(S, t) \in Nat
<1>1. Below(S, t) \subseteq S
  BY DEF Below
<1> QED
  BY <1>1, FS_Subset, FS_CardinalityType DEF Rank

LEMMA RankBelowSize ==
    ASSUME NEW S \in SUBSET Nat, IsFiniteSet(S), NEW t \in S
    PROVE  Rank(S, t) < Cardinality(S)
<1>1. Below(S, t) \subseteq S /\ t \notin Below(S, t)
  BY DEF Below
<1>2. Below(S, t) # S
  BY <1>1
<1> QED
  BY <1>1, <1>2, FS_Subset, FS_CardinalityType DEF Rank

LEMMA RankGrows ==
    ASSUME NEW S \in SUBSET Nat, IsFiniteSet(S), NEW t \in S, NEW u \in S, t < u
    PROVE  Rank(S, t) < Rank(S, u)
<1>1. Below(S, t) \subseteq Below(S, u) /\ t \in Below(S, u) /\ t \notin Below(S, t)
  <2>1. ~(t < t) /\ \A v \in S : v < t => v < u
    OBVIOUS
  <2> QED
    BY Zenon, <2>1 DEF Below
<1>2. IsFiniteSet(Below(S, u)) /\ Below(S, t) # Below(S, u)
  BY <1>1, RankTyped
<1> QED
  BY <1>1, <1>2, FS_Subset, FS_CardinalityType DEF Rank

LEMMA RankUnique ==
    ASSUME NEW S \in SUBSET Nat, IsFiniteSet(S), NEW t \in S, NEW u \in S, Rank(S, t) = Rank(S, u)
    PROVE  t = u
<1>1. t \in Nat /\ u \in Nat /\ Rank(S, t) \in Nat
  BY RankTyped
<1>2. CASE t < u
  BY <1>1, <1>2, RankGrows
<1>3. CASE u < t
  BY <1>1, <1>3, RankGrows
<1> QED
  BY <1>1, <1>2, <1>3

\* The next rank is that of the least member above.
LEMMA NextRank ==
    ASSUME NEW S \in SUBSET Nat, IsFiniteSet(S), NEW t \in S, Rank(S, t) + 1 < Cardinality(S)
    PROVE  \E u \in S : Rank(S, u) = Rank(S, t) + 1
<1> DEFINE above == {u \in S : t < u}
<1>1. IsFiniteSet(Below(S, t)) /\ t \notin Below(S, t) /\ Rank(S, t) \in Nat
  BY RankTyped DEF Below
<1>2. /\ IsFiniteSet(Below(S, t) \cup {t})
      /\ Cardinality(Below(S, t) \cup {t}) = Rank(S, t) + 1
  BY <1>1, FS_AddElement DEF Rank
<1>3. above # {}
  <2>1. CASE above = {}
    <3>1. \A v \in S : v < t \/ v = t
      BY <2>1
    <3>2. S = Below(S, t) \cup {t}
      BY Zenon, <3>1 DEF Below
    <3>3. Cardinality(S) = Rank(S, t) + 1
      BY <1>2, <3>2
    <3> QED
      BY <1>1, <3>3
  <2> QED
    BY <2>1
<1>4. PICK u \in above : \A v \in above : u <= v
  BY Zenon, <1>3, Least
<1>5. Below(S, u) = Below(S, t) \cup {t}
  <2>1. \A v \in S : v < u <=> v < t \/ v = t
    BY <1>4
  <2> QED
    BY Zenon, <2>1 DEF Below
<1> QED
  BY <1>2, <1>4, <1>5 DEF Rank

LEMMA EveryRank ==
    ASSUME NEW S \in SUBSET Nat, IsFiniteSet(S)
    PROVE  \A k \in Nat : k < Cardinality(S) => \E t \in S : Rank(S, t) = k
<1> DEFINE missing == {k \in Nat : k < Cardinality(S) /\ \A t \in S : Rank(S, t) # k}
<1>1. SUFFICES ASSUME missing # {} PROVE FALSE
  OBVIOUS
<1>2. PICK k \in missing : \A j \in missing : k <= j
  BY Zenon, <1>1, Least
<1>3. Cardinality(S) \in Nat /\ k \in Nat /\ k < Cardinality(S)
  BY FS_CardinalityType
<1>4. CASE k = 0
  <2>1. S # {}
    BY <1>3, FS_EmptySet
  <2>2. PICK t \in S : \A u \in S : t <= u
    BY <2>1, Least
  <2>3. \A u \in S : ~(u < t)
    BY <2>2
  <2>4. Below(S, t) = {}
    BY Zenon, <2>3 DEF Below
  <2> QED
    BY <1>4, <2>4, FS_EmptySet DEF Rank
<1>5. CASE k # 0
  <2>1. k - 1 \in Nat /\ k - 1 < Cardinality(S) /\ k - 1 \notin missing
    BY <1>2, <1>3, <1>5
  <2>2. PICK t \in S : Rank(S, t) = k - 1
    BY <2>1
  <2>3. \E u \in S : Rank(S, u) = k
    BY <1>3, <2>2, NextRank
  <2> QED
    BY <2>3
<1> QED
  BY <1>4, <1>5

\* A batch of k tasks has at most k tasks.
LEMMA BatchSizeKept ==
    ASSUME NEW S \in SUBSET Nat, IsFiniteSet(S), NEW k \in Nat
    PROVE  IsFiniteSet(FirstOf(S, k)) /\ Cardinality(FirstOf(S, k)) <= k
<1> DEFINE F == FirstOf(S, k)
           f == [t \in F |-> Rank(S, t)]
<1>1. F \subseteq S /\ \A t \in F : Rank(S, t) < k
  BY DEF FirstOf, Rank, Below
<1>2. \A t \in F : Rank(S, t) \in 0..(k - 1)
  <2>1. \A t \in F : t \in Nat /\ Rank(S, t) \in Nat
    BY Zenon, <1>1, RankTyped
  <2> QED
    BY <1>1, <2>1
<1>3. \A t, u \in F : Rank(S, t) = Rank(S, u) => t = u
  BY Zenon, <1>1, RankUnique
<1>4. f \in Injection(F, 0..(k - 1))
  BY <1>2, <1>3 DEF Injection, IsInjective
<1>5. IsFiniteSet(0..(k - 1)) /\ Cardinality(0..(k - 1)) = k
  BY FS_Interval
<1> QED
  BY <1>4, <1>5, FS_Injection DEF ExistsInjection

-----------------------------------------------------------------------------
(* RoundRobin.Pick                                                          *)

LEMMA PickRank ==
    ASSUME NEW S \in SUBSET Nat, IsFiniteSet(S), S # {}, NEW c \in Nat
    PROVE  Pick(S, c) \in S /\ Rank(S, Pick(S, c)) = c % Cardinality(S)
<1>1. Cardinality(S) \in Nat \ {0}
  BY FS_CardinalityType, FS_EmptySet
<1>2. c % Cardinality(S) \in Nat /\ c % Cardinality(S) < Cardinality(S)
  BY <1>1
<1>3. \E w \in S : Cardinality({v \in S : v < w}) = c % Cardinality(S)
  BY <1>2, EveryRank DEF Rank, Below
<1> QED
  BY Zenon, <1>3 DEF Pick, Rank, Below

LEMMA Remainder ==
    \A a \in Nat, m \in Nat \ {0} : a % m \in 0..(m - 1) /\ a = m * (a \div m) + (a % m) /\ a \div m \in Nat
OBVIOUS

LEMMA MultiplesApart ==
    ASSUME NEW m \in Nat, NEW p \in Nat, NEW q \in Nat, p < q
    PROVE  m * q >= m * p + m
<1>1. q = p + 1 + (q - p - 1) /\ q - p - 1 \in Nat
  OBVIOUS
<1>2. m * q = m * p + m + m * (q - p - 1)
  BY <1>1
<1>3. m * (q - p - 1) \in Nat /\ m * p \in Nat
  BY <1>1
<1> QED
  BY <1>2, <1>3

LEMMA RemainderUnique ==
    ASSUME NEW m \in Nat, NEW p \in Nat, NEW q \in Nat, NEW r \in 0..(m - 1), NEW s \in 0..(m - 1),
           m * p + r = m * q + s
    PROVE  r = s
<1>1. m * p \in Nat /\ m * q \in Nat
  OBVIOUS
<1>2. CASE p < q
  BY <1>1, <1>2, MultiplesApart
<1>3. CASE q < p
  BY <1>1, <1>3, MultiplesApart
<1> QED
  BY <1>1, <1>2, <1>3

LEMMA NextRemainder ==
    ASSUME NEW a \in Nat, NEW m \in Nat \ {0}
    PROVE  (a + 1) % m = IF a % m = m - 1 THEN 0 ELSE (a % m) + 1
<1> DEFINE r == a % m
           s == (a + 1) % m
<1>1. PICK p \in Nat : a = m * p + r
  BY Zenon, Remainder
<1>2. PICK q \in Nat : a + 1 = m * q + s
  <2>1. a + 1 \in Nat
    OBVIOUS
  <2> QED
    BY Zenon, <2>1, Remainder
<1>3. r \in 0..(m - 1) /\ s \in 0..(m - 1)
  BY Remainder
<1> HIDE DEF r, s
<1>4. CASE r = m - 1
  <2>1. m * (p + 1) + 0 = m * q + s
    BY <1>1, <1>2, <1>4
  <2>2. p + 1 \in Nat /\ 0 \in 0..(m - 1)
    OBVIOUS
  <2>3. s = 0
    BY <1>3, <2>1, <2>2, RemainderUnique
  <2> QED
    BY <1>4, <2>3 DEF r, s
<1>5. CASE r # m - 1
  <2>1. m * p + (r + 1) = m * q + s /\ r + 1 \in 0..(m - 1)
    BY <1>1, <1>2, <1>3, <1>5
  <2>2. r + 1 = s
    BY <1>3, <2>1, RemainderUnique
  <2> QED
    BY <1>5, <2>2 DEF r, s
<1> QED
  BY <1>4, <1>5

\* RoundRobin.Pick is a round robin: as many consecutive picks as there are members,
\* from wherever the counter stands, give every member once.
THEOREM EveryMemberOnce ==
    ASSUME NEW S \in SUBSET Nat, IsFiniteSet(S), S # {}, NEW c \in Nat
    PROVE  /\ \A w \in S : \E k \in 0..(Cardinality(S) - 1) : Pick(S, c + k) = w
           /\ \A j, k \in 0..(Cardinality(S) - 1) : Pick(S, c + j) = Pick(S, c + k) => j = k
<1> DEFINE m == Cardinality(S)
<1>1. m \in Nat \ {0}
  BY FS_CardinalityType, FS_EmptySet
<1>2. \A k \in 0..(m - 1) : c + k \in Nat /\ Pick(S, c + k) \in S /\ Rank(S, Pick(S, c + k)) = (c + k) % m
  <2>1. \A k \in 0..(m - 1) : c + k \in Nat
    BY <1>1
  <2> QED
    BY <2>1, PickRank
<1> HIDE DEF m
<1>3. ASSUME NEW w \in S PROVE \E k \in 0..(m - 1) : Pick(S, c + k) = w
  <2> DEFINE x == Rank(S, w)
             r == c % m
             k == IF r <= x THEN x - r ELSE x - r + m
  <2>1. x \in 0..(m - 1)
    BY <1>1, RankTyped, RankBelowSize DEF m
  <2>2. PICK p \in Nat : c = m * p + r
    BY Zenon, <1>1, Remainder
  <2>3. r \in 0..(m - 1)
    BY <1>1, Remainder
  <2> HIDE DEF x, r
  <2>4. k \in 0..(m - 1)
    BY <1>1, <2>1, <2>3
  <2>5. \E q \in Nat : c + k = m * q + x
    <3>1. CASE r <= x
      BY <1>1, <2>1, <2>2, <2>3, <3>1
    <3>2. CASE ~(r <= x)
      <4>1. m * (p + 1) = m * p + m /\ m * p \in Nat /\ p + 1 \in Nat
        BY <1>1
      <4>2. c + k = m * (p + 1) + x
        BY <1>1, <2>1, <2>2, <2>3, <3>2, <4>1
      <4> QED
        BY <4>1, <4>2
    <3> QED
      BY <3>1, <3>2
  <2> HIDE DEF k
  <2>6. PICK q \in Nat : c + k = m * q + x
    BY <2>5
  <2>7. c + k \in Nat /\ Pick(S, c + k) \in S /\ Rank(S, Pick(S, c + k)) = (c + k) % m
    BY <1>2, <2>4
  <2>8. PICK z \in Nat : c + k = m * z + ((c + k) % m)
    BY Zenon, <1>1, <2>7, Remainder
  <2>9. (c + k) % m \in 0..(m - 1)
    BY <1>1, <2>7, Remainder
  <2>10. (c + k) % m = x
    BY Zenon, <1>1, <2>1, <2>6, <2>8, <2>9, RemainderUnique
  <2>11. Pick(S, c + k) = w
    <3>1. Rank(S, Pick(S, c + k)) = Rank(S, w)
      BY Zenon, <2>7, <2>10 DEF x
    <3> QED
      BY Zenon, <2>7, <3>1, RankUnique
  <2> QED
    BY <2>4, <2>11
<1>4. ASSUME NEW j \in 0..(m - 1), NEW k \in 0..(m - 1), Pick(S, c + j) = Pick(S, c + k) PROVE j = k
  <2> DEFINE r == (c + j) % m
  <2>1. r = (c + k) % m
    BY <1>2, <1>4
  <2>2. PICK p \in Nat : c + j = m * p + r
    BY Zenon, <1>1, <1>2, Remainder
  <2>3. PICK q \in Nat : c + k = m * q + r
    BY ZenonT(30), <1>1, <1>2, <2>1, Remainder
  <2>4. r \in Nat
    BY <1>1, <1>2, Remainder
  <2> HIDE DEF r
  <2>5. m * p \in Nat /\ m * q \in Nat
    BY <1>1
  <2>6. CASE p < q
    <3>1. m * q >= m * p + m
      BY <1>1, <2>6, MultiplesApart
    <3> QED
      BY <1>1, <2>2, <2>3, <2>4, <2>5, <3>1
  <2>7. CASE q < p
    <3>1. m * p >= m * q + m
      BY <1>1, <2>7, MultiplesApart
    <3> QED
      BY <1>1, <2>2, <2>3, <2>4, <2>5, <3>1
  <2>8. CASE p = q
    BY <1>1, <2>2, <2>3, <2>4, <2>5, <2>8
  <2> QED
    BY <2>6, <2>7, <2>8
<1> QED
  BY <1>3, <1>4 DEF m

\* The counter goes round a multiple of the number of members.
LEMMA CounterStep ==
    ASSUME NEW m \in Nat \ {0}, Cycle % m = 0, NEW c \in 0..(Cycle - 1)
    PROVE  ((c + 1) % Cycle) % m = IF c % m = m - 1 THEN 0 ELSE (c % m) + 1
<1>1. (c + 1) % m = IF c % m = m - 1 THEN 0 ELSE (c % m) + 1
  BY NextRemainder
<1>2. CASE c + 1 < Cycle
  <2>1. (c + 1) % Cycle = c + 1
    BY <1>2, SchedulerAssumption
  <2> QED
    BY <1>1, <2>1
<1>3. CASE c + 1 = Cycle
  <2>1. (c + 1) % Cycle = 0 /\ 0 % m = 0 /\ (c + 1) % m = 0
    BY <1>3, SchedulerAssumption
  <2> QED
    BY <1>1, <2>1
<1> QED
  BY <1>2, <1>3, SchedulerAssumption

(* Of m members, rank x is among the next k that are picked after rank r - 1. *)
Ahead(r, k, m, x) == (r <= x /\ x < r + k) \/ x + m < r + k

LEMMA AheadStep ==
    ASSUME NEW m \in Nat \ {0}, NEW r \in 0..(m - 1), NEW k \in 1..m, NEW x \in 0..(m - 1),
           NEW s, s = IF r = m - 1 THEN 0 ELSE r + 1, Ahead(s, k - 1, m, x)
    PROVE  Ahead(r, k, m, x) /\ x # r
BY DEF Ahead

-----------------------------------------------------------------------------
(* What holds of the schedulers and the store they share.                   *)

SchedRecord == [pc : TickPC, recovered : BOOLEAN, alive : SUBSET Node, free : SUBSET Node,
                tasks : SUBSET Task, worker : Node \cup {NoWorker}]

Dispatching == {"assign", "call", "answered", "lost"}

\* The locals of a tick at each of its calls.
Fits(s, n) ==
    /\ n \notin s.alive /\ s.free \subseteq s.alive
    /\ s.pc \in {"claim"} \cup Dispatching <=> s.free # {}
    /\ s.pc \in Dispatching <=> s.tasks # {}
    /\ s.pc \in Dispatching \ {"assign"} => s.worker \in s.free
    /\ Cardinality(s.tasks) <= Cardinality(s.free)
    /\ s.pc \in {"stale", "dead"} => ~s.recovered
    /\ s.pc \notin {"idle", "stale", "dead"} => s.recovered

SysInv ==
    /\ ViewTypeOK /\ StoreInv /\ SchedTypeOK /\ WorkerTypeOK
    /\ \A n \in Node : Fits(sched[n], n)

-----------------------------------------------------------------------------
(* While leaders change more slowly than the schedulers tick.               *)

LeaderInv ==
    /\ \A n \in Node \ up : leader[n] = NoLeader /\ sched[n] = NewScheduler
    /\ \A n, m \in Node : IsLeader(n) /\ IsLeader(m) => n = m
    /\ \A n \in Node : sched[n].pc # "idle" => IsLeader(n)

-----------------------------------------------------------------------------
(* The parts of a step.                                                     *)

LEMMA Finite ==
    /\ \A S \in SUBSET Task : IsFiniteSet(S) /\ Cardinality(S) \in Nat /\ S \in SUBSET Nat
    /\ \A S \in SUBSET Node : IsFiniteSet(S) /\ Cardinality(S) \in Nat /\ S \in SUBSET Nat
<1>1. \A S \in SUBSET Task : IsFiniteSet(S) /\ Cardinality(S) \in Nat
  BY Zenon, TaskAssumption, FS_Subset, FS_CardinalityType
<1>2. \A S \in SUBSET Node : IsFiniteSet(S) /\ Cardinality(S) \in Nat
  BY SchedulerAssumption, FS_Subset, FS_CardinalityType
<1> QED
  BY Zenon, <1>1, <1>2, TaskAssumption, NodeAssumption

LEMMA NewFits ==
    /\ NewScheduler \in SchedRecord /\ \A n \in Node : Fits(NewScheduler, n)
    /\ \A s \in SchedRecord : Idle(s) \in SchedRecord /\ \A n \in Node : Fits(Idle(s), n)
    /\ \A s \in SchedRecord : /\ Idle(s).pc = "idle" /\ Idle(s).tasks = {} /\ Idle(s).free = {}
                              /\ Idle(s).recovered = s.recovered
<1>1. Cardinality({}) <= Cardinality({})
  BY FS_EmptySet
<1>2. NewScheduler \in SchedRecord
  BY DEF NewScheduler, SchedRecord, TickPC
<1>3. \A n \in Node : Fits(NewScheduler, n)
  BY <1>1 DEF NewScheduler, Fits, Dispatching
<1>4. ASSUME NEW s \in SchedRecord
      PROVE  /\ Idle(s) \in SchedRecord /\ \A n \in Node : Fits(Idle(s), n)
             /\ Idle(s).pc = "idle" /\ Idle(s).tasks = {} /\ Idle(s).free = {} /\ Idle(s).recovered = s.recovered
  <2>1. s.recovered \in BOOLEAN
    BY DEF SchedRecord
  <2>2. Idle(s) = [pc |-> "idle", recovered |-> s.recovered, alive |-> {}, free |-> {}, tasks |-> {},
                   worker |-> NoWorker]
    BY DEF Idle, NewScheduler
  <2> QED
    BY <1>1, <2>1, <2>2 DEF SchedRecord, TickPC, Fits, Dispatching
<1> QED
  BY <1>2, <1>3, <1>4

\* What a scheduler makes of the rest of its batch.
LEMMA ContinueFits ==
    ASSUME NEW n \in Node, NEW s \in SchedRecord, Fits(s, n), s.pc \in Dispatching
    PROVE  /\ First(s.tasks) \in s.tasks /\ First(s.tasks) \in Task
           /\ Continue(s) \in SchedRecord /\ Fits(Continue(s), n)
           /\ Continue(s).tasks = s.tasks \ {First(s.tasks)} /\ Continue(s).recovered = s.recovered
           /\ \/ Continue(s).pc = "idle"
              \/ Continue(s).pc = "assign" /\ Continue(s).free = s.free
           /\ Cardinality(s.tasks) \in 1..Cardinality(s.free)
           /\ Cardinality(s.tasks \ {First(s.tasks)}) = Cardinality(s.tasks) - 1
<1> DEFINE f == First(s.tasks)
           rest == s.tasks \ {f}
<1>1. /\ s.tasks # {} /\ s.tasks \in SUBSET Task /\ s.free \in SUBSET Node
      /\ Cardinality(s.tasks) <= Cardinality(s.free)
  BY DEF SchedRecord, Fits
<1>2. f \in s.tasks /\ f \in Task
  BY <1>1, Finite, FirstIsLeast
<1>3. Cardinality(rest) = Cardinality(s.tasks) - 1 /\ Cardinality(rest) \in Nat
  BY <1>1, <1>2, Finite, FS_RemoveElement
<1>4. Cardinality(s.tasks) \in 1..Cardinality(s.free)
  BY <1>1, <1>3, Finite
<1>5. CASE rest = {}
  BY Zenon, <1>2, <1>3, <1>4, <1>5, NewFits DEF Continue
<1>6. CASE rest # {}
  <2>1. Continue(s) = [s EXCEPT !.pc = "assign", !.tasks = rest, !.worker = NoWorker]
    BY <1>6 DEF Continue
  <2>2. rest \in SUBSET Task /\ Cardinality(rest) <= Cardinality(s.free)
    BY <1>1, <1>3, Finite
  <2> HIDE DEF rest
  <2>3. Continue(s) \in SchedRecord /\ Fits(Continue(s), n)
    BY Zenon, <1>1, <1>6, <2>1, <2>2 DEF SchedRecord, TickPC, Fits, Dispatching
  <2>4. /\ Continue(s).tasks = rest /\ Continue(s).recovered = s.recovered
        /\ Continue(s).pc = "assign" /\ Continue(s).free = s.free
    BY <2>1 DEF SchedRecord
  <2> QED
    BY Zenon, <1>2, <1>3, <1>4, <2>3, <2>4 DEF rest
<1> QED
  BY <1>5, <1>6

LEMMA SchedOf ==
    ASSUME SysInv, NEW n \in Node
    PROVE  sched[n] \in SchedRecord /\ Fits(sched[n], n) /\ counter[n] \in 0..(Cycle - 1)
BY DEF SysInv, SchedTypeOK, SchedRecord

LEMMA BecomesFits ==
    ASSUME SysInv, NEW n \in Node, NEW s \in SchedRecord, Fits(s, n), Becomes(n, s)
    PROVE  /\ sched' \in [Node -> SchedRecord] /\ \A m \in Node : Fits(sched'[m], m)
           /\ sched'[n] = s /\ \A m \in Node \ {n} : sched'[m] = sched[m]
<1>1. sched \in [Node -> SchedRecord]
  BY DEF SysInv, SchedTypeOK, SchedRecord
<1>2. sched' \in [Node -> SchedRecord] /\ sched'[n] = s /\ \A m \in Node \ {n} : sched'[m] = sched[m]
  BY <1>1 DEF Becomes
<1> QED
  BY <1>2, SchedOf

LEMMA FaultTyped == ASSUME ViewTypeOK, Fault \/ UNCHANGED viewVars PROVE ViewTypeOK' /\ UNCHANGED <<up, known, leader>>
<1>1. CASE UNCHANGED viewVars
  BY <1>1 DEF ViewTypeOK, viewVars
<1>2. CASE Fault
  BY <1>2, NodeAssumption DEF ViewTypeOK, Fault
<1> QED
  BY <1>1, <1>2

\* A batch of any size is one of the sizes of StoreNext.
LEMMA ClaimAnySize ==
    ASSUME StoreInv, NEW k \in Nat, ClaimQueued(k)
    PROVE  [StoreNext]_storeVars
<1> DEFINE S == Claimable
           N == Cardinality(Task)
<1>1. S \in SUBSET Task /\ N \in Nat /\ Cardinality(S) <= N
  BY TaskAssumption, FS_Subset, FS_CardinalityType DEF Claimable
<1>2. CASE k \in 1..N
  BY <1>2 DEF StoreNext
<1>3. CASE k = 0
  <2>1. \A t \in S : Rank(S, t) \in Nat
    BY <1>1, Finite, RankTyped
  <2>2. \A t \in S : ~(Cardinality({u \in S : u < t}) < k)
    BY <1>3, <2>1 DEF Rank, Below
  <2>3. FirstOf(S, k) = {}
    BY <2>2 DEF FirstOf
  <2>4. UNCHANGED storeVars
    BY <2>3 DEF ClaimQueued, storeVars, StoreInv, StoreTypeOK
  <2> QED
    BY <2>4
<1>4. CASE k > N
  <2>1. \A t \in S : Rank(S, t) \in Nat /\ Rank(S, t) < N
    BY <1>1, Finite, RankTyped, RankBelowSize
  <2>2. \A t \in S : Cardinality({u \in S : u < t}) < k /\ Cardinality({u \in S : u < t}) < N
    BY <1>1, <1>4, <2>1 DEF Rank, Below
  <2>3. FirstOf(S, k) = S /\ FirstOf(S, N) = S
    BY <2>2 DEF FirstOf
  <2>4. ClaimQueued(N)
    BY <2>3 DEF ClaimQueued
  <2>5. CASE N = 0
    <3>1. S = {}
      BY <1>1, <2>1, <2>5
    <3> QED
      BY <2>3, <3>1 DEF ClaimQueued, storeVars, StoreInv, StoreTypeOK
  <2>6. CASE N # 0
    BY <1>1, <2>4, <2>6 DEF StoreNext
  <2> QED
    BY <2>5, <2>6
<1> QED
  BY <1>1, <1>2, <1>3, <1>4

-----------------------------------------------------------------------------
(* Types and locals, and the store below.                                   *)

LEMMA PickFits ==
    ASSUME SysInv, NEW n \in Node, sched[n].free # {}
    PROVE  /\ Pick(sched[n].free, counter[n]) \in sched[n].free /\ Pick(sched[n].free, counter[n]) \in Node
           /\ Rank(sched[n].free, Pick(sched[n].free, counter[n])) = counter[n] % Cardinality(sched[n].free)
<1>1. sched[n].free \in SUBSET Node /\ counter[n] \in Nat
  BY SchedOf DEF SchedRecord
<1>2. sched[n].free \in SUBSET Nat /\ IsFiniteSet(sched[n].free)
  BY <1>1, Finite
<1> QED
  BY <1>1, <1>2, PickRank

Fine(n) == [StoreNext]_storeVars /\ ViewTypeOK' /\ SchedTypeOK' /\ \A m \in Node : Fits(sched'[m], m)

LEMMA FineStep ==
    ASSUME SysInv, NEW n \in Node, NEW s \in SchedRecord, Fits(s, n), Becomes(n, s),
           Fault \/ UNCHANGED viewVars, [StoreNext]_storeVars,
           counter' = counter \/ counter' = [counter EXCEPT ![n] = (@ + 1) % Cycle]
    PROVE  Fine(n)
<1>1. counter' \in [Node -> 0..(Cycle - 1)]
  <2>1. counter \in [Node -> 0..(Cycle - 1)] /\ counter[n] \in Nat
    BY SchedOf DEF SysInv, SchedTypeOK
  <2>2. (counter[n] + 1) % Cycle \in 0..(Cycle - 1)
    BY <2>1, SchedulerAssumption
  <2> QED
    BY <2>1, <2>2
<1>2. SchedTypeOK' /\ \A m \in Node : Fits(sched'[m], m)
  BY <1>1, BecomesFits DEF SchedTypeOK, SchedRecord
<1> QED
  BY <1>2, FaultTyped DEF Fine, SysInv

LEMMA tickFine == ASSUME SysInv, NEW n \in Node, tick(n) PROVE Fine(n)
<1>1. sched[n] \in SchedRecord /\ Fits(sched[n], n) /\ sched[n].pc = "idle" /\ n \in Node
  BY SchedOf DEF tick, At
<1>2. UNCHANGED <<counter, viewVars, storeVars>>
  BY DEF tick
<1>3. CASE Becomes(n, [sched[n] EXCEPT !.recovered = FALSE])
  <2>1. [sched[n] EXCEPT !.recovered = FALSE] \in SchedRecord
    BY Zenon, <1>1 DEF SchedRecord
  <2>2. Fits([sched[n] EXCEPT !.recovered = FALSE], n)
    BY <1>1 DEF SchedRecord, Fits, Dispatching
  <2> QED
    BY Zenon, <1>2, <1>3, <2>1, <2>2, FineStep
<1>4. CASE Becomes(n, [sched[n] EXCEPT !.alive = aliveWorkers(n),
                                       !.pc = IF sched[n].recovered THEN "expired" ELSE "stale"])
  <2>1. aliveWorkers(n) \in SUBSET Node /\ n \notin aliveWorkers(n)
    BY DEF aliveWorkers, SysInv, ViewTypeOK
  <2> DEFINE pc == IF sched[n].recovered THEN "expired" ELSE "stale"
             s == [sched[n] EXCEPT !.alive = aliveWorkers(n), !.pc = pc]
  <2>2. s \in SchedRecord
    BY Zenon, <1>1, <2>1 DEF SchedRecord, TickPC
  <2>3. Fits(s, n)
    BY <1>1, <2>1 DEF SchedRecord, Fits, Dispatching
  <2> QED
    BY Zenon, <1>2, <1>4, <2>2, <2>3, FineStep
<1> QED
  BY <1>3, <1>4 DEF tick

LEMMA RecoveriesAreStoreSteps ==
    ASSUME SysInv, NEW n \in Node,
           \/ RecoverStaleScheduling \/ RecoverExpiredLeases \/ RecoverDeadWorkerLeases(sched[n].alive)
           \/ UNCHANGED storeVars
    PROVE  [StoreNext]_storeVars
<1>1. sched[n].alive \in SUBSET Worker
  BY SchedOf, SchedulerAssumption DEF SchedRecord
<1> QED
  BY <1>1 DEF StoreNext

LEMMA recoverFine ==
    ASSUME SysInv, NEW n \in Node, recoverStale(n) \/ recoverDead(n) \/ recoverExpired(n) PROVE Fine(n)
<1>1. sched[n] \in SchedRecord /\ Fits(sched[n], n)
  BY SchedOf
<1>2. /\ Fault \/ UNCHANGED viewVars
      /\ UNCHANGED counter /\ [StoreNext]_storeVars
  BY RecoveriesAreStoreSteps DEF recoverStale, recoverDead, recoverExpired, Fails
<1>3. CASE recoverStale(n)
  <2>1. sched[n].pc = "stale" /\ Becomes(n, [sched[n] EXCEPT !.pc = "dead"])
    BY <1>3 DEF recoverStale, GoTo, At
  <2>2. [sched[n] EXCEPT !.pc = "dead"] \in SchedRecord /\ Fits([sched[n] EXCEPT !.pc = "dead"], n)
    BY <1>1, <2>1 DEF SchedRecord, TickPC, Fits, Dispatching
  <2> QED
    BY Zenon, <1>2, <2>1, <2>2, FineStep
<1>4. CASE recoverDead(n)
  <2> DEFINE s == [sched[n] EXCEPT !.pc = "expired", !.recovered = TRUE]
  <2>1. sched[n].pc = "dead" /\ Becomes(n, s)
    BY <1>4 DEF recoverDead, At
  <2>2. s \in SchedRecord /\ Fits(s, n)
    BY Zenon, <1>1, <2>1 DEF SchedRecord, TickPC, Fits, Dispatching
  <2> QED
    BY Zenon, <1>2, <2>1, <2>2, FineStep
<1>5. CASE recoverExpired(n)
  <2> DEFINE s == [sched[n] EXCEPT !.pc = "leases"]
  <2>1. sched[n].pc = "expired" /\ (Becomes(n, s) \/ Becomes(n, Idle(sched[n])))
    BY <1>5 DEF recoverExpired, GoTo, At
  <2>2. s \in SchedRecord /\ Fits(s, n)
    BY <1>1, <2>1 DEF SchedRecord, TickPC, Fits, Dispatching
  <2>3. Idle(sched[n]) \in SchedRecord /\ Fits(Idle(sched[n]), n)
    BY <1>1, NewFits
  <2> QED
    BY Zenon, <1>2, <2>1, <2>2, <2>3, FineStep
<1> QED
  BY <1>3, <1>4, <1>5

LEMMA freeWorkersFine == ASSUME SysInv, NEW n \in Node, freeWorkers(n) PROVE Fine(n)
<1> DEFINE free == sched[n].alive \ Leased
           s == [sched[n] EXCEPT !.pc = "claim", !.free = free]
<1>1. sched[n] \in SchedRecord /\ Fits(sched[n], n) /\ sched[n].pc = "leases"
  BY SchedOf DEF freeWorkers, At
<1>2. /\ Fault \/ UNCHANGED viewVars
      /\ UNCHANGED counter /\ UNCHANGED storeVars
  BY DEF freeWorkers
<1>3. free \in SUBSET Node /\ free \subseteq sched[n].alive
  BY <1>1 DEF SchedRecord
<1>4. (free # {} /\ Becomes(n, s)) \/ Becomes(n, Idle(sched[n]))
  BY DEF freeWorkers
<1> HIDE DEF free
<1>5. ASSUME free # {} PROVE s \in SchedRecord /\ Fits(s, n)
  <2>1. sched[n].tasks = {} /\ Cardinality({}) <= Cardinality(free)
    BY <1>1, <1>3, Finite, FS_EmptySet DEF Fits, Dispatching
  <2> QED
    BY Zenon, <1>1, <1>3, <1>5, <2>1 DEF SchedRecord, TickPC, Fits, Dispatching
<1>6. Idle(sched[n]) \in SchedRecord /\ Fits(Idle(sched[n]), n)
  BY <1>1, NewFits
<1> QED
  BY Zenon, <1>2, <1>4, <1>5, <1>6, FineStep

LEMMA ClaimFits ==
    ASSUME SysInv, NEW n \in Node, sched[n].pc = "claim"
    PROVE  LET tasks == FirstOf(Claimable, ClaimCount(n))
           IN /\ ClaimCount(n) \in Nat /\ tasks \in SUBSET Claimable /\ tasks \in SUBSET Task
              /\ Cardinality(tasks) <= Cardinality(sched[n].free)
<1>1. sched[n] \in SchedRecord
  BY SchedOf
<1>2. Cardinality(sched[n].free) \in Nat
  BY <1>1, Finite DEF SchedRecord
<1>3. ClaimCount(n) \in Nat /\ ClaimCount(n) <= Cardinality(sched[n].free)
  BY <1>2, SchedulerAssumption DEF ClaimCount
<1>4. Claimable \in SUBSET Nat /\ IsFiniteSet(Claimable) /\ Claimable \in SUBSET Task
  BY Finite DEF Claimable
<1>5. FirstOf(Claimable, ClaimCount(n)) \in SUBSET Claimable
  BY DEF FirstOf
<1>6. Cardinality(FirstOf(Claimable, ClaimCount(n))) <= ClaimCount(n)
  BY <1>3, <1>4, BatchSizeKept
<1>7. Cardinality(FirstOf(Claimable, ClaimCount(n))) \in Nat
  BY <1>4, <1>5, Finite
<1>8. Cardinality(FirstOf(Claimable, ClaimCount(n))) <= Cardinality(sched[n].free)
  BY <1>2, <1>3, <1>6, <1>7
<1>9. FirstOf(Claimable, ClaimCount(n)) \in SUBSET Task
  BY Zenon, <1>4, <1>5
<1> QED
  BY Zenon, <1>3, <1>5, <1>8, <1>9

LEMMA claimFine == ASSUME SysInv, NEW n \in Node, claim(n) PROVE Fine(n)
<1> DEFINE tasks == FirstOf(Claimable, ClaimCount(n))
           s == [sched[n] EXCEPT !.pc = "assign", !.tasks = tasks]
<1>1. sched[n] \in SchedRecord /\ Fits(sched[n], n) /\ sched[n].pc = "claim"
  BY SchedOf DEF claim, At
<1>2. ClaimQueued(ClaimCount(n)) \/ UNCHANGED storeVars
  BY DEF claim, Fails
<1>3. /\ Fault \/ UNCHANGED viewVars
      /\ UNCHANGED counter
  BY DEF claim, Fails
<1>4. (tasks # {} /\ Becomes(n, s)) \/ Becomes(n, Idle(sched[n]))
  BY DEF claim
<1>5. ClaimCount(n) \in Nat /\ tasks \in SUBSET Task /\ Cardinality(tasks) <= Cardinality(sched[n].free)
  BY <1>1, ClaimFits
<1>6. [StoreNext]_storeVars
  BY <1>2, <1>5, ClaimAnySize DEF SysInv
<1> HIDE DEF tasks
<1>7. ASSUME tasks # {} PROVE s \in SchedRecord /\ Fits(s, n)
  BY Zenon, <1>1, <1>5, <1>7 DEF SchedRecord, TickPC, Fits, Dispatching
<1>8. Idle(sched[n]) \in SchedRecord /\ Fits(Idle(sched[n]), n)
  BY <1>1, NewFits
<1> QED
  BY Zenon, <1>3, <1>4, <1>6, <1>7, <1>8, FineStep

LEMMA assignFine == ASSUME SysInv, NEW n \in Node, assign(n) PROVE Fine(n)
<1> DEFINE t == First(sched[n].tasks)
           w == Pick(sched[n].free, counter[n])
           s == [sched[n] EXCEPT !.pc = "call", !.worker = w]
<1>1. sched[n] \in SchedRecord /\ Fits(sched[n], n) /\ sched[n].pc = "assign"
  BY SchedOf DEF assign, At
<1>2. MarkAssigned(t, w) \/ UNCHANGED storeVars
  BY DEF assign, Fails
<1>3. /\ Fault \/ UNCHANGED viewVars
      /\ counter' = [counter EXCEPT ![n] = (@ + 1) % Cycle]
  BY DEF assign, Fails
<1>4. Becomes(n, s) \/ Becomes(n, Continue(sched[n]))
  BY DEF assign
<1>5. t \in Task /\ Continue(sched[n]) \in SchedRecord /\ Fits(Continue(sched[n]), n)
  BY Zenon, <1>1, ContinueFits DEF Dispatching
<1>6. w \in sched[n].free /\ w \in Node
  BY <1>1, PickFits DEF Fits, Dispatching
<1>7. [StoreNext]_storeVars
  BY Zenon, <1>2, <1>5, <1>6, SchedulerAssumption DEF StoreNext
<1> HIDE DEF t, w
<1>8. s \in SchedRecord /\ Fits(s, n)
  BY Zenon, <1>1, <1>6 DEF SchedRecord, TickPC, Fits, Dispatching
<1> QED
  BY Zenon, <1>3, <1>4, <1>5, <1>7, <1>8, FineStep

LEMMA dispatchFine == ASSUME SysInv, NEW n \in Node, dispatched(n) \/ dispatchFailed(n) PROVE Fine(n)
<1> DEFINE s == [sched[n] EXCEPT !.pc = "lost"]
<1>1. sched[n] \in SchedRecord /\ Fits(sched[n], n) /\ sched[n].pc \in {"call", "answered"}
  BY SchedOf DEF dispatched, dispatchFailed, At
<1>2. /\ Fault \/ UNCHANGED viewVars
      /\ UNCHANGED counter /\ UNCHANGED storeVars
  BY DEF dispatched, dispatchFailed
<1>3. Becomes(n, s) \/ Becomes(n, Continue(sched[n]))
  BY DEF dispatched, dispatchFailed, GoTo
<1>4. Continue(sched[n]) \in SchedRecord /\ Fits(Continue(sched[n]), n)
  BY Zenon, <1>1, ContinueFits DEF Dispatching
<1>5. s \in SchedRecord /\ Fits(s, n)
  BY <1>1 DEF SchedRecord, TickPC, Fits, Dispatching
<1> QED
  BY Zenon, <1>2, <1>3, <1>4, <1>5, FineStep

LEMMA workerLostFine == ASSUME SysInv, NEW n \in Node, workerLost(n) PROVE Fine(n)
<1> DEFINE t == First(sched[n].tasks)
           w == sched[n].worker
<1>1. sched[n] \in SchedRecord /\ Fits(sched[n], n) /\ sched[n].pc = "lost"
  BY SchedOf DEF workerLost, At
<1>2. MarkWorkerLost(t, w) \/ UNCHANGED storeVars
  BY DEF workerLost, Fails
<1>3. /\ Fault \/ UNCHANGED viewVars
      /\ UNCHANGED counter /\ Becomes(n, Continue(sched[n]))
  BY DEF workerLost, Fails
<1>4. t \in Task /\ Continue(sched[n]) \in SchedRecord /\ Fits(Continue(sched[n]), n)
  BY Zenon, <1>1, ContinueFits DEF Dispatching
<1>5. w \in Worker
  BY <1>1, SchedulerAssumption DEF Fits, SchedRecord, Dispatching
<1>6. [StoreNext]_storeVars
  BY Zenon, <1>2, <1>4, <1>5 DEF StoreNext
<1> QED
  BY Zenon, <1>3, <1>4, <1>6, FineStep

LEMMA SchedulerFine == ASSUME SysInv, NEW n \in Node, SchedulerStep(n) PROVE Fine(n)
BY ZenonT(30), tickFine, recoverFine, freeWorkersFine, claimFine, assignFine, dispatchFine, workerLostFine DEF SchedulerStep

\* The worker of an AssignTask call, and what it is handed.
LEMMA CallFits ==
    ASSUME SysInv, NEW n \in Node, AssignTask(n)
    PROVE  /\ sched[n].pc = "call" /\ First(sched[n].tasks) \in Task
           /\ sched[n].worker \in sched[n].free /\ sched[n].worker \in Node /\ sched[n].worker # n
<1>1. sched[n] \in SchedRecord /\ Fits(sched[n], n) /\ sched[n].pc = "call"
  BY SchedOf DEF AssignTask, At
<1>2. First(sched[n].tasks) \in Task
  BY Zenon, <1>1, ContinueFits DEF Dispatching
<1> QED
  BY <1>1, <1>2 DEF Fits, SchedRecord, Dispatching

LEMMA AssignTaskFine == ASSUME SysInv, NEW n \in Node, AssignTask(n) PROVE Fine(n) /\ WorkerTypeOK'
<1> DEFINE s == [sched[n] EXCEPT !.pc = "answered"]
<1>1. sched[n] \in SchedRecord /\ Fits(sched[n], n) /\ sched[n].pc = "call"
  BY SchedOf, CallFits
<1>2. UNCHANGED <<counter, viewVars, storeVars>> /\ Becomes(n, s)
  BY DEF AssignTask, GoTo
<1>3. s \in SchedRecord /\ Fits(s, n)
  BY <1>1 DEF SchedRecord, TickPC, Fits, Dispatching
<1>4. Fine(n)
  BY Zenon, <1>2, <1>3, FineStep
<1>5. PICK i \in 1..MaxRuns :
        runs' = runs \cup {[node |-> sched[n].worker, task |-> First(sched[n].tasks), no |-> i, pc |-> "starting"]}
  BY DEF AssignTask, HandleAssignment
<1>6. WorkerTypeOK'
  BY <1>5, CallFits DEF SysInv, WorkerTypeOK, Run
<1> QED
  BY <1>4, <1>6

LEMMA RunOf ==
    ASSUME SysInv, NEW r \in runs
    PROVE  r.node \in Node /\ r.node \in Worker /\ r.task \in Task /\ r \in Run
BY SchedulerAssumption DEF SysInv, WorkerTypeOK, Run

\* The transactions of a worker.
LEMMA WorkerTransaction ==
    ASSUME SysInv, NEW r \in runs, WorkerStep(r)
    PROVE  \/ MarkRunning(r.task, r.node) \/ MarkCompleted(r.task, r.node) \/ MarkFailed(r.task, r.node)
           \/ RenewLease(r.task, r.node) \/ UNCHANGED storeVars
BY DEF WorkerStep, startTask, Execute, reportSuccess, reportFailure, renew, Answered, Refused, TimesOut

LEMMA WorkerFine ==
    ASSUME SysInv, NEW r \in runs, WorkerStep(r)
    PROVE  /\ [StoreNext]_storeVars /\ ViewTypeOK' /\ WorkerTypeOK' /\ UNCHANGED <<up, known, leader>>
           /\ \A q \in runs' \ runs : q.pc # "starting"
<1>1. [StoreNext]_storeVars
  BY WorkerTransaction, RunOf DEF StoreNext
<1>2. Fault \/ UNCHANGED viewVars
  BY DEF WorkerStep, startTask, Execute, reportSuccess, reportFailure, renew, Answered, Refused, TimesOut
<1>3. /\ runs' \subseteq Run
      /\ \A q \in runs' \ runs : q.pc # "starting"
  <2>1. \/ runs' \subseteq runs
        \/ \E pc \in {"executing", "succeeded", "failed"} : Proceeds(r, pc)
    BY DEF WorkerStep, startTask, Execute, reportSuccess, reportFailure, renew, Returns
  <2>2. ASSUME NEW pc \in {"executing", "succeeded", "failed"}
        PROVE  [r EXCEPT !.pc = pc] \in Run /\ [r EXCEPT !.pc = pc].pc # "starting"
    BY RunOf DEF Run
  <2> QED
    BY Zenon, <2>1, <2>2 DEF Proceeds, SysInv, WorkerTypeOK
<1> QED
  BY Zenon, <1>1, <1>2, <1>3, FaultTyped DEF SysInv, WorkerTypeOK

LEMMA LeadershipFine ==
    ASSUME SysInv, LeadershipStep PROVE ViewTypeOK'
<1>1. ViewTypeOK
  BY DEF SysInv
<1>2. ASSUME NEW n \in Node, StartNode(n) \/ Detect(n) PROVE ViewTypeOK'
  BY <1>1, <1>2 DEF ViewTypeOK, StartNode, Detect
<1>3. ASSUME NEW n \in Node, Elect(n) \/ Handover(n) PROVE ViewTypeOK'
  <2>1. leader' \in [Node -> Node \cup {NoLeader}]
    BY <1>1, <1>3 DEF ViewTypeOK, Elect, Handover
  <2>2. budget' \in [crashes : 0..MaxCrashes, handovers : 0..MaxHandovers, faults : 0..MaxFaults]
    BY <1>1, <1>3, NodeAssumption DEF ViewTypeOK, Elect, Handover
  <2> QED
    BY Zenon, <1>1, <1>3, <2>1, <2>2 DEF ViewTypeOK, Elect, Handover
<1> QED
  BY <1>2, <1>3 DEF LeadershipStep

LEMMA CrashFine ==
    ASSUME SysInv, NEW n \in Node, Crash(n)
    PROVE  ViewTypeOK' /\ SchedTypeOK' /\ WorkerTypeOK' /\ \A m \in Node : Fits(sched'[m], m)
<1>1. ViewTypeOK'
  BY NodeAssumption DEF SysInv, Crash, Die, ViewTypeOK
<1>2. sched' \in [Node -> SchedRecord] /\ \A m \in Node : Fits(sched'[m], m)
  BY Zenon, NewFits, BecomesFits DEF Crash, Becomes
<1>3. counter' \in [Node -> 0..(Cycle - 1)]
  BY SchedulerAssumption DEF SysInv, Crash, SchedTypeOK
<1>4. WorkerTypeOK'
  BY DEF SysInv, Crash, WorkerTypeOK
<1> QED
  BY Zenon, <1>1, <1>2, <1>3, <1>4 DEF SchedTypeOK, SchedRecord

LEMMA SysInit == SystemInit => SysInv
<1> SUFFICES ASSUME SystemInit PROVE SysInv
  OBVIOUS
<1>1. StoreInv /\ WorkerTypeOK
  BY StoreInitSound DEF SystemInit, WorkerInit, WorkerTypeOK
<1>2. ViewTypeOK
  BY NodeAssumption DEF SystemInit, ViewInit, ViewTypeOK
<1>3. sched \in [Node -> SchedRecord] /\ \A m \in Node : Fits(sched[m], m)
  BY NewFits DEF SystemInit, SchedInit
<1>4. counter \in [Node -> 0..(Cycle - 1)]
  BY SchedulerAssumption DEF SystemInit, SchedInit
<1> QED
  BY Zenon, <1>1, <1>2, <1>3, <1>4 DEF SysInv, SchedTypeOK, SchedRecord

LEMMA SysStep == SysInv /\ [SystemNext]_systemVars => SysInv' /\ [StoreNext]_storeVars
<1> SUFFICES ASSUME SysInv, [SystemNext]_systemVars PROVE SysInv' /\ [StoreNext]_storeVars
  OBVIOUS
<1> DEFINE Good == /\ [StoreNext]_storeVars /\ ViewTypeOK' /\ SchedTypeOK' /\ WorkerTypeOK'
                   /\ \A m \in Node : Fits(sched'[m], m)
<1>0. UNCHANGED schedVars => SchedTypeOK' /\ \A m \in Node : Fits(sched'[m], m)
  BY DEF schedVars, SysInv, SchedTypeOK
<1>1. UNCHANGED viewVars => ViewTypeOK'
  BY FaultTyped DEF SysInv
<1>2. UNCHANGED runs => WorkerTypeOK'
  BY DEF SysInv, WorkerTypeOK
<1>3. ASSUME UNCHANGED systemVars PROVE Good
  BY Zenon, <1>0, <1>1, <1>2, <1>3 DEF systemVars
<1>4. ASSUME NEW n \in Node, Crash(n) PROVE Good
  BY Zenon, <1>4, CrashFine DEF Crash
<1>5. ASSUME NEW n \in Node, Scheduling(n) PROVE Good
  BY Zenon, <1>2, <1>5, SchedulerFine, AssignTaskFine DEF Scheduling, Fine
<1>6. ASSUME NEW t \in Task, SubmitTask(t) \/ Expire(t) PROVE Good
  BY Zenon, <1>0, <1>1, <1>2, <1>6 DEF SubmitTask, Expire, StoreNext
<1>7. ASSUME LeadershipStep PROVE Good
  BY Zenon, <1>0, <1>2, <1>7, LeadershipFine DEF LeadershipStep
<1>8. ASSUME Working PROVE Good
  BY <1>0, <1>8, WorkerFine DEF Working
<1>9. Good
  BY Zenon, <1>3, <1>4, <1>5, <1>6, <1>7, <1>8, <1>0, <1>1, <1>2 DEF SystemNext, systemVars
<1>10. StoreInv'
  BY <1>9, StoreNextSound DEF SysInv
<1> QED
  BY <1>9, <1>10 DEF SysInv

LEMMA SysAlways == SystemSpec => []SysInv
BY SysInit, SysStep, PTL DEF SystemSpec

\* Type correctness of the composed system, whatever crashes, fails or overlaps.
THEOREM SystemTyped == SystemSpec => []SystemTypeOK
<1>1. SysInv => SystemTypeOK
  BY DEF SysInv, SystemTypeOK, StoreInv
<1> QED
  BY <1>1, SysAlways, PTL

\* The schedulers and workers use the store as module TaskStore lets them, so that
\* all that is proved of it under any clients holds in the composed system.
THEOREM SystemImplementsStore == SystemSpec => StoreSpec
<1>1. SystemInit => StoreInit
  BY DEF SystemInit
<1> QED
  BY <1>1, SysAlways, SysStep, PTL DEF SystemSpec, StoreSpec

\* The composed system implements the life cycle of a task.
THEOREM SystemImplementsLifecycle == SystemSpec => ImplementsLifecycle
BY SystemImplementsStore, StoreImplementsLifecycle, PTL

\* What the schedulers and workers do to the shared store, whatever crashes, handovers in
\* mid-tick, faults and expiries: active tasks have a lease, finished ones have none and
\* stay finished, and no task is tried more often than its budget allows.
THEOREM SystemStoreSound ==
    SystemSpec => [](ActiveIsLeased /\ TerminalIsUnleased /\ RetryBudget) /\ TerminalIsFinal
BY SystemImplementsStore, LeasesProtect, FinishedUnleased, BudgetKept, FinishedStays, PTL

-----------------------------------------------------------------------------
(* One scheduler at a time.                                                 *)

\* A step of a scheduler changes its own locals, and begins a tick as leader only.
LEMMA SchedulingMoves ==
    ASSUME SysInv, NEW n \in Node, Scheduling(n)
    PROVE  /\ n \in up /\ UNCHANGED <<up, known, leader>>
           /\ \A m \in Node \ {n} : sched'[m] = sched[m] /\ counter'[m] = counter[m]
           /\ sched[n].pc # "idle" \/ IsLeader(n) \/ sched'[n].pc = "idle"
<1>1. n \in up
  BY SMTT(30) DEF Scheduling, SchedulerStep, AssignTask, At, tick, recoverStale, recoverDead, recoverExpired, freeWorkers,
         claim, assign, dispatched, dispatchFailed, workerLost
<1>2. UNCHANGED <<up, known, leader>>
  BY DEF Scheduling, SchedulerStep, AssignTask, tick, recoverStale, recoverDead, recoverExpired, freeWorkers,
         claim, assign, dispatched, dispatchFailed, workerLost, Fails, Fault, viewVars
<1>3. \A m \in Node \ {n} : sched'[m] = sched[m] /\ counter'[m] = counter[m]
  <2>1. sched \in [Node -> SchedRecord] /\ counter \in [Node -> 0..(Cycle - 1)]
    BY DEF SysInv, SchedTypeOK, SchedRecord
  <2> QED
    BY <2>1
       DEF Scheduling, SchedulerStep, AssignTask, tick, recoverStale, recoverDead, recoverExpired, freeWorkers,
           claim, assign, dispatched, dispatchFailed, workerLost, Becomes, GoTo
<1>4. ASSUME sched[n].pc = "idle", ~IsLeader(n) PROVE sched'[n].pc = "idle"
  <2>1. Becomes(n, [sched[n] EXCEPT !.recovered = FALSE])
    BY <1>4 DEF Scheduling, SchedulerStep, AssignTask, At, tick, recoverStale, recoverDead, recoverExpired,
                freeWorkers, claim, assign, dispatched, dispatchFailed, workerLost
  <2>2. sched[n] \in SchedRecord /\ sched \in [Node -> SchedRecord]
    BY SchedOf DEF SysInv, SchedTypeOK, SchedRecord
  <2> QED
    BY Zenon, <1>4, <2>1, <2>2 DEF Becomes, SchedRecord
<1> QED
  BY Zenon, <1>1, <1>2, <1>3, <1>4

LEMMA LeaderInit == SystemInit => LeaderInv
<1> SUFFICES ASSUME SystemInit PROVE LeaderInv
  OBVIOUS
<1>1. PICK l \in Node : ViewInit(l)
  BY DEF SystemInit
<1>2. \A n \in Node : sched[n] = NewScheduler /\ sched[n].pc = "idle"
  BY DEF SystemInit, SchedInit, NewScheduler
<1>3. \A n \in Node : leader[n] = IF n <= l THEN l ELSE NoLeader
  BY <1>1 DEF ViewInit
<1> QED
  BY Zenon, <1>1, <1>2, <1>3, NodeAssumption DEF ViewInit, LeaderInv, IsLeader

LEMMA LeaderStep == SysInv /\ ~Overlap /\ LeaderInv /\ [SystemNext]_systemVars => LeaderInv'
<1> SUFFICES ASSUME SysInv, ~Overlap, LeaderInv, [SystemNext]_systemVars PROVE LeaderInv'
  OBVIOUS
<1>0. \A n \in Node : n # NoLeader
  BY NodeAssumption
<1>1. ASSUME UNCHANGED <<up, leader, sched>> PROVE LeaderInv'
  BY <1>1 DEF LeaderInv, IsLeader
<1>2. ASSUME NEW n \in Node, Crash(n) PROVE LeaderInv'
  <2>1. /\ up' = up \ {n} /\ leader'[n] = NoLeader /\ sched'[n] = NewScheduler /\ NewScheduler.pc = "idle"
        /\ \A m \in Node \ {n} : leader'[m] = leader[m] /\ sched'[m] = sched[m]
    BY <1>2 DEF Crash, Die, SysInv, ViewTypeOK, SchedTypeOK, NewScheduler
  <2> QED
    BY <1>0, <2>1 DEF LeaderInv, IsLeader
<1>3. ASSUME NEW n \in Node, Scheduling(n) PROVE LeaderInv'
  BY <1>3, SchedulingMoves DEF LeaderInv, IsLeader
<1>4. ASSUME NEW n \in Node, StartNode(n), UNCHANGED schedVars PROVE LeaderInv'
  BY <1>4 DEF StartNode, LeaderInv, IsLeader, schedVars
<1>5. ASSUME NEW n \in Node, Detect(n), UNCHANGED schedVars PROVE LeaderInv'
  <2>1. /\ up' = up /\ sched' = sched /\ n \notin up
        /\ \A m \in Node : leader'[m] = IF leader[m] = n THEN NoLeader ELSE leader[m]
    BY <1>5 DEF Detect, schedVars
  <2>2. leader[n] = NoLeader
    BY <2>1 DEF LeaderInv
  <2> QED
    BY <1>0, <2>1, <2>2 DEF LeaderInv, IsLeader
<1>6. ASSUME NEW l \in Node, TicksOver(l), Elect(l) \/ Handover(l), UNCHANGED schedVars PROVE LeaderInv'
  <2>1. /\ up' = up /\ sched' = sched /\ l \in up
        /\ \A n \in Node : leader'[n] = IF n \in up THEN l ELSE leader[n]
    BY <1>6 DEF Elect, Handover, schedVars
  <2>2. \A n \in Node : sched[n].pc # "idle" => n \in up
    BY DEF LeaderInv, NewScheduler
  <2>3. \A n \in Node : sched[n].pc # "idle" => n = l
    BY <1>6, <2>2 DEF TicksOver
  <2> QED
    BY <1>0, <2>1, <2>3 DEF LeaderInv, IsLeader
<1>7. CASE LeadershipStep
  BY Zenon, <1>4, <1>5, <1>6, <1>7 DEF LeadershipStep
<1>8. CASE Working
  <2>1. UNCHANGED <<up, leader, sched>>
    BY <1>8, WorkerFine DEF Working, schedVars
  <2> QED
    BY <1>1, <2>1
<1>9. ASSUME NEW t \in Task, SubmitTask(t) \/ Expire(t) PROVE LeaderInv'
  BY <1>1, <1>9 DEF SubmitTask, Expire, viewVars, schedVars
<1>10. CASE UNCHANGED systemVars
  BY <1>1, <1>10 DEF systemVars, viewVars, schedVars
<1> QED
  BY Zenon, <1>2, <1>3, <1>7, <1>8, <1>9, <1>10 DEF SystemNext

\* A node that acts as leader is not handed a task, while leaders change more slowly
\* than the schedulers tick.
THEOREM LeaderNeverAssigned ==
    ASSUME ~Overlap PROVE SystemSpec => LeaderNotAssigned
<1>1. SysInv /\ LeaderInv /\ [SystemNext]_systemVars =>
        [\A r \in runs' \ runs : r.pc = "starting" => ~IsLeader(r.node)]_systemVars
  <2> SUFFICES ASSUME SysInv, LeaderInv, SystemNext, NEW r \in runs' \ runs, r.pc = "starting"
               PROVE  ~IsLeader(r.node)
    OBVIOUS
  <2>1. ASSUME NEW n \in Node, AssignTask(n) PROVE ~IsLeader(r.node)
    <3>1. sched[n].pc = "call" /\ sched[n].worker \in Node /\ sched[n].worker # n
      BY <2>1, CallFits
    <3>2. IsLeader(n) /\ ~IsLeader(sched[n].worker)
      BY <3>1 DEF LeaderInv
    <3>3. r.node = sched[n].worker
      BY <2>1 DEF AssignTask, HandleAssignment
    <3> QED
      BY <3>2, <3>3
  <2>2. CASE Working
    BY <2>2, WorkerFine DEF Working
  <2>3. CASE runs' \subseteq runs
    BY <2>3
  <2> QED
    BY <2>1, <2>2, <2>3 DEF SystemNext, Crash, Scheduling, SubmitTask, Expire, LeadershipStep
<1>2. SysInv /\ LeaderInv /\ [SystemNext]_systemVars => LeaderInv'
  BY LeaderStep
<1> QED
  BY <1>1, <1>2, LeaderInit, SysAlways, PTL DEF SystemSpec, LeaderNotAssigned
=============================================================================
