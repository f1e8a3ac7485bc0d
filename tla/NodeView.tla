------------------------------ MODULE NodeView ------------------------------
(***************************************************************************)
(* What the scheduler and the worker of a node see of the rest of the      *)
(* system: which processes run, the members of the cluster, and the result *)
(* of the election.  Module Election has the protocol behind `leader`;     *)
(* here a leader is lost when its death is noticed and another is found.   *)
(* The nodes share one view of the membership.                             *)
(***************************************************************************)
EXTENDS Naturals

CONSTANTS
    Node,           \* NODE_IDs
    MaxCrashes,     \* bound: crashes of nodes
    MaxHandovers,   \* bound: changes of the leader while the old one runs
    MaxFaults       \* bound: failures of the database or of an RPC

NoLeader == 0

ASSUME NodeAssumption ==
    /\ Node \subseteq Nat \ {NoLeader}
    /\ MaxCrashes \in Nat /\ MaxHandovers \in Nat /\ MaxFaults \in Nat

VARIABLES
    up,        \* the running processes
    known,     \* cluster.Members()
    leader,    \* election.CurrentLeader() of each node
    budget     \* how many crashes, handovers and faults happened

viewVars == <<up, known, leader, budget>>

ViewTypeOK ==
    /\ up \subseteq Node
    /\ known \subseteq Node
    /\ leader \in [Node -> Node \cup {NoLeader}]
    /\ budget \in [crashes : 0..MaxCrashes, handovers : 0..MaxHandovers, faults : 0..MaxFaults]

\* A settled cluster: the nodes up to l have been started and follow l.
ViewInit(l) ==
    /\ up = {n \in Node : n <= l} /\ known = up
    /\ leader = [n \in Node |-> IF n <= l THEN l ELSE NoLeader]
    /\ budget = [crashes |-> 0, handovers |-> 0, faults |-> 0]

IsLeader(n) == leader[n] = n

\* leaderAddr: a node that is the leader does not call itself.
HasLeaderAddr(n) == leader[n] # NoLeader /\ ~IsLeader(n) /\ leader[n] \in known

-----------------------------------------------------------------------------
Die(n) ==
    /\ n \in up /\ budget.crashes < MaxCrashes
    /\ up' = up \ {n}
    /\ leader' = [leader EXCEPT ![n] = NoLeader]
    /\ budget' = [budget EXCEPT !.crashes = @ + 1]
    /\ UNCHANGED known

\* The process is started, or started again, noticed as dead before or not.
StartNode(n) ==
    /\ n \notin up
    /\ up' = up \cup {n} /\ known' = known \cup {n}
    /\ UNCHANGED <<leader, budget>>

\* Memberlist declares n dead: NotifyLeave, and handleNodeLost clears the leader.
Detect(n) ==
    /\ n \notin up /\ n \in known
    /\ known' = known \ {n}
    /\ leader' = [m \in Node |-> IF leader[m] = n THEN NoLeader ELSE leader[m]]
    /\ UNCHANGED <<up, budget>>

ActingLeaders == {n \in up : IsLeader(n)}

\* Nobody who runs acts as leader, or the leader there is becomes known to all.
\* Which node is elected is left open: it need not be the highest (SettledOneLeader of
\* module Election).
Elect(l) ==
    /\ l \in up /\ l \in known /\ ActingLeaders \subseteq {l}
    /\ \E n \in up : leader[n] # l
    /\ leader' = [n \in Node |-> IF n \in up THEN l ELSE leader[n]]
    /\ UNCHANGED <<up, known, budget>>

\* A higher node has joined and takes over from a leader that runs.
Handover(l) ==
    /\ l \in up /\ l \in known
    /\ ActingLeaders # {} /\ \A n \in ActingLeaders : n < l
    /\ budget.handovers < MaxHandovers
    /\ leader' = [n \in Node |-> IF n \in up THEN l ELSE leader[n]]
    /\ budget' = [budget EXCEPT !.handovers = @ + 1]
    /\ UNCHANGED <<up, known>>

\* One call of the database or of another node fails.
Fault ==
    /\ budget.faults < MaxFaults
    /\ budget' = [budget EXCEPT !.faults = @ + 1]
    /\ UNCHANGED <<up, known, leader>>
=============================================================================
