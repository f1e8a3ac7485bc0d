----------------------------- MODULE MCElection -----------------------------
(* Instances of Election for TLC: the cfg files give the constants. *)
EXTENDS Election

(* The cluster after the highest node started alone and the others, one by  *)
(* one, were told of it: every node follows it in term 1.  Its announcement *)
(* to itself is still in its internalC, where nobody waits.                 *)
Top == CHOOSE n \in Node : \A m \in Node : n >= m

SettledInit ==
    /\ up = [n \in Node |-> TRUE]
    /\ st = [n \in Node |-> SetLeader(Top, 1)]
    /\ members = [n \in Node |-> Node]
    /\ eventC = [n \in Node |-> <<>>]
    /\ electC = [n \in Node |-> FALSE]
    /\ internalC = [n \in Node |-> IF n = Top THEN signalCoordinator(<<>>, 1) ELSE <<>>]
    /\ starts = [n \in Node |-> 0]
    /\ elections = [n \in Node |-> {}]
    /\ requests = {}
    /\ announces = {}
    /\ reannounce = {}
    /\ crashes = 0

SettledSpec == SettledInit /\ [][Next]_vars

(* Announcements that SetLeader refuses whenever they arrive: the receiver  *)
(* runs, cannot crash any more, and has seen a later term.  Their arrival   *)
(* changes nothing but announces and disables nothing, and nothing is       *)
(* settled before it: FailoverNext takes it at once, which leaves every     *)
(* settled state reachable and drops only the other places of it.           *)
Refused == {a \in announces : up[a.to] /\ a.term < st[a.to].term}

FailoverNext ==
    \/ /\ crashes = MaxCrashes /\ NodesIdle /\ Refused # {}
       /\ \E a \in Refused : OnAnnounceLeader(a)
    \/ /\ ~(crashes = MaxCrashes /\ NodesIdle /\ Refused # {})
       /\ Next

FailoverSpec == SettledInit /\ [][FailoverNext]_vars
=============================================================================
