--------------------------- MODULE ElectionProofs ---------------------------
(***************************************************************************)
(* The theorems about Election, and what agreement at rest needs on a      *)
(* reliable network: before the first crash, and after any number of       *)
(* crashes and restarts as long as no node joins in the middle of          *)
(* somebody's sendToHigher.                                                *)
(***************************************************************************)
EXTENDS ElectionInvariants

-----------------------------------------------------------------------------
(* The membership events of a node, and the start of one.                   *)

Joining(n, m) == InQueue(eventC[n], [type |-> "join", id |-> m])

LEMMA IndCoherent == IndInv => Coherent
BY Zenon DEF IndInv, GoodNode, Good, Coherent, ElectionsSeparated

LEMMA Idle ==
    ASSUME TypeOK, NodesIdle, NEW n \in Node, up[n]
    PROVE  /\ ~Beginning(n)
           /\ \A m : ~Joining(n, m) /\ ~Leaving(n, m)
<1>1. eventC[n] = <<>> /\ ~(starts[n] > 0)
  BY Zenon DEF NodesIdle, Working
<1>2. \A x : ~InQueue(eventC[n], x)
  BY <1>1 DEF InQueue
<1> QED
  BY Zenon, <1>1, <1>2 DEF Beginning, Joining, Leaving

LEMMA Starting ==
    ASSUME TypeOK, Synchronous, EventCap > 0, NEW m \in Node, Start(m)
    PROVE  /\ NodesIdle /\ SentBy(m) = {} /\ ~up[m]
           /\ Beginning(m)' /\ st'[m].leader = NoLeader
           /\ \A n \in Node \ {m} : up'[n] = up[n] /\ st'[n] = st[n]
           /\ \A n \in Node : up[n] /\ m \notin members[n] => Joining(n, m)'
<1>1. PICK S \in IF Synchronous THEN {{n \in Node \ {m} : up[n]}} ELSE SUBSET {n \in Node \ {m} : up[n]} :
          \E q \in Orders(S) :
            eventC' = [n \in Node |->
               IF n = m THEN JoinEvents(q)
               ELSE IF n \in S /\ m \notin members[n]
               THEN Offer(eventC[n], EventCap, [type |-> "join", id |-> m])
               ELSE eventC[n]]
  BY Zenon DEF Start
<1>2. /\ NodesIdle /\ SentBy(m) = {} /\ ~up[m]
      /\ up' = [up EXCEPT ![m] = TRUE] /\ st' = [st EXCEPT ![m] = NewState]
      /\ starts' = [starts EXCEPT ![m] = 1]
  BY Zenon DEF Start
<1>3. Beginning(m)' /\ st'[m].leader = NoLeader
  <2>1. st'[m] = NewState /\ starts'[m] = 1
    BY Zenon, <1>2 DEF TypeOK
  <2> QED
    BY <2>1 DEF Beginning, NewState, InElection, PhaseIdle, PhaseElecting, PhaseWaitingCoordinator
<1>4. \A n \in Node \ {m} : up'[n] = up[n] /\ st'[n] = st[n]
  BY Zenon, <1>2 DEF TypeOK
<1>5. ASSUME NEW n \in Node, up[n], m \notin members[n]
      PROVE  Joining(n, m)'
  <2>1. n # m /\ n \in S
    BY Zenon, <1>1, <1>2, <1>5
  <2>2. eventC'[n] = Offer(eventC[n], EventCap, [type |-> "join", id |-> m])
    BY Zenon, <1>1, <1>5, <2>1
  <2>3. eventC[n] = <<>>
    BY Zenon, <1>2, <1>5 DEF NodesIdle, Working
  <2> QED
    BY Zenon, <2>2, <2>3, QueueFirst DEF Joining
<1> QED
  BY Zenon, <1>2, <1>3, <1>4, <1>5

\* A join event stays in the queue until handleNodeJoined takes it.
LEMMA JoiningMoves ==
    ASSUME TypeOK, [Next]_vars, NEW n \in Node, up[n], up'[n], NEW m \in Node, Joining(n, m)
    PROVE  \/ Joining(n, m)'
           \/ handleNodeJoined(n) /\ Head(eventC[n]).id = m
<1> DEFINE ev == [type |-> "join", id |-> m]
<1>0. eventC[n] \in EventQueue /\ InQueue(eventC[n], ev)
  BY Zenon DEF TypeOK, Joining
<1>1. ASSUME NEW l \in Node, NEW t \in {"join", "leave"},
             eventC'[n] = Offer(eventC[n], EventCap, [type |-> t, id |-> l])
      PROVE  Joining(n, m)'
  <2>1. [type |-> t, id |-> l] \in ClusterEvent
    BY DEF ClusterEvent
  <2> QED
    BY Zenon, <1>0, <1>1, <2>1, QueueOffer DEF Joining
<1>2. ASSUME eventC[n] # <<>>, eventC'[n] = Tail(eventC[n]), Head(eventC[n]) # ev
      PROVE  Joining(n, m)'
  BY Zenon, <1>0, <1>2, QueueTail DEF Joining
<1>3. ASSUME Head(eventC[n]) = ev, handleNodeJoined(n) \/ handleNodeLost(n)
      PROVE  handleNodeJoined(n) /\ Head(eventC[n]).id = m
  <2>1. Head(eventC[n]).id = m /\ Head(eventC[n]).type = "join" /\ "join" # "leave"
    BY <1>3
  <2> QED
    BY Zenon, <1>3, <2>1 DEF handleNodeLost
<1>4. CASE eventC'[n] = eventC[n]
  BY Zenon, <1>0, <1>4 DEF Joining
<1> HIDE DEF ev
<1> QED
  BY Zenon, <1>1, <1>2, <1>3, <1>4, EventMoves

-----------------------------------------------------------------------------
(* The invariant: leaders and messages point upwards, nobody knows a later  *)
(* term of a leader than the leader itself, and whatever keeps a node from  *)
(* following the highest one is still to be dealt with.                     *)

Upward ==
    /\ \A n \in Node : up[n] /\ st[n].leader # NoLeader => st[n].leader >= n
    /\ \A a \in announces : up[a.to] => a.leader >= a.to
    /\ \A r \in requests : r.to > r.from
    /\ \A r \in reannounce : r.from > r.to

TermsKnown ==
    /\ \A n, l \in Node : up[n] /\ up[l] /\ st[n].leader = l => st[n].term <= st[l].term
    /\ \A a \in announces : up[a.leader] => a.term <= st[a.leader].term

\* A node that leads itself under a higher node has an election coming, and its
\* announcement to itself changes nothing.
SelfMade ==
    /\ \A n, m \in Node : up[n] /\ up[m] /\ m > n /\ st[n].leader = n =>
          Beginning(n) \/ Joining(n, m)
    /\ \A a \in announces : up[a.to] /\ a.leader = a.to =>
          \/ a.term < st[a.to].term
          \/ a.term = st[a.to].term /\ st[a.to].leader >= a.to
          \/ Beginning(a.to)

\* The lower node n follows h, or one as good, or will hear of h or ask it.
Told(h, n) ==
    \/ st[n].term > st[h].term
    \/ st[n].term = st[h].term /\ st[n].leader >= h
    \/ [to |-> n, leader |-> h, term |-> st[h].term] \in announces
    \/ [from |-> h, to |-> n] \in reannounce
    \/ Asking(n, h)
    \/ Beginning(n)

AllTold == \A h, n \in Node : up[h] /\ up[n] /\ n < h /\ st[h].leader = h => Told(h, n)

TopInv == Upward /\ TermsKnown /\ SelfMade /\ AllTold

(* It is kept by steps in which no election is won under a higher node and  *)
(* a node that starts is unknown to the others.                             *)

OnlyTopDeclares ==
    \A n \in Node : up[n] => \A e \in elections[n] :
        e.pc = "declaring" => \A m \in Node : up[m] => m <= n

FreshStarts ==
    \A n \in Node : ~up[n] /\ up'[n] =>
        /\ \A m \in Node : up[m] => n \notin members[m]
        /\ \A a \in announces : a.to # n

TopStep ==
    /\ Synchronous /\ EventCap > 0
    /\ IndInv /\ IndInv' /\ FollowInv /\ TopInv /\ OnlyTopDeclares
    /\ [Next]_vars /\ FreshStarts

\* The node that starts is nobody's leader and has nothing under way.
LEMMA FreshNode ==
    ASSUME TopStep, NEW m \in Node, ~up[m], up'[m]
    PROVE  /\ Start(m) /\ Beginning(m)' /\ st'[m].leader = NoLeader
           /\ \A n \in Node : up[n] => st[n].leader # m /\ Joining(n, m)'
           /\ \A n \in Node \ {m} : up'[n] = up[n] /\ st'[n] = st[n]
           /\ \A a \in announces : a.leader # m /\ a.to # m
<1>1. TypeOK /\ Synchronous /\ EventCap > 0 /\ [Next]_vars
  BY Zenon DEF TopStep, IndInv
<1>2. Start(m)
  BY Zenon, <1>1, UpMoves
<1>3. /\ \A n \in Node : up[n] => m \notin members[n]
      /\ \A a \in announces : a.to # m
  BY Zenon DEF TopStep, FreshStarts
<1>4. /\ NodesIdle /\ SentBy(m) = {} /\ Beginning(m)' /\ st'[m].leader = NoLeader
      /\ \A n \in Node \ {m} : up'[n] = up[n] /\ st'[n] = st[n]
      /\ \A n \in Node : up[n] /\ m \notin members[n] => Joining(n, m)'
  BY Zenon, <1>1, <1>2, Starting
<1>5. ASSUME NEW n \in Node, up[n]
      PROVE  st[n].leader # m
  <2>1. ~Leaving(n, m)
    BY Zenon, <1>1, <1>4, <1>5, Idle
  <2>2. m # NoLeader
    BY Zenon, Ids
  <2>3. FollowInv
    BY Zenon DEF TopStep
  <2> QED
    BY Zenon, <1>3, <1>5, <2>1, <2>2, <2>3 DEF FollowInv
<1>6. \A a \in announces : a.leader # m
  BY Zenon, <1>4 DEF SentBy
<1> QED
  BY Zenon, <1>2, <1>3, <1>4, <1>5, <1>6

LEMMA TermsGrow ==
    ASSUME TopStep, NEW n \in Node, up[n], up'[n]
    PROVE  st'[n].term \in Nat /\ st[n].term \in Nat /\ st[n].term <= st'[n].term
<1>1. IndInv /\ TypeOK /\ TypeOK' /\ [Next]_vars
  BY Zenon DEF TopStep, IndInv
<1>2. Forward(st[n], st'[n])
  BY Zenon, <1>1, NextForward
<1>3. st[n].term \in Nat /\ st'[n].term \in Nat
  BY <1>1 DEF TypeOK, NodeState
<1> QED
  BY <1>2, <1>3 DEF Forward

\* A node comes to lead itself by declareLeader only.
LEMMA SelfMoves ==
    ASSUME TopStep, NEW n \in Node, up[n], up'[n], st'[n].leader = n
    PROVE  \/ st[n].leader = n /\ st'[n].term = st[n].term
           \/ \E e \in elections[n] : declareLeader(n, e) /\ Adopts(n, n, e.term)
<1>1. Coherent /\ TypeOK /\ [Next]_vars /\ Synchronous /\ SelfMade
  BY Zenon, IndCoherent DEF TopStep, IndInv, TopInv
<1>2. n \in Nat /\ n > 0 /\ n # NoLeader
  BY Zenon, Ids
<1>3. ASSUME NEW a \in announces, a.to = n, OnAnnounceLeader(a), Adopts(n, a.leader, a.term)
      PROVE  st[n].leader = n /\ st'[n].term = st[n].term
  <2>1. a.leader \in Node /\ a.term \in Nat /\ st[n].term \in Nat /\ st[n].leader \in Nat
    BY Zenon, <1>1, MessageFields, StateFields
  <2>2. /\ st'[n].leader = a.leader /\ st'[n].term = a.term
        /\ \/ a.term > st[n].term
           \/ a.term = st[n].term /\ a.leader >= st[n].leader
    BY Zenon, <1>1, <1>3, <2>1, Adoption
  <2>3. a.leader = a.to
    BY Zenon, <1>3, <2>2
  <2>4. ~Beginning(n)
    <3>1. NodesIdle
      BY Zenon, <1>1, <1>3 DEF OnAnnounceLeader
    <3> QED
      BY Zenon, <1>1, <3>1, Idle
  <2>5. \/ a.term < st[n].term
        \/ a.term = st[n].term /\ st[n].leader >= n
    BY Zenon, <1>1, <1>3, <2>3, <2>4 DEF SelfMade
  <2> QED
    BY <1>2, <1>3, <2>1, <2>2, <2>3, <2>5
<1> QED
  BY Zenon, <1>1, <1>2, <1>3, StateMoves

LEMMA UpwardNext ==
    ASSUME TopStep
    PROVE  Upward'
<1>1. Coherent /\ TypeOK /\ TypeOK' /\ [Next]_vars /\ Upward
  BY Zenon, IndCoherent DEF TopStep, IndInv, TopInv
<1>2. ASSUME NEW n \in Node, up'[n], st'[n].leader # NoLeader
      PROVE  st'[n].leader >= n
  <2>1. up[n]
    BY Zenon, <1>2, FreshNode
  <2>2. CASE st'[n].leader = st[n].leader
    BY Zenon, <1>1, <1>2, <2>1, <2>2 DEF Upward
  <2>3. ASSUME NEW a \in announces, a.to = n, Adopts(n, a.leader, a.term)
        PROVE  st'[n].leader >= n
    <3>1. a.leader \in Node /\ a.term \in Nat
      BY Zenon, <1>1, MessageFields
    <3>2. st'[n].leader = a.leader
      BY Zenon, <1>1, <2>3, <3>1, Adoption
    <3> QED
      BY Zenon, <1>1, <2>1, <2>3, <3>2 DEF Upward
  <2>4. ASSUME NEW e \in elections[n], Adopts(n, n, e.term)
        PROVE  st'[n].leader >= n
    <3>1. e.term \in Nat /\ n \in Nat
      BY <1>1, Ids DEF TypeOK, ElectionRun
    <3>2. st'[n].leader = n
      BY Zenon, <1>1, <2>4, <3>1, Adoption
    <3> QED
      BY <3>1, <3>2
  <2> QED
    BY Zenon, <1>1, <1>2, <2>1, <2>2, <2>3, <2>4, StateMoves
<1>3. ASSUME NEW a \in announces', up'[a.to]
      PROVE  a.leader >= a.to
  <2>0. a.to \in Node /\ a.leader \in Node
    <3>1. announces' \subseteq Announcement
      BY Zenon, <1>1 DEF TypeOK
    <3> QED
      BY <3>1 DEF Announcement
  <2>1. CASE a \in announces
    <3>1. up[a.to]
      BY Zenon, <1>3, <2>0, <2>1, FreshNode
    <3> QED
      BY Zenon, <1>1, <2>1, <3>1 DEF Upward
  <2>2. CASE a \notin announces
    <3>1. ASSUME NEW n \in Node, NEW e \in elections[n], declareLeader(n, e), UNCHANGED up, a.leader = n
          PROVE  a.leader >= a.to
      <4>1. OnlyTopDeclares /\ up[a.to]
        BY Zenon, <1>3, <3>1 DEF TopStep
      <4>2. a.to <= n
        BY Zenon, <2>0, <3>1, <4>1 DEF OnlyTopDeclares, declareLeader
      <4> QED
        BY <2>0, <3>1, <4>2, Ids
    <3>2. ASSUME NEW r \in reannounce, a.to = r.to, a.leader = r.from
          PROVE  a.leader >= a.to
      <4>1. r.from > r.to
        BY Zenon, <1>1 DEF Upward
      <4> QED
        BY <2>0, <3>2, <4>1, Ids
    <3> QED
      BY Zenon, <1>1, <2>2, <3>1, <3>2, AnnounceOrigins
  <2> QED
    BY <2>1, <2>2
<1>4. ASSUME NEW r \in requests'
      PROVE  r.to > r.from
  <2>1. ASSUME NEW q \in requests, r.from = q.from, r.to = q.to
        PROVE  r.to > r.from
    BY Zenon, <1>1, <2>1 DEF Upward
  <2> QED
    BY Zenon, <1>1, <2>1, RequestOrigins
<1>5. ASSUME NEW r \in reannounce'
      PROVE  r.from > r.to
  <2>1. ASSUME NEW q \in requests, r.from = q.to, r.to = q.from
        PROVE  r.from > r.to
    BY Zenon, <1>1, <2>1 DEF Upward
  <2> QED
    BY Zenon, <1>1, <2>1, ReannounceOrigins DEF Upward
<1> QED
  BY Zenon, <1>2, <1>3, <1>4, <1>5 DEF Upward

LEMMA TermsKnownNext ==
    ASSUME TopStep
    PROVE  TermsKnown'
<1>1. Coherent /\ TypeOK /\ TypeOK' /\ [Next]_vars /\ TermsKnown
  BY Zenon, IndCoherent DEF TopStep, IndInv, TopInv
<1>2. ASSUME NEW n \in Node, NEW l \in Node, up'[n], up'[l], st'[n].leader = l
      PROVE  st'[n].term <= st'[l].term
  <2>0. l # NoLeader
    BY Zenon, Ids
  <2>1. up[n]
    BY Zenon, <1>2, <2>0, FreshNode
  <2>2. CASE n = l
    <3>1. st'[n].term \in Nat
      BY Zenon, <1>2, <2>1, TermsGrow
    <3> QED
      BY <2>2, <3>1
  <2>3. CASE n # l
    <3>1. up[l]
      <4> SUFFICES ASSUME ~up[l]
                   PROVE  FALSE
        OBVIOUS
      <4>1. st'[n] = st[n] /\ st[n].leader # l
        BY Zenon, <1>2, <2>1, <2>3, FreshNode
      <4> QED
        BY Zenon, <1>2, <4>1
    <3>2. st[l].term \in Nat /\ st'[l].term \in Nat /\ st[l].term <= st'[l].term /\ st'[n].term \in Nat
      BY Zenon, <1>2, <2>1, <3>1, TermsGrow
    <3>3. st'[n].term <= st[l].term
      <4>1. CASE st'[n].leader = st[n].leader /\ st'[n].term = st[n].term
        BY Zenon, <1>1, <1>2, <2>1, <3>1, <4>1 DEF TermsKnown
      <4>2. ASSUME NEW a \in announces, a.to = n, Adopts(n, a.leader, a.term)
            PROVE  st'[n].term <= st[l].term
        <5>1. a.leader \in Node /\ a.term \in Nat
          BY Zenon, <1>1, MessageFields
        <5>2. st'[n].leader = a.leader /\ st'[n].term = a.term
          BY Zenon, <1>1, <4>2, <5>1, Adoption
        <5> QED
          BY Zenon, <1>1, <1>2, <3>1, <5>2 DEF TermsKnown
      <4>3. ASSUME NEW e \in elections[n], Adopts(n, n, e.term)
            PROVE  FALSE
        <5>1. e.term \in Nat
          BY <1>1 DEF TypeOK, ElectionRun
        <5> QED
          BY Zenon, <1>1, <1>2, <2>3, <4>3, <5>1, Adoption
      <4> QED
        BY Zenon, <1>1, <1>2, <2>0, <2>1, <4>1, <4>2, <4>3, StateMoves
    <3> QED
      BY <3>2, <3>3
  <2> QED
    BY <2>2, <2>3
<1>3. ASSUME NEW a \in announces', up'[a.leader]
      PROVE  a.term <= st'[a.leader].term
  <2>0. a.term \in Nat /\ a.leader \in Node
    <3>1. announces' \subseteq Announcement
      BY Zenon, <1>1 DEF TypeOK
    <3> QED
      BY <3>1 DEF Announcement
  <2>1. CASE a \in announces
    <3>1. up[a.leader]
      BY Zenon, <1>3, <2>0, <2>1, FreshNode
    <3>2. a.term <= st[a.leader].term
      BY Zenon, <1>1, <2>1, <3>1 DEF TermsKnown
    <3>3. /\ st[a.leader].term \in Nat /\ st'[a.leader].term \in Nat
          /\ st[a.leader].term <= st'[a.leader].term
      BY Zenon, <1>3, <2>0, <3>1, TermsGrow
    <3> QED
      BY <2>0, <3>2, <3>3
  <2>2. CASE a \notin announces
    <3>1. ASSUME NEW n \in Node, NEW e \in elections[n], Adopts(n, n, e.term), a.leader = n, a.term = e.term
          PROVE  a.term = st'[a.leader].term
      BY Zenon, <1>1, <2>0, <3>1, Adoption
    <3>2. ASSUME NEW r \in reannounce, UNCHANGED <<up, st>>, a.leader = r.from, a.term = st[r.from].term
          PROVE  a.term = st'[a.leader].term
      BY Zenon, <3>2
    <3>3. a.term = st'[a.leader].term
      BY Zenon, <1>1, <2>2, <3>1, <3>2, AnnounceOrigins
    <3> QED
      BY <2>0, <3>3
  <2> QED
    BY <2>1, <2>2
<1> QED
  BY Zenon, <1>2, <1>3 DEF TermsKnown

\* A join event of a higher node leads to an election.
LEMMA JoinBegins ==
    ASSUME TopStep, NEW n \in Node, NEW m \in Node, m > n, st[n].leader = n,
           handleNodeJoined(n), Head(eventC[n]).id = m
    PROVE  Beginning(n)'
<1>1. TypeOK /\ st[n].leader # NoLeader /\ m # n
  BY Ids DEF TopStep, IndInv
<1>2. st'[n] = st[n] /\ starts' = [starts EXCEPT ![n] = @ + 1]
  BY Zenon, <1>1 DEF handleNodeJoined, JoinStartsElection
<1>3. starts'[n] > 0
  BY <1>1, <1>2 DEF TypeOK
<1>4. st[n].phase = PhaseLeader
  BY Zenon, <1>1 DEF TopStep, IndInv, GoodNode, Good
<1>5. ~InElection(st'[n])
  BY <1>2, <1>4 DEF InElection, PhaseLeader, PhaseElecting, PhaseWaitingCoordinator
<1> QED
  BY Zenon, <1>3, <1>5 DEF Beginning

LEMMA SelfMadeNext ==
    ASSUME TopStep
    PROVE  SelfMade'
<1>1. /\ Coherent /\ TypeOK /\ TypeOK' /\ [Next]_vars
      /\ Synchronous /\ SelfMade /\ TermsKnown /\ OnlyTopDeclares /\ Upward
  BY Zenon, IndCoherent DEF TopStep, IndInv, TopInv
<1>2. ASSUME NEW n \in Node, NEW m \in Node, up'[n], up'[m], m > n, st'[n].leader = n
      PROVE  Beginning(n)' \/ Joining(n, m)'
  <2>0. n # NoLeader /\ n # m /\ ~(m <= n)
    BY <1>2, Ids
  <2>1. up[n]
    BY Zenon, <1>2, <2>0, FreshNode
  <2>2. CASE ~up[m]
    BY Zenon, <1>2, <2>1, <2>2, FreshNode
  <2>3. CASE up[m]
    <3>1. ASSUME NEW e \in elections[n], declareLeader(n, e)
          PROVE  FALSE
      BY Zenon, <1>1, <2>0, <2>1, <2>3, <3>1 DEF OnlyTopDeclares, declareLeader
    <3>2. st[n].leader = n /\ st'[n].term = st[n].term
      BY Zenon, <1>2, <2>1, <3>1, SelfMoves
    <3>3. Beginning(n) \/ Joining(n, m)
      BY Zenon, <1>1, <1>2, <2>1, <2>3, <3>2 DEF SelfMade
    <3>4. ~(st'[n].term > st[n].term)
      BY <1>1, <3>2 DEF TypeOK, NodeState
    <3>5. CASE Beginning(n)
      BY Zenon, <1>1, <1>2, <2>1, <3>4, <3>5, BeginMoves
    <3>6. CASE Joining(n, m)
      BY Zenon, <1>1, <1>2, <2>1, <3>2, <3>6, JoiningMoves, JoinBegins
    <3> QED
      BY Zenon, <3>3, <3>5, <3>6
  <2> QED
    BY Zenon, <2>2, <2>3
<1>3. ASSUME NEW a \in announces', NEW n \in Node, a.to = n, a.leader = n, up'[n]
      PROVE  \/ a.term < st'[n].term
             \/ a.term = st'[n].term /\ st'[n].leader >= n
             \/ Beginning(n)'
  <2>0. a.term \in Nat /\ n \in Nat
    <3>1. announces' \subseteq Announcement
      BY Zenon, <1>1 DEF TypeOK
    <3> QED
      BY <3>1, Ids DEF Announcement
  <2>1. CASE a \in announces
    <3>1. up[n]
      BY Zenon, <1>3, <2>1, FreshNode
    <3>2. st[n].term \in Nat /\ st'[n].term \in Nat /\ st[n].term <= st'[n].term /\ st[n].leader \in Nat
      BY Zenon, <1>1, <1>3, <3>1, TermsGrow, StateFields
    <3>3. a.term <= st[n].term
      BY Zenon, <1>1, <1>3, <2>1, <3>1 DEF TermsKnown
    <3>4. \/ a.term < st[n].term
          \/ a.term = st[n].term /\ st[n].leader >= n
          \/ Beginning(n)
      BY Zenon, <1>1, <1>3, <2>1, <3>1 DEF SelfMade
    <3>5. CASE st'[n].term > st[n].term
      BY <2>0, <3>2, <3>3, <3>5
    <3>6. CASE Beginning(n)
      BY Zenon, <1>1, <1>3, <3>1, <3>5, <3>6, BeginMoves
    <3>7. CASE ~Beginning(n) /\ st'[n].leader = st[n].leader /\ st'[n].term = st[n].term
      BY Zenon, <3>4, <3>7
    <3>8. ASSUME NEW l \in Node, NEW t \in Nat, Adopts(n, l, t), ~Beginning(n)
          PROVE  \/ a.term < st'[n].term
                 \/ a.term = st'[n].term /\ st'[n].leader >= n
      <4>1. /\ st'[n].leader = l /\ st'[n].term = t
            /\ \/ t > st[n].term
               \/ t = st[n].term /\ l >= st[n].leader
        BY Zenon, <1>1, <3>8, Adoption
      <4>2. l \in Nat
        BY Ids
      <4>3. \/ a.term < st[n].term
            \/ a.term = st[n].term /\ st[n].leader >= n
        BY Zenon, <3>4, <3>8
      <4> QED
        BY <2>0, <3>2, <4>1, <4>2, <4>3
    <3>9. \A e \in elections[n] : e.term \in Nat
      BY <1>1 DEF TypeOK, ElectionRun
    <3>10. \A b \in announces : b.leader \in Node /\ b.term \in Nat
      BY Zenon, <1>1, MessageFields
    <3> QED
      BY Zenon, <1>1, <1>3, <3>1, <3>5, <3>6, <3>7, <3>8, <3>9, <3>10, StateMoves
  <2>2. CASE a \notin announces
    <3>1. ASSUME NEW k \in Node, NEW e \in elections[k], Adopts(k, k, e.term), a.leader = k, a.term = e.term
          PROVE  a.term = st'[n].term /\ st'[n].leader = n
      BY ZenonT(30), <1>1, <1>3, <2>0, <3>1, Adoption
    <3>2. ASSUME NEW r \in reannounce, a.to = r.to, a.leader = r.from
          PROVE  FALSE
      <4>1. n > n
        BY Zenon, <1>1, <1>3, <3>2 DEF Upward
      <4> QED
        BY <2>0, <4>1
    <3>3. a.term = st'[n].term /\ st'[n].leader = n
      BY Zenon, <1>1, <2>2, <3>1, <3>2, AnnounceOrigins
    <3> QED
      BY <2>0, <3>3
  <2> QED
    BY Zenon, <2>1, <2>2
<1>4. \A a \in announces' : a.to \in Node
  BY <1>1 DEF TypeOK, Announcement
<1> QED
  BY Zenon, <1>2, <1>3, <1>4 DEF SelfMade

\* What each way of having been told becomes, while h goes on leading itself in
\* its term.
LEMMA ToldNext ==
    ASSUME TopStep, NEW h \in Node, NEW n \in Node, n < h, up[h], up'[h], up[n], up'[n],
           st'[h].leader = h, st[h].leader = h, st'[h].term = st[h].term, Told(h, n)
    PROVE  Told(h, n)'
<1>1. /\ Coherent /\ TypeOK /\ TypeOK' /\ [Next]_vars
      /\ Synchronous /\ FollowInv /\ OnlyTopDeclares
  BY Zenon, IndCoherent DEF TopStep, IndInv
<1>2. /\ st[n].term \in Nat /\ st'[n].term \in Nat /\ st[n].term <= st'[n].term
      /\ st[h].term \in Nat /\ st[n].leader \in Nat /\ h \in Nat /\ n \in Nat
  BY Zenon, <1>1, TermsGrow, StateFields, Ids
<1>3. CASE st[n].term > st[h].term
  <2>1. st'[n].term > st'[h].term
    BY <1>2, <1>3
  <2> QED
    BY Zenon, <2>1 DEF Told
<1>4. CASE st[n].term = st[h].term /\ st[n].leader >= h
  <2>1. CASE st'[n].term > st[n].term
    <3>1. st'[n].term > st'[h].term
      BY Zenon, <1>4, <2>1
    <3> QED
      BY Zenon, <3>1 DEF Told
  <2>2. CASE st'[n].leader = st[n].leader /\ st'[n].term = st[n].term
    BY Zenon, <1>4, <2>2 DEF Told
  <2>3. CASE Beginning(n)'
    BY Zenon, <2>3 DEF Told
  <2>4. ASSUME NEW a \in announces, Adopts(n, a.leader, a.term)
        PROVE  Told(h, n)'
    <3>1. a.leader \in Node /\ a.term \in Nat /\ a.leader \in Nat
      BY Zenon, <1>1, MessageFields, Ids
    <3>2. /\ st'[n].leader = a.leader /\ st'[n].term = a.term
          /\ \/ a.term > st[n].term
             \/ a.term = st[n].term /\ a.leader >= st[n].leader
      BY Zenon, <1>1, <2>4, <3>1, Adoption
    <3>3. \/ st'[n].term > st'[h].term
          \/ st'[n].term = st'[h].term /\ st'[n].leader >= h
      BY <1>2, <1>4, <3>1, <3>2
    <3> QED
      BY Zenon, <3>3 DEF Told
  <2>5. ASSUME NEW e \in elections[n], declareLeader(n, e)
        PROVE  FALSE
    <3>1. h <= n
      BY Zenon, <1>1, <2>5 DEF OnlyTopDeclares, declareLeader
    <3> QED
      BY <1>2, <3>1
  <2> QED
    BY Zenon, <1>1, <2>1, <2>2, <2>3, <2>4, <2>5, StateMoves
<1>5. CASE [to |-> n, leader |-> h, term |-> st[h].term] \in announces
  <2> DEFINE a == [to |-> n, leader |-> h, term |-> st[h].term]
  <2>1. a.to = n /\ a.leader = h /\ a.term = st[h].term
    OBVIOUS
  <2>2. CASE a \in announces'
    BY Zenon, <2>2 DEF Told
  <2>3. CASE OnAnnounceLeader(a)
    <3> HIDE DEF a
    <3>1. \/ Adopts(n, h, st[h].term)
          \/ ~SetLeaderOK(st[n], h, st[h].term) /\ UNCHANGED st
      BY Zenon, <2>1, <2>3 DEF OnAnnounceLeader, Adopts
    <3>2. CASE Adopts(n, h, st[h].term)
      <4>1. st'[n].leader = h /\ st'[n].term = st[h].term
        BY Zenon, <1>1, <1>2, <3>2, Adoption
      <4>2. st'[n].leader >= h /\ st'[n].term = st'[h].term
        BY <1>2, <4>1
      <4> QED
        BY Zenon, <4>2 DEF Told
    <3>3. CASE ~SetLeaderOK(st[n], h, st[h].term) /\ UNCHANGED st
      <4>1. \/ st[n].term > st[h].term
            \/ st[n].term = st[h].term /\ st[n].leader >= h
        BY <1>2, <3>3 DEF SetLeaderOK
      <4> QED
        BY Zenon, <3>3, <4>1 DEF Told
    <3> QED
      BY Zenon, <3>1, <3>2, <3>3
  <2>4. a \in announces' \/ OnAnnounceLeader(a)
    <3> HIDE DEF a
    <3>1. a \in announces
      BY Zenon, <1>5 DEF a
    <3> QED
      BY Zenon, <1>1, <2>1, <3>1, AnnounceMoves
  <2> QED
    BY Zenon, <2>2, <2>3, <2>4
<1>6. CASE [from |-> h, to |-> n] \in reannounce
  <2> DEFINE r == [from |-> h, to |-> n]
  <2>1. r.from = h /\ r.to = n
    OBVIOUS
  <2> HIDE DEF r
  <2>2. r \in reannounce' \/ Reannounce(r)
    BY Zenon, <1>1, <1>6, <2>1, ReannounceMoves DEF r
  <2>3. CASE r \in reannounce'
    BY Zenon, <2>3 DEF Told, r
  <2>4. CASE Reannounce(r)
    <3>1. [to |-> n, leader |-> h, term |-> st'[h].term] \in announces'
      BY Zenon, <2>1, <2>4 DEF Reannounce
    <3> QED
      BY Zenon, <3>1 DEF Told
  <2> QED
    BY Zenon, <2>2, <2>3, <2>4
<1>7. CASE Asking(n, h)
  <2>1. PICK r \in requests : r.from = n /\ r.to = h
    BY Zenon, <1>7 DEF Asking
  <2>2. Asking(n, h)' \/ OnStartElection(r)
    BY Zenon, <1>1, <2>1, RequestMoves
  <2>3. CASE Asking(n, h)'
    BY Zenon, <2>3 DEF Told
  <2>4. CASE OnStartElection(r)
    <3>1. st' = [st EXCEPT ![h] = UpdateTerm(st[h], r.term)]
      BY Zenon, <2>1, <2>4 DEF OnStartElection
    <3>2. st'[h] = UpdateTerm(st[h], r.term)
      BY Zenon, <1>1, <3>1 DEF TypeOK
    <3>3. IsLeader(UpdateTerm(st[h], r.term), h)
      BY Zenon, <3>2 DEF IsLeader
    <3>4. [from |-> h, to |-> n] \in reannounce'
      BY Zenon, <2>1, <2>4, <3>3 DEF OnStartElection
    <3> QED
      BY Zenon, <3>4 DEF Told
  <2> QED
    BY Zenon, <2>2, <2>3, <2>4
<1>8. CASE Beginning(n)
  <2>1. h \in members[n] /\ h > n
    BY Zenon, <1>1 DEF FollowInv
  <2>2. Beginning(n)' \/ Asking(n, h)'
    BY Zenon, <1>1, <1>8, <2>1, BeginMoves
  <2> QED
    BY Zenon, <2>2 DEF Told
<1> QED
  BY Zenon, <1>3, <1>4, <1>5, <1>6, <1>7, <1>8 DEF Told

LEMMA AllToldNext ==
    ASSUME TopStep
    PROVE  AllTold'
<1>1. /\ TypeOK /\ [Next]_vars /\ Synchronous /\ FollowInv /\ AllTold
  BY Zenon DEF TopStep, IndInv, TopInv
<1>2. ASSUME NEW h \in Node, NEW n \in Node, up'[h], up'[n], n < h, st'[h].leader = h
      PROVE  Told(h, n)'
  <2>1. up[h]
    BY Zenon, <1>2, Ids, FreshNode
  <2>2. CASE ~up[n]
    BY Zenon, <1>2, <2>2, FreshNode DEF Told
  <2>3. ASSUME NEW e \in elections[h], declareLeader(h, e), Adopts(h, h, e.term), up[n]
        PROVE  Told(h, n)'
    <3>1. e.term \in Nat
      BY <1>1 DEF TypeOK, ElectionRun
    <3>2. st'[h].term = e.term
      BY Zenon, <1>1, <2>3, <3>1, Adoption
    <3>3. n \in members[h]
      BY Zenon, <1>1, <2>1, <2>3 DEF FollowInv
    <3>4. [to |-> n, leader |-> h, term |-> e.term] \in announces'
      BY Zenon, <2>3, <3>3 DEF declareLeader, Adopts
    <3> QED
      BY Zenon, <3>2, <3>4 DEF Told
  <2>4. CASE up[n] /\ st[h].leader = h /\ st'[h].term = st[h].term
    <3>1. Told(h, n)
      BY Zenon, <1>1, <1>2, <2>1, <2>4 DEF AllTold
    <3> QED
      BY Zenon, <1>2, <2>1, <2>4, <3>1, ToldNext
  <2> QED
    BY Zenon, <1>2, <2>1, <2>2, <2>3, <2>4, SelfMoves
<1> QED
  BY Zenon, <1>2 DEF AllTold

LEMMA TopNext ==
    ASSUME TopStep
    PROVE  TopInv'
BY Zenon, UpwardNext, TermsKnownNext, SelfMadeNext, AllToldNext DEF TopInv

LEMMA TopInit == Init => TopInv
<1> SUFFICES ASSUME Init
             PROVE  TopInv
  OBVIOUS
<1>1. announces = {} /\ requests = {} /\ reannounce = {} /\ \A n \in Node : ~up[n]
  BY DEF Init
<1> QED
  BY Zenon, <1>1 DEF TopInv, Upward, TermsKnown, SelfMade, AllTold

-----------------------------------------------------------------------------
(* Who can win an election: the calls of sendToHigher.                      *)

LEMMA OnlyTopNext ==
    ASSUME IndInv, Synchronous, FollowInv, [Next]_vars, OnlyTopDeclares,
           \A n \in Node : \A f \in elections[n] :
               SendTimeout(n, f) => \A m \in Node : up[m] => m <= n
    PROVE  OnlyTopDeclares'
<1> SUFFICES ASSUME NEW n \in Node, up'[n], NEW e \in elections'[n], e.pc = "declaring",
                    NEW m \in Node, up'[m]
             PROVE  m <= n
  BY Zenon DEF OnlyTopDeclares
<1>0. TypeOK
  BY DEF IndInv
<1>1. up[n]
  <2> SUFFICES ASSUME ~up[n]
               PROVE  FALSE
    OBVIOUS
  <2>1. Start(n)
    BY Zenon, <1>0, UpMoves
  <2>2. elections[n] = {}
    BY Zenon DEF IndInv, GoodNode, Good
  <2> QED
    BY Zenon, <2>1, <2>2 DEF Start
<1>2. CASE e \in elections[n] /\ up[m]
  BY Zenon, <1>1, <1>2 DEF OnlyTopDeclares
<1>3. CASE e \in elections[n] /\ ~up[m]
  <2>1. Start(m)
    BY Zenon, <1>0, <1>3, UpMoves
  <2>2. NodesIdle
    BY Zenon, <2>1 DEF Start
  <2>3. Working(n)
    BY Zenon, <1>3 DEF Working
  <2> QED
    BY Zenon, <1>1, <2>2, <2>3 DEF NodesIdle
<1>4. CASE e \notin elections[n]
  <2>1. \A k \in Node : up[k] => k \in members[n]
    BY Zenon, <1>1 DEF FollowInv
  <2> QED
    BY Zenon, <1>0, <1>1, <1>4, <2>1, DeclaringMoves
<1> QED
  BY Zenon, <1>2, <1>3, <1>4

-----------------------------------------------------------------------------
(* Before the first crash.                                                  *)

\* Every view, call and announcement is of running nodes, and a goroutine inside
\* sendToHigher has a call that will be answered.
Unbroken ==
    /\ \A n \in Node : \A m \in members[n] : up[m]
    /\ \A r \in requests : up[r.from] /\ up[r.to]
    /\ \A r \in reannounce : up[r.to]
    /\ \A a \in announces : up[a.to]
    /\ \A n \in Node : \A e \in elections[n] : e.pc = "sending" =>
          \E r \in requests : r.from = n /\ r.term = e.term /\ r.open

LEMMA UnbrokenNext ==
    ASSUME IndInv, IndInv', Synchronous, FollowInv, [Next]_vars, Unbroken, crashes' = 0
    PROVE  Unbroken'
<1>0. TypeOK /\ \A n \in Node : up[n] => up'[n]
  BY Zenon, NoCrash DEF IndInv
<1>a. TypeOK'
  BY Zenon DEF IndInv
<1>b. /\ \A n \in Node : members[n] \subseteq Node
      /\ \A n \in Node : members'[n] \subseteq Node
  BY Zenon, <1>0, <1>a DEF TypeOK
<1>1. ASSUME NEW n \in Node, NEW m \in members'[n]
      PROVE  up'[m]
  <2>1. CASE m \in members[n]
    BY Zenon, <1>0, <1>b, <2>1 DEF Unbroken
  <2>2. CASE m \notin members[n]
    BY Zenon, <1>0, <2>2, MembersMoves
  <2> QED
    BY <2>1, <2>2
<1>2. ASSUME NEW r \in requests'
      PROVE  up'[r.from] /\ up'[r.to]
  <2>1. ASSUME NEW q \in requests, r.from = q.from, r.to = q.to
        PROVE  up'[r.from] /\ up'[r.to]
    BY Zenon, <1>0, <2>1, MessageFields DEF Unbroken
  <2>2. ASSUME NEW k \in Node, up[k], UNCHANGED up, r.from = k, r.to \in members[k]
        PROVE  up'[r.from] /\ up'[r.to]
    BY Zenon, <2>2 DEF Unbroken
  <2> QED
    BY Zenon, <1>0, <2>1, <2>2, RequestOrigins
<1>3. ASSUME NEW r \in reannounce'
      PROVE  up'[r.to]
  <2>1. CASE r \in reannounce
    BY Zenon, <1>0, <2>1, MessageFields DEF Unbroken
  <2>2. CASE r \notin reannounce
    <3>1. PICK q \in requests : r.to = q.from
      BY Zenon, <1>0, <2>2, ReannounceOrigins
    <3> QED
      BY Zenon, <1>0, <3>1, MessageFields DEF Unbroken
  <2> QED
    BY <2>1, <2>2
<1>4. ASSUME NEW a \in announces'
      PROVE  up'[a.to]
  <2>1. CASE a \in announces
    BY Zenon, <1>0, <2>1, MessageFields DEF Unbroken
  <2>2. CASE a \notin announces
    <3>1. ASSUME NEW k \in Node, a.to \in members[k]
          PROVE  up'[a.to]
      BY Zenon, <1>0, <1>b, <3>1 DEF Unbroken
    <3>2. ASSUME NEW r \in reannounce, a.to = r.to
          PROVE  up'[a.to]
      BY Zenon, <1>0, <3>2, MessageFields DEF Unbroken
    <3> QED
      BY Zenon, <1>0, <2>2, <3>1, <3>2, AnnounceOrigins
  <2> QED
    BY <2>1, <2>2
<1>5. ASSUME NEW n \in Node, NEW e \in elections'[n], e.pc = "sending"
      PROVE  \E r \in requests' : r.from = n /\ r.term = e.term /\ r.open
  <2>1. ASSUME ~up'[n]
        PROVE  FALSE
    <3>1. IndInv'
      BY Zenon, NextInv
    <3>2. elections'[n] = {}
      BY Zenon, <2>1, <3>1 DEF IndInv, GoodNode, Good
    <3> QED
      BY Zenon, <3>2
  <2>2. CASE ~up[n]
    <3>1. Start(n)
      BY Zenon, <1>0, <2>1, <2>2, UpMoves
    <3>2. elections[n] = {}
      BY Zenon, <2>2 DEF IndInv, GoodNode, Good
    <3> QED
      BY Zenon, <3>1, <3>2 DEF Start
  <2>3. ASSUME up[n], e \in elections[n],
               \A r \in requests : r.from = n /\ r.term = e.term /\ r.open /\ up'[r.to] => r \in requests'
        PROVE  \E r \in requests' : r.from = n /\ r.term = e.term /\ r.open
    <3>1. PICK r \in requests : r.from = n /\ r.term = e.term /\ r.open
      BY Zenon, <1>5, <2>3 DEF Unbroken
    <3>2. up'[r.to]
      BY Zenon, <1>0, MessageFields DEF Unbroken
    <3> QED
      BY Zenon, <2>3, <3>1, <3>2
  <2>4. ASSUME NEW m \in members[n], [from |-> n, to |-> m, term |-> e.term, open |-> TRUE] \in requests'
        PROVE  \E r \in requests' : r.from = n /\ r.term = e.term /\ r.open
    <3> DEFINE r == [from |-> n, to |-> m, term |-> e.term, open |-> TRUE]
    <3>1. r.from = n /\ r.term = e.term /\ r.open
      OBVIOUS
    <3> HIDE DEF r
    <3> QED
      BY Zenon, <2>4, <3>1 DEF r
  <2> QED
    BY Zenon, <1>5, <1>a, <2>1, <2>2, <2>3, <2>4, IndCoherent, SendingMoves
<1> QED
  BY Zenon, <1>1, <1>2, <1>3, <1>4, <1>5 DEF Unbroken

FreeInv == crashes = 0 => Unbroken /\ OnlyTopDeclares /\ TopInv

LEMMA FreeNext ==
    ASSUME Synchronous, EventCap > 0, IndInv, IndInv', FollowInv, FreeInv, [Next]_vars
    PROVE  FreeInv'
<1> SUFFICES ASSUME crashes' = 0
             PROVE  Unbroken' /\ OnlyTopDeclares' /\ TopInv'
  BY Zenon DEF FreeInv
<1>0. TypeOK
  BY DEF IndInv
<1>1. Unbroken /\ OnlyTopDeclares /\ TopInv
  BY Zenon, <1>0, NoCrash DEF FreeInv
<1>2. Unbroken'
  BY Zenon, <1>1, UnbrokenNext
<1>3. ASSUME NEW n \in Node, NEW f \in elections[n], SendTimeout(n, f)
      PROVE  FALSE
  <2>1. /\ f.pc = "sending"
        /\ \A r \in requests : r.from = n /\ r.term = f.term /\ r.open => Lost(n, r.to)
    BY Zenon, <1>3 DEF SendTimeout
  <2>2. PICK r \in requests : r.from = n /\ r.term = f.term /\ r.open
    BY Zenon, <1>1, <1>3, <2>1 DEF Unbroken
  <2>3. Lost(n, r.to) /\ up[r.to]
    BY Zenon, <1>1, <2>1, <2>2 DEF Unbroken
  <2> QED
    BY Zenon, <2>3 DEF Lost
<1>4. OnlyTopDeclares'
  BY Zenon, <1>1, <1>3, OnlyTopNext
<1>5. FreshStarts
  BY Zenon, <1>1 DEF FreshStarts, Unbroken
<1>6. TopInv'
  BY Zenon, <1>1, <1>5, TopNext DEF TopStep
<1> QED
  BY <1>2, <1>4, <1>6

LEMMA FreeInit == Init => FreeInv
<1> SUFFICES ASSUME Init
             PROVE  Unbroken /\ OnlyTopDeclares
  BY Zenon, TopInit DEF FreeInv
<1>1. /\ announces = {} /\ requests = {} /\ reannounce = {}
      /\ \A n \in Node : ~up[n] /\ members[n] = {} /\ elections[n] = {}
  BY DEF Init
<1> QED
  BY Zenon, <1>1 DEF Unbroken, OnlyTopDeclares

-----------------------------------------------------------------------------
(* With crashes and restarts.                                               *)

\* The others know who runs, nobody is inside sendToHigher, and nothing that was
\* meant for an earlier process of n is under way.
Undisturbed(n) ==
    /\ ViewsAccurate
    /\ \A m \in Node : \A e \in elections[m] : e.pc # "sending"
    /\ \A a \in announces : a.to # n

UndisturbedStep == \A n \in Node : ~up[n] /\ up'[n] => Undisturbed(n)

JoinsUndisturbed == [][UndisturbedStep]_vars

\* A goroutine inside sendToHigher has a call to every higher node that runs.
AllCalled ==
    \A n, m \in Node : up[n] /\ up[m] /\ m > n =>
        \A e \in elections[n] : e.pc = "sending" =>
            [from |-> n, to |-> m, term |-> e.term, open |-> TRUE] \in requests

QuietInv == AllCalled /\ OnlyTopDeclares /\ TopInv

LEMMA AllCalledNext ==
    ASSUME IndInv, IndInv', Synchronous, FollowInv, AllCalled, [Next]_vars, UndisturbedStep
    PROVE  AllCalled'
<1> SUFFICES ASSUME NEW n \in Node, NEW m \in Node, up'[n], up'[m], m > n,
                    NEW e \in elections'[n], e.pc = "sending"
             PROVE  [from |-> n, to |-> m, term |-> e.term, open |-> TRUE] \in requests'
  BY Zenon DEF AllCalled
<1> DEFINE r == [from |-> n, to |-> m, term |-> e.term, open |-> TRUE]
<1>0. TypeOK /\ TypeOK'
  BY Zenon DEF IndInv
<1>1. r.from = n /\ r.to = m /\ r.term = e.term /\ r.open
  OBVIOUS
<1> HIDE DEF r
<1>2. ASSUME NEW k \in Node, ~up[k], up'[k]
      PROVE  e \in elections[n] /\ Undisturbed(k)
  <2>1. Start(k)
    BY Zenon, <1>0, <1>2, UpMoves
  <2> QED
    BY Zenon, <1>2, <2>1 DEF Start, UndisturbedStep
<1>3. up[n] /\ up[m]
  BY Zenon, <1>2 DEF Undisturbed
<1>4. ASSUME e \in elections[n],
             \A q \in requests : q.from = n /\ q.term = e.term /\ q.open /\ up'[q.to] => q \in requests'
      PROVE  r \in requests'
  <2>1. r \in requests
    BY Zenon, <1>3, <1>4 DEF AllCalled, r
  <2> QED
    BY Zenon, <1>1, <1>4, <2>1
<1>5. ASSUME \A k \in members[n] : k > n =>
                [from |-> n, to |-> k, term |-> e.term, open |-> TRUE] \in requests'
      PROVE  r \in requests'
  BY Zenon, <1>3, <1>5 DEF FollowInv, r
<1>6. r \in requests'
  BY Zenon, <1>0, <1>3, <1>4, <1>5, IndCoherent, SendingMoves
<1> QED
  BY Zenon, <1>6 DEF r

LEMMA QuietNext ==
    ASSUME Synchronous, EventCap > 0, IndInv, IndInv', FollowInv, QuietInv, [Next]_vars, UndisturbedStep
    PROVE  QuietInv'
<1>1. AllCalled /\ OnlyTopDeclares /\ TopInv
  BY DEF QuietInv
<1>2. AllCalled'
  BY Zenon, <1>1, AllCalledNext
<1>3. ASSUME NEW n \in Node, NEW f \in elections[n], SendTimeout(n, f), NEW m \in Node, up[m]
      PROVE  m <= n
  <2> SUFFICES ASSUME m > n
               PROVE  FALSE
    BY Ids
  <2> DEFINE r == [from |-> n, to |-> m, term |-> f.term, open |-> TRUE]
  <2>1. r.from = n /\ r.to = m /\ r.term = f.term /\ r.open
    OBVIOUS
  <2> HIDE DEF r
  <2>2. /\ up[n] /\ f.pc = "sending"
        /\ \A q \in requests : q.from = n /\ q.term = f.term /\ q.open => Lost(n, q.to)
    BY Zenon, <1>3 DEF SendTimeout
  <2>3. r \in requests
    BY Zenon, <1>1, <1>3, <2>2 DEF AllCalled, r
  <2>4. Lost(n, m)
    BY Zenon, <2>1, <2>2, <2>3
  <2> QED
    BY Zenon, <1>3, <2>4 DEF Lost
<1>4. OnlyTopDeclares'
  BY Zenon, <1>1, <1>3, OnlyTopNext
<1>5. FreshStarts
  BY Zenon DEF FreshStarts, UndisturbedStep, Undisturbed, ViewsAccurate
<1>6. TopInv'
  BY Zenon, <1>1, <1>5, TopNext DEF TopStep
<1> QED
  BY <1>2, <1>4, <1>6 DEF QuietInv

-----------------------------------------------------------------------------
(* The theorems.  Finite sets are needed from here on: a starting node      *)
(* finds finitely many others, and some running node is the highest.        *)

INSTANCE FiniteSetTheorems

LEMMA NextTyping == TypeOK /\ [Next]_vars => TypeOK'
<1>1. FiniteViews
  BY Zenon, NodeAssumption, FS_Subset, FS_CardinalityType DEF FiniteViews
<1> QED
  BY Zenon, <1>1, StepTyping

\* Every variable keeps its type.
THEOREM TypeCorrect == Spec => []TypeOK
BY InitTyping, NextTyping, PTL DEF Spec

LEMMA Inductive == Spec => []IndInv
<1>1. IndInv => TypeOK
  BY DEF IndInv
<1> QED
  BY <1>1, InitInv, NextInv, NextTyping, PTL DEF Spec

\* BeginElection never leaves a phase without the goroutine that ends it, for
\* any cluster, any number of crashes and any timing.
THEOREM ElectionsEnd == Spec => []NoOrphanElection
<1>1. IndInv => NoOrphanElection
  BY Zenon DEF IndInv, GoodNode, Good, NoOrphanElection
<1> QED
  BY <1>1, Inductive, PTL

\* Every path that clears the leader of a running node leads to an election.
THEOREM NobodyStranded == Spec => []NeverStranded
<1>1. IndInv => NeverStranded
  BY DEF IndInv, GoodNode, Good, NeverStranded, TypeOK
<1> QED
  BY <1>1, Inductive, PTL

\* Goroutines and signals of earlier elections cannot be mistaken for later ones.
THEOREM Separation == Spec => []ElectionsSeparated
<1>1. IndInv => ElectionsSeparated
  BY Zenon DEF IndInv, GoodNode, Good, ElectionsSeparated
<1> QED
  BY <1>1, Inductive, PTL

\* While a process runs, every step of any goroutine moves its state forward.
THEOREM Monotonic == Spec => StateNeverRegresses
<1>1. TypeOK /\ [Next]_vars => [\A n \in Node : up[n] /\ up'[n] => Forward(st[n], st'[n])]_vars
  BY NextForward
<1> QED
  BY <1>1, TypeCorrect, PTL DEF Spec, StateNeverRegresses

\* On a reliable network and with room for an event, whatever crashes and comes back: when
\* everything is at rest, every running node has a leader, and that leader runs.
THEOREM LeaderRuns ==
    ASSUME Synchronous, EventCap > 0
    PROVE  Spec => []SettledLeaderRuns
<1>1. IndInv => TypeOK
  BY DEF IndInv
<1>2. TypeOK /\ FollowInv /\ [Next]_vars => FollowInv'
  BY FollowNext
<1> QED
  BY <1>1, <1>2, RestLeader, FollowInit, Inductive, PTL DEF Spec

LEMMA Greatest ==
    ASSUME NEW S \in SUBSET Node, S # {}
    PROVE  \E m \in S : \A k \in S : k <= m
<1> DEFINE Above(m) == {k \in S : k > m}
           Sizes == {Cardinality(Above(m)) : m \in S}
<1>1. S \subseteq Nat /\ IsFiniteSet(S)
  BY Zenon, NodeAssumption, FS_Subset
<1>2. \A m \in S : IsFiniteSet(Above(m)) /\ Cardinality(Above(m)) \in Nat
  <2>1. \A m \in S : Above(m) \subseteq S
    OBVIOUS
  <2> QED
    BY <1>1, <2>1, FS_Subset, FS_CardinalityType
<1>3. PICK c \in Sizes : \A d \in Sizes : ~(<<d, c>> \in OpToRel(<, Nat))
  <2>1. Sizes \in SUBSET Nat /\ Sizes # {}
    BY Zenon, <1>2
  <2> HIDE DEF Sizes
  <2> QED
    BY <2>1, NatLessThanWellFounded, WFMin
<1>4. PICK m \in S : c = Cardinality(Above(m))
  OBVIOUS
<1>5. ASSUME NEW k \in S, k > m
      PROVE  FALSE
  <2>0. ~(k > k) /\ \A x \in S : x > k => x > m
    BY <1>1, <1>5
  <2>1. Above(k) \subseteq Above(m) /\ k \in Above(m) /\ k \notin Above(k)
    BY Zenon, <1>5, <2>0
  <2> DEFINE A == Above(m)
             B == Above(k)
  <2>2. /\ IsFiniteSet(A) /\ B \in SUBSET A /\ A # B
        /\ Cardinality(A) \in Nat /\ Cardinality(B) \in Nat
    BY <1>2, <2>1
  <2>3. Cardinality(B) \in Sizes
    BY Zenon
  <2>4. c = Cardinality(A)
    BY <1>4
  <2> HIDE DEF A, B, Sizes
  <2>5. Cardinality(B) < Cardinality(A)
    BY <2>2, FS_Subset
  <2>6. <<Cardinality(B), c>> \in OpToRel(<, Nat)
    BY <2>2, <2>4, <2>5 DEF OpToRel
  <2> QED
    BY <1>3, <2>3, <2>6
<1> QED
  BY <1>1, <1>5

LEMMA RestTop ==
    ASSUME IndInv, FollowInv, TopInv, Settled, NEW n \in Node, up[n]
    PROVE  \E f \in Node : /\ up[f] /\ st[n].leader = f
                           /\ \A m \in Node : up[m] => m <= f
<1> DEFINE F == {m \in Node : up[m] /\ m >= n /\ st[m].term >= st[n].term}
<1>1. /\ TypeOK /\ NodesIdle /\ ~InFlight
      /\ Upward /\ TermsKnown /\ SelfMade /\ AllTold
  BY Zenon DEF IndInv, TopInv, Settled, Calm
<1>2. \A m \in Node : m \in Nat /\ m # NoLeader /\ st[m].term \in Nat
  BY <1>1, Ids, StateFields
<1>3. PICK f \in F : \A k \in F : k <= f
  <2>1. n \in F
    BY <1>2
  <2>2. F \in SUBSET Node /\ F # {}
    BY Zenon, <2>1
  <2> HIDE DEF F
  <2> QED
    BY Zenon, <2>2, Greatest
<1>4. f \in Node /\ up[f] /\ f >= n /\ st[f].term >= st[n].term
  OBVIOUS
<1>5. PICK l \in Node : up[l] /\ st[f].leader = l
  BY Zenon, <1>4, RestLeader DEF SettledLeaderRuns
<1>6. l >= f /\ st[f].term <= st[l].term
  BY Zenon, <1>1, <1>2, <1>4, <1>5 DEF Upward, TermsKnown
<1>7. l = f
  <2>1. l \in F
    BY <1>2, <1>4, <1>5, <1>6
  <2>2. l <= f
    BY Zenon, <1>3, <2>1
  <2> QED
    BY <1>2, <1>4, <1>6, <2>2
<1> HIDE DEF F
<1>8. ASSUME NEW m \in Node, up[m]
      PROVE  m <= f
  <2>1. ~Beginning(f) /\ ~Joining(f, m)
    BY Zenon, <1>1, <1>4, Idle
  <2>2. ~(m > f)
    BY Zenon, <1>1, <1>4, <1>5, <1>7, <1>8, <2>1 DEF SelfMade
  <2> QED
    BY <1>2, <1>4, <2>2
<1>9. st[n].leader = f
  <2>1. CASE n = f
    BY Zenon, <1>5, <1>7, <2>1
  <2>2. CASE n < f
    <3>1. Told(f, n)
      BY Zenon, <1>1, <1>4, <1>5, <1>7, <2>2 DEF AllTold
    <3>2. ~Beginning(n)
      BY Zenon, <1>1, Idle
    <3>3. announces = {} /\ reannounce = {} /\ ~Asking(n, f)
      BY Zenon, <1>1, <1>4 DEF InFlight, Asking
    <3>4. ~(st[n].term > st[f].term)
      BY <1>2, <1>4
    <3>5. st[n].leader >= f
      BY <3>1, <3>2, <3>3, <3>4 DEF Told
    <3>6. PICK g \in Node : up[g] /\ st[n].leader = g
      BY Zenon, RestLeader DEF SettledLeaderRuns
    <3>7. g <= f
      BY Zenon, <1>8, <3>6
    <3> QED
      BY <1>2, <1>4, <3>5, <3>6, <3>7
  <2> QED
    BY <1>2, <1>4, <2>1, <2>2
<1> QED
  BY Zenon, <1>4, <1>8, <1>9

LEMMA RestAgree ==
    ASSUME IndInv, FollowInv, TopInv
    PROVE  SettledAgree /\ SettledHighest
<1>1. ASSUME Settled, NEW n \in Node, up[n], NEW k \in Node, up[k]
      PROVE  \E l \in Node : up[l] /\ st[n].leader = l /\ st[k].leader = l
  <2>1. PICK f \in Node : up[f] /\ st[n].leader = f /\ \A m \in Node : up[m] => m <= f
    BY Zenon, <1>1, RestTop
  <2>2. PICK g \in Node : up[g] /\ st[k].leader = g /\ \A m \in Node : up[m] => m <= g
    BY Zenon, <1>1, RestTop
  <2>3. f = g
    BY <2>1, <2>2, Ids
  <2> QED
    BY Zenon, <2>1, <2>2, <2>3
<1>2. SettledAgree
  <2> SUFFICES ASSUME Settled, NEW n \in Node, up[n]
               PROVE  Agreed
    BY Zenon DEF SettledAgree
  <2>1. PICK l \in Node : up[l] /\ st[n].leader = l
    BY Zenon, RestTop
  <2>2. \A k \in Node : up[k] => st[k].leader = l
    BY Zenon, <1>1, <2>1
  <2> QED
    BY Zenon, <2>1, <2>2 DEF Agreed
<1>3. SettledHighest
  <2> SUFFICES ASSUME Settled, NEW n \in Node, NEW m \in Node, up[n], up[m]
               PROVE  st[n].leader >= m
    BY Zenon DEF SettledHighest
  <2>1. PICK f \in Node : st[n].leader = f /\ m <= f
    BY Zenon, RestTop
  <2> QED
    BY <2>1, Ids
<1> QED
  BY <1>2, <1>3

\* Until a node crashes, and however many nodes start in whatever order while others
\* are in elections: when everything is at rest, all running nodes follow the highest of
\* them (engine.go:195-217, 257-371).  The network is reliable and eventC has room.
THEOREM AgreementBeforeCrash ==
    ASSUME Synchronous, EventCap > 0
    PROVE  Spec => [](crashes = 0 => SettledAgree /\ SettledHighest)
<1>1. IndInv /\ FollowInv /\ FreeInv => (crashes = 0 => SettledAgree /\ SettledHighest)
  BY Zenon, RestAgree DEF FreeInv
<1>2. IndInv => TypeOK
  BY DEF IndInv
<1>3. TypeOK /\ FollowInv /\ [Next]_vars => FollowInv'
  BY FollowNext
<1>4. IndInv /\ IndInv' /\ FollowInv /\ FreeInv /\ [Next]_vars => FreeInv'
  BY Zenon, FreeNext
<1> QED
  BY <1>1, <1>2, <1>3, <1>4, FollowInit, FreeInit, Inductive, PTL DEF Spec

\* Whatever crashes and comes back, as long as a node (re)joins only while the others
\* know who runs and nobody is inside sendToHigher (engine.go:302-371): when everything
\* is at rest, all running nodes follow the highest of them.
THEOREM AgreementUndisturbed ==
    ASSUME Synchronous, EventCap > 0
    PROVE  Spec /\ JoinsUndisturbed => [](SettledAgree /\ SettledHighest)
<1>1. IndInv /\ FollowInv /\ QuietInv => SettledAgree /\ SettledHighest
  BY Zenon, RestAgree DEF QuietInv
<1>2. IndInv => TypeOK
  BY DEF IndInv
<1>3. TypeOK /\ FollowInv /\ [Next]_vars => FollowInv'
  BY FollowNext
<1>4. IndInv /\ IndInv' /\ FollowInv /\ QuietInv /\ [Next]_vars /\ [UndisturbedStep]_vars => QuietInv'
  <2>1. [UndisturbedStep]_vars => UndisturbedStep
    BY Zenon DEF vars, UndisturbedStep
  <2> QED
    BY Zenon, <2>1, QuietNext
<1>5. Init => QuietInv
  <2> SUFFICES ASSUME Init
               PROVE  AllCalled /\ OnlyTopDeclares
    BY Zenon, TopInit DEF QuietInv
  <2>1. \A n \in Node : ~up[n]
    BY DEF Init
  <2> QED
    BY Zenon, <2>1 DEF AllCalled, OnlyTopDeclares
<1> QED
  BY <1>1, <1>2, <1>3, <1>4, <1>5, FollowInit, Inductive, PTL DEF Spec, JoinsUndisturbed
=============================================================================
