------------------------ MODULE ElectionInvariants ------------------------
(***************************************************************************)
(* What a step of Election does to one piece of the state, and that steps  *)
(* keep the types, the inductive invariant and FollowInv: for every set of *)
(* nodes, every capacity of the channels and every bound, whether or not   *)
(* the system is synchronous.                                              *)
(***************************************************************************)
EXTENDS Election, TLAPS

-----------------------------------------------------------------------------
(* What one step does.  Of the inductive invariant below this needs:        *)
Coherent ==
    /\ TypeOK /\ ElectionsSeparated
    /\ \A n \in Node : st[n].leader # NoLeader <=> st[n].phase = PhaseLeader

\* n has a startElection waiting that BeginElection will not refuse.
Beginning(n) == starts[n] > 0 /\ ~InElection(st[n])

\* A call from n to m is under way, whether or not n still waits for its answer.
Asking(n, m) == \E r \in requests : r.from = n /\ r.to = m

Adopts(n, l, t) == SetLeaderOK(st[n], l, t) /\ st' = [st EXCEPT ![n] = SetLeader(l, t)]

LEMMA Ids == \A n \in Node : n \in Nat /\ n > 0 /\ n # NoLeader
BY NodeAssumption DEF NoLeader

LEMMA StateFields ==
    ASSUME TypeOK, NEW n \in Node
    PROVE  /\ st[n].term \in Nat /\ st[n].leader \in Nat
           /\ st[n].leader \in Node \cup {NoLeader}
<1>1. st[n].term \in Nat /\ st[n].leader \in Node \cup {NoLeader}
  BY DEF TypeOK, NodeState
<1> QED
  BY <1>1, Ids DEF NoLeader

LEMMA MessageFields ==
    ASSUME TypeOK
    PROVE  /\ \A a \in announces : a.to \in Node /\ a.leader \in Node /\ a.term \in Nat
           /\ \A r \in requests : r.from \in Node /\ r.to \in Node /\ r.term \in Nat
           /\ \A r \in reannounce : r.from \in Node /\ r.to \in Node
BY DEF TypeOK, Announcement, Request

(* What the groups of actions leave alone. *)

LEMMA EngineFrame ==
    ASSUME NEW k, EngineStep(k)
    PROVE  UNCHANGED <<up, members, reannounce, crashes>>
<1>1. UNCHANGED up /\ UNCHANGED members /\ UNCHANGED reannounce
  BY Zenon DEF EngineStep, handleNodeJoined, handleNodeLost, handleElectRequest, startElection,
     EnterWaiting, declareLeader, WaitReceive, SendTimeout, WaitTimeout
<1>2. UNCHANGED crashes
  BY Zenon DEF EngineStep, handleNodeJoined, handleNodeLost, handleElectRequest, startElection,
     EnterWaiting, declareLeader, WaitReceive, SendTimeout, WaitTimeout
<1> QED
  BY <1>1, <1>2

LEMMA DeliveryFrame ==
    ASSUME Delivery
    PROVE  UNCHANGED <<up, members, eventC, starts, crashes>>
<1>1. UNCHANGED up /\ UNCHANGED members
  BY Zenon DEF Delivery, OnStartElection, LoseRequest, OnAnnounceLeader, LoseAnnounce, Reannounce
<1>2. UNCHANGED eventC /\ UNCHANGED starts /\ UNCHANGED crashes
  BY Zenon DEF Delivery, OnStartElection, LoseRequest, OnAnnounceLeader, LoseAnnounce, Reannounce
<1> QED
  BY <1>1, <1>2

LEMMA MembershipFrame ==
    ASSUME NEW k, MembershipStep(k)
    PROVE  UNCHANGED <<up, st, starts, elections, requests, announces, reannounce, crashes>>
BY Zenon DEF MembershipStep, NotifyJoin, NotifyLeave

LEMMA Cases ==
    ASSUME [Next]_vars
    PROVE  \/ UNCHANGED vars
           \/ \E k \in Node : Start(k) \/ Crash(k) \/ EngineStep(k) \/ MembershipStep(k)
           \/ Delivery
BY Zenon DEF Next

\* Only Start makes a node run.
LEMMA UpMoves ==
    ASSUME TypeOK, [Next]_vars, NEW n \in Node, ~up[n], up'[n]
    PROVE  Start(n)
<1>1. ASSUME NEW k \in Node, Crash(k)
      PROVE  FALSE
  BY Zenon, <1>1 DEF TypeOK, Crash
<1>2. ASSUME NEW k \in Node, Start(k)
      PROVE  k = n
  BY Zenon, <1>2 DEF TypeOK, Start
<1>3. ~ UNCHANGED vars
  BY Zenon DEF vars
<1> QED
  BY Zenon, <1>1, <1>2, <1>3, Cases, EngineFrame, MembershipFrame, DeliveryFrame

\* The methods of State, as far as leader, term and phase are concerned.
LEMMA MethodEffects ==
    ASSUME NEW s \in NodeState, s.leader # NoLeader <=> s.phase = PhaseLeader
    PROVE  /\ BeginElection(s).leader = NoLeader /\ BeginElection(s).term > s.term
           /\ EnterWaitingCoordinator(s).leader = s.leader /\ EnterWaitingCoordinator(s).term = s.term
           /\ \A t \in Nat : /\ ResetElection(s, t).leader = s.leader /\ ResetElection(s, t).term = s.term
                             /\ InElection(ResetElection(s, t)) => InElection(s)
           /\ \A t \in Nat : \/ UpdateTerm(s, t) = s
                             \/ /\ UpdateTerm(s, t).leader = NoLeader /\ UpdateTerm(s, t).term > s.term
                                /\ ~InElection(UpdateTerm(s, t))
           /\ s.leader # NoLeader =>
                /\ ClearLeaderIfMatches(s, s.leader).leader = NoLeader
                /\ ClearLeaderIfMatches(s, s.leader).term = s.term
                /\ ~InElection(ClearLeaderIfMatches(s, s.leader))
<1> USE DEF Phases, PhaseIdle, PhaseElecting, PhaseWaitingCoordinator, PhaseLeader
<1>1. s.term \in Nat /\ s = [leader |-> s.leader, term |-> s.term, phase |-> s.phase]
  BY DEF NodeState
<1>2. BeginElection(s).leader = NoLeader /\ BeginElection(s).term > s.term
  BY <1>1 DEF BeginElection
<1>3. EnterWaitingCoordinator(s).leader = s.leader /\ EnterWaitingCoordinator(s).term = s.term
  BY <1>1 DEF EnterWaitingCoordinator
<1>4. ASSUME NEW t \in Nat
      PROVE  /\ ResetElection(s, t).leader = s.leader /\ ResetElection(s, t).term = s.term
             /\ InElection(ResetElection(s, t)) => InElection(s)
  BY <1>1 DEF ResetElection, InElection
<1>5. ASSUME NEW t \in Nat
      PROVE  \/ UpdateTerm(s, t) = s
             \/ /\ UpdateTerm(s, t).leader = NoLeader /\ UpdateTerm(s, t).term > s.term
                /\ ~InElection(UpdateTerm(s, t))
  <2>1. CASE t > s.term
    <3>1. UpdateTerm(s, t) = [leader |-> NoLeader, term |-> t, phase |-> PhaseIdle]
      BY Zenon, <2>1 DEF UpdateTerm
    <3> QED
      BY <2>1, <3>1 DEF InElection
  <2>2. CASE ~(t > s.term)
    <3>1. UpdateTerm(s, t) = s
      BY <2>2 DEF UpdateTerm
    <3> QED
      BY Zenon, <3>1
  <2> QED
    BY Zenon, <2>1, <2>2
<1>6. ASSUME s.leader # NoLeader
      PROVE  /\ ClearLeaderIfMatches(s, s.leader).leader = NoLeader
             /\ ClearLeaderIfMatches(s, s.leader).term = s.term
             /\ ~InElection(ClearLeaderIfMatches(s, s.leader))
  BY <1>1, <1>6 DEF ClearLeaderIfMatches, InElection, NodeState
<1> QED
  BY Zenon, <1>2, <1>3, <1>4, <1>5, <1>6

\* A running node keeps its leader in its term, or leaves the term, or loses its
\* leader and will begin an election, or adopts a leader it is told of, or itself.
LEMMA StateMoves ==
    ASSUME Coherent, [Next]_vars, NEW n \in Node, up[n], up'[n]
    PROVE  \/ /\ st'[n].leader = st[n].leader /\ st'[n].term = st[n].term
              /\ InElection(st'[n]) => InElection(st[n])
           \/ /\ st'[n].leader = NoLeader /\ st'[n].term > st[n].term
              /\ InElection(st'[n]) => startElection(n)
           \/ st'[n].leader = NoLeader /\ st'[n].term = st[n].term /\ Beginning(n)'
           \/ \E a \in announces : a.to = n /\ OnAnnounceLeader(a) /\ Adopts(n, a.leader, a.term)
           \/ \E e \in elections[n] : declareLeader(n, e) /\ Adopts(n, n, e.term)
<1> DEFINE Goal == \/ /\ st'[n].leader = st[n].leader /\ st'[n].term = st[n].term
                      /\ InElection(st'[n]) => InElection(st[n])
                   \/ /\ st'[n].leader = NoLeader /\ st'[n].term > st[n].term
                      /\ InElection(st'[n]) => startElection(n)
                   \/ st'[n].leader = NoLeader /\ st'[n].term = st[n].term /\ Beginning(n)'
                   \/ \E a \in announces : a.to = n /\ OnAnnounceLeader(a) /\ Adopts(n, a.leader, a.term)
                   \/ \E e \in elections[n] : declareLeader(n, e) /\ Adopts(n, n, e.term)
<1> SUFFICES Goal
  OBVIOUS
<1>0. TypeOK /\ st[n] \in NodeState /\ (st[n].leader # NoLeader <=> st[n].phase = PhaseLeader)
  BY Zenon DEF Coherent, TypeOK
<1>1. CASE st'[n] = st[n]
  BY Zenon, <1>1
<1>2. ASSUME NEW k \in Node, NEW s, st' = [st EXCEPT ![k] = s], k # n
      PROVE  Goal
  BY Zenon, <1>0, <1>1, <1>2 DEF TypeOK
<1>3. ASSUME NEW k \in Node, handleNodeLost(k)
      PROVE  Goal
  <2> DEFINE lostID == Head(eventC[k]).id
  <2>0. eventC[k] \in EventQueue /\ eventC[k] # <<>>
    BY Zenon, <1>0, <1>3 DEF handleNodeLost, TypeOK
  <2>1. Head(eventC[k]) \in ClusterEvent
    BY <2>0 DEF EventQueue
  <2>2. lostID \in Node
    BY <2>1 DEF ClusterEvent
  <2>3. \/ UNCHANGED st
        \/ /\ st' = [st EXCEPT ![k] = ClearLeaderIfMatches(@, lostID)] /\ st[k].leader = lostID
           /\ starts' = [starts EXCEPT ![k] = @ + 1]
    BY Zenon, <1>3 DEF handleNodeLost
  <2> HIDE DEF lostID
  <2>4. CASE k = n /\ st' # st
    <3>1. st'[n] = ClearLeaderIfMatches(st[n], st[n].leader) /\ starts'[n] = starts[n] + 1 /\ st[n].leader # NoLeader
      BY ZenonT(30), <1>0, <2>2, <2>3, <2>4, Ids DEF TypeOK
    <3> DEFINE s == ClearLeaderIfMatches(st[n], st[n].leader)
    <3>4. s.leader = NoLeader /\ s.term = st[n].term /\ ~InElection(s)
      BY Zenon, <1>0, <3>1, MethodEffects
    <3>2. st'[n].leader = NoLeader /\ st'[n].term = st[n].term /\ ~InElection(st'[n])
      BY Zenon, <3>1, <3>4
    <3>3. starts'[n] > 0
      BY <1>0, <3>1 DEF TypeOK
    <3> QED
      BY Zenon, <3>2, <3>3 DEF Beginning
  <2> QED
    BY Zenon, <1>1, <1>2, <2>3, <2>4
<1>4. ASSUME NEW k \in Node, startElection(k)
      PROVE  Goal
  <2>1. UNCHANGED st \/ st' = [st EXCEPT ![k] = BeginElection(@)]
    BY Zenon, <1>4 DEF startElection
  <2>2. CASE k = n /\ st' # st
    <3>1. st'[n] = BeginElection(st[n]) /\ startElection(n)
      BY Zenon, <1>0, <1>4, <2>1, <2>2 DEF TypeOK
    <3> QED
      BY Zenon, <1>0, <3>1, MethodEffects
  <2> QED
    BY Zenon, <1>1, <1>2, <2>1, <2>2
<1>5. ASSUME NEW k \in Node, NEW e \in elections[k],
             EnterWaiting(k, e) \/ WaitReceive(k, e) \/ WaitTimeout(k, e)
      PROVE  Goal
  <2>1. \/ UNCHANGED st
        \/ EnterWaitingCoordinatorOK(st[k], e.term) /\ st' = [st EXCEPT ![k] = EnterWaitingCoordinator(@)]
        \/ st' = [st EXCEPT ![k] = ResetElection(@, e.term)]
    BY Zenon, <1>5 DEF EnterWaiting, WaitReceive, WaitTimeout, Restart
  <2>2. CASE k = n /\ st' # st
    <3>1. \/ EnterWaitingCoordinatorOK(st[n], e.term) /\ st'[n] = EnterWaitingCoordinator(st[n])
          \/ st'[n] = ResetElection(st[n], e.term)
      BY Zenon, <1>0, <2>1, <2>2 DEF TypeOK
    <3>2. EnterWaitingCoordinatorOK(st[n], e.term) => InElection(st[n])
      BY DEF EnterWaitingCoordinatorOK, InElection
    <3>3. e.term \in Nat
      BY <1>0 DEF TypeOK, ElectionRun
    <3> DEFINE s == EnterWaitingCoordinator(st[n])
               r == ResetElection(st[n], e.term)
    <3>a. s.leader = st[n].leader /\ s.term = st[n].term
      BY Zenon, <1>0, MethodEffects
    <3>b. r.leader = st[n].leader /\ r.term = st[n].term /\ (InElection(r) => InElection(st[n]))
      BY Zenon, <1>0, <3>3, MethodEffects
    <3>4. /\ s.leader = st[n].leader /\ s.term = st[n].term
          /\ r.leader = st[n].leader /\ r.term = st[n].term /\ (InElection(r) => InElection(st[n]))
      BY Zenon, <3>a, <3>b
    <3> HIDE DEF s, r
    <3>5. CASE st'[n] = r
      BY Zenon, <3>4, <3>5
    <3>6. CASE EnterWaitingCoordinatorOK(st[n], e.term) /\ st'[n] = s
      BY Zenon, <3>2, <3>4, <3>6
    <3> QED
      BY Zenon, <3>1, <3>5, <3>6 DEF s, r
  <2> QED
    BY Zenon, <1>1, <1>2, <2>1, <2>2
<1>6. ASSUME NEW k \in Node, NEW e \in elections[k], declareLeader(k, e)
      PROVE  Goal
  <2>1. UNCHANGED st \/ Adopts(k, k, e.term)
    BY Zenon, <1>6 DEF declareLeader, Adopts
  <2>2. CASE k = n
    BY Zenon, <1>1, <1>6, <2>1, <2>2
  <2> QED
    BY Zenon, <1>1, <1>2, <2>1, <2>2 DEF Adopts
<1>7. ASSUME NEW r \in requests, OnStartElection(r)
      PROVE  Goal
  <2>1. r.to \in Node /\ r.term \in Nat /\ st' = [st EXCEPT ![r.to] = UpdateTerm(st[r.to], r.term)]
    <3>1. r.to \in Node /\ r.term \in Nat
      BY Zenon, <1>0, MessageFields
    <3> QED
      BY Zenon, <1>7, <3>1 DEF OnStartElection
  <2>2. CASE r.to = n
    <3>0. st' = [st EXCEPT ![n] = UpdateTerm(st[n], r.term)]
      BY Zenon, <2>1, <2>2
    <3>1. st'[n] = UpdateTerm(st[n], r.term)
      BY Zenon, <1>0, <3>0 DEF TypeOK
    <3> DEFINE s == UpdateTerm(st[n], r.term)
    <3>2. s = st[n] \/ (s.leader = NoLeader /\ s.term > st[n].term /\ ~InElection(s))
      BY Zenon, <1>0, <2>1, MethodEffects
    <3> HIDE DEF s
    <3>3. st'[n] = s
      BY Zenon, <3>1 DEF s
    <3> QED
      BY Zenon, <1>1, <3>2, <3>3
  <2> QED
    BY Zenon, <1>2, <2>1, <2>2
<1>8. ASSUME NEW a \in announces, OnAnnounceLeader(a)
      PROVE  Goal
  <2>1. a.to \in Node /\ (UNCHANGED st \/ Adopts(a.to, a.leader, a.term))
    <3>1. a.to \in Node
      BY Zenon, <1>0, MessageFields
    <3> QED
      BY Zenon, <1>8, <3>1 DEF OnAnnounceLeader, Adopts
  <2>2. CASE a.to = n
    BY Zenon, <1>1, <1>8, <2>1, <2>2
  <2> QED
    BY Zenon, <1>1, <1>2, <2>1, <2>2 DEF Adopts
<1>9. ASSUME NEW k \in Node, Start(k) \/ Crash(k)
      PROVE  Goal
  <2>1. k # n
    BY Zenon, <1>0, <1>9 DEF Start, Crash, TypeOK
  <2>2. st' = [st EXCEPT ![k] = NewState]
    BY Zenon, <1>9 DEF Start, Crash
  <2> QED
    BY Zenon, <1>2, <2>1, <2>2
<1>10. ASSUME \/ UNCHANGED vars
              \/ \E k \in Node : \/ MembershipStep(k)
                                 \/ handleNodeJoined(k) \/ handleElectRequest(k)
                                 \/ \E e \in elections[k] : SendTimeout(k, e)
              \/ \E r \in requests : LoseRequest(r)
              \/ \E a \in announces : LoseAnnounce(a)
              \/ \E r \in reannounce : Reannounce(r)
       PROVE  Goal
  <2>1. UNCHANGED st
    BY Zenon, <1>10 DEF vars, MembershipStep, NotifyJoin, NotifyLeave, handleNodeJoined,
       handleElectRequest, SendTimeout, LoseRequest, LoseAnnounce, Reannounce
  <2> QED
    BY Zenon, <1>1, <2>1
<1> HIDE DEF Goal
<1> QED
  BY Zenon, <1>3, <1>4, <1>5, <1>6, <1>7, <1>8, <1>9, <1>10 DEF Next, EngineStep, Delivery

\* A leader is adopted in the term of the node or a later one, and in the same
\* term only over a lower one.
LEMMA Adoption ==
    ASSUME TypeOK, NEW n \in Node, NEW l \in Node, NEW t \in Nat, Adopts(n, l, t)
    PROVE  /\ st'[n].leader = l /\ st'[n].term = t
           /\ \/ t > st[n].term
              \/ t = st[n].term /\ l >= st[n].leader
<1>1. st'[n] = SetLeader(l, t)
  BY Zenon DEF Adopts, TypeOK
<1>2. st[n].term \in Nat /\ st[n].leader \in Nat /\ l \in Nat
  BY StateFields, Ids
<1>3. st'[n].leader = l /\ st'[n].term = t
  BY <1>1 DEF SetLeader
<1> QED
  BY <1>2, <1>3 DEF Adopts, SetLeaderOK, NoLeader

\* Only startElection takes one from the starts of a running node.
LEMMA StartsMoves ==
    ASSUME TypeOK, [Next]_vars, NEW n \in Node, up[n], up'[n], starts[n] > 0
    PROVE  starts'[n] > 0 \/ startElection(n)
<1>0. starts \in [Node -> Nat] /\ starts[n] \in Nat
  BY DEF TypeOK
<1>1. CASE starts'[n] = starts[n]
  BY <1>1
<1>2. CASE starts'[n] = starts[n] + 1
  BY <1>0, <1>2
<1>3. ASSUME NEW k \in Node, starts' = [starts EXCEPT ![k] = @ + 1] \/ UNCHANGED starts
      PROVE  starts'[n] > 0
  <2>1. CASE UNCHANGED starts
    BY Zenon, <1>1, <2>1
  <2>2. CASE starts' = [starts EXCEPT ![k] = @ + 1] /\ k = n
    BY <1>0, <2>2
  <2>3. CASE starts' = [starts EXCEPT ![k] = @ + 1] /\ k # n
    BY Zenon, <1>0, <1>1, <2>3
  <2> QED
    BY Zenon, <1>3, <2>1, <2>2, <2>3
<1>4. ASSUME NEW k \in Node, k # n, startElection(k)
      PROVE  starts'[n] = starts[n]
  BY Zenon, <1>0, <1>4 DEF startElection
<1>5. ASSUME NEW k \in Node, EngineStep(k)
      PROVE  starts'[n] > 0 \/ startElection(n)
  <2>1. ASSUME handleNodeJoined(k) \/ handleNodeLost(k) \/ handleElectRequest(k)
        PROVE  starts' = [starts EXCEPT ![k] = @ + 1] \/ UNCHANGED starts
    BY Zenon, <2>1 DEF handleNodeJoined, handleNodeLost, handleElectRequest
  <2>2. ASSUME NEW e, EnterWaiting(k, e) \/ declareLeader(k, e) \/ WaitReceive(k, e)
                      \/ SendTimeout(k, e) \/ WaitTimeout(k, e)
        PROVE  starts' = [starts EXCEPT ![k] = @ + 1] \/ UNCHANGED starts
    BY Zenon, <2>2 DEF EnterWaiting, declareLeader, WaitReceive, SendTimeout, WaitTimeout, Restart
  <2> QED
    BY Zenon, <1>1, <1>3, <1>4, <1>5, <2>1, <2>2 DEF EngineStep
<1>6. ASSUME NEW k \in Node, Start(k) \/ Crash(k)
      PROVE  starts'[n] = starts[n]
  <2>1. k # n
    BY Zenon, <1>6 DEF Start, Crash, TypeOK
  <2> QED
    BY Zenon, <1>0, <1>6, <2>1 DEF Start, Crash
<1>7. CASE UNCHANGED vars
  BY Zenon, <1>1, <1>7 DEF vars
<1> QED
  BY Zenon, <1>1, <1>5, <1>6, <1>7, Cases, DeliveryFrame, MembershipFrame

\* A waiting startElection stays waiting or begins, and then calls every higher
\* member.
LEMMA BeginMoves ==
    ASSUME Coherent, [Next]_vars, NEW n \in Node, up[n], up'[n], Beginning(n)
    PROVE  \/ Beginning(n)'
           \/ /\ st'[n].term > st[n].term
              /\ \A m \in members[n] : m > n => Asking(n, m)'
<1>0. TypeOK /\ starts[n] > 0 /\ ~InElection(st[n])
  BY Zenon DEF Beginning, Coherent
<1>1. ASSUME startElection(n)
      PROVE  /\ st'[n].term > st[n].term
             /\ \A m \in members[n] : m > n => Asking(n, m)'
  <2>1. /\ st' = [st EXCEPT ![n] = BeginElection(@)]
        /\ requests' = requests \cup
             {[from |-> n, to |-> m, term |-> st[n].term + 1, open |-> TRUE] : m \in {m \in members[n] : m > n}}
    BY Zenon, <1>0, <1>1 DEF startElection, BeginElectionOK
  <2>2. st'[n] = BeginElection(st[n])
    BY Zenon, <1>0, <2>1 DEF TypeOK
  <2>3. st'[n].term > st[n].term
    <3>1. st[n] \in NodeState /\ (st[n].leader # NoLeader <=> st[n].phase = PhaseLeader)
      BY Zenon, <1>0 DEF TypeOK, Coherent
    <3> QED
      BY Zenon, <2>2, <3>1, MethodEffects
  <2>4. ASSUME NEW m \in members[n], m > n
        PROVE  Asking(n, m)'
    <3> DEFINE r == [from |-> n, to |-> m, term |-> st[n].term + 1, open |-> TRUE]
    <3>1. r \in requests' /\ r.from = n /\ r.to = m
      BY Zenon, <2>1, <2>4
    <3> HIDE DEF r
    <3> QED
      BY Zenon, <3>1 DEF Asking
  <2> QED
    BY Zenon, <2>3, <2>4
<1>2. ASSUME ~startElection(n)
      PROVE  Beginning(n)'
  <2>1. starts'[n] > 0
    BY Zenon, <1>0, <1>2, StartsMoves
  <2>2. ASSUME NEW l \in Node, NEW t, Adopts(n, l, t)
        PROVE  ~InElection(st'[n])
    <3>1. st'[n] = SetLeader(l, t)
      BY Zenon, <1>0, <2>2 DEF Adopts, TypeOK
    <3> QED
      BY <3>1 DEF SetLeader, InElection, PhaseLeader, PhaseElecting, PhaseWaitingCoordinator
  <2>3. ~InElection(st'[n]) \/ Beginning(n)'
    BY Zenon, <1>0, <1>2, <2>2, StateMoves, MessageFields
  <2> QED
    BY Zenon, <2>1, <2>3 DEF Beginning
<1> QED
  BY Zenon, <1>1, <1>2

(* The messages: what can become of one that is under way, and where a new  *)
(* one comes from.                                                          *)

LEMMA Closing ==
    ASSUME NEW n, NEW e, NEW r \in requests, up[r.to]
    PROVE  \E q \in CloseRequests(n, e) : q.from = r.from /\ q.to = r.to
<1> DEFINE mine == {q \in requests : q.from = n /\ q.term = e.term}
<1>1. CASE r \notin mine
  <2>1. r \in CloseRequests(n, e)
    BY Zenon, <1>1 DEF CloseRequests
  <2> QED
    BY Zenon, <2>1
<1>2. CASE r \in mine
  <2>1. [r EXCEPT !.open = FALSE] \in CloseRequests(n, e)
    BY Zenon, <1>2 DEF CloseRequests
  <2>2. [r EXCEPT !.open = FALSE].from = r.from /\ [r EXCEPT !.open = FALSE].to = r.to
    OBVIOUS
  <2> QED
    BY Zenon, <2>1, <2>2
<1> QED
  BY <1>1, <1>2

\* A call between running nodes is kept, open or not, until it is handled.
LEMMA RequestMoves ==
    ASSUME TypeOK, Synchronous, [Next]_vars, NEW r \in requests, up'[r.from], up[r.to], up'[r.to]
    PROVE  Asking(r.from, r.to)' \/ OnStartElection(r)
<1>0. r.from \in Node /\ r.to \in Node
  BY Zenon, MessageFields
<1>1. ASSUME r \in requests'
      PROVE  Asking(r.from, r.to)'
  BY Zenon, <1>1 DEF Asking
<1>2. ASSUME NEW n, NEW e, requests' = CloseRequests(n, e)
      PROVE  Asking(r.from, r.to)'
  BY Zenon, <1>2, Closing DEF Asking
<1>3. ASSUME NEW k \in Node, EngineStep(k)
      PROVE  Asking(r.from, r.to)'
  <2>1. ASSUME startElection(k)
        PROVE  r \in requests'
    BY Zenon, <2>1 DEF startElection
  <2>2. ASSUME NEW e, EnterWaiting(k, e) \/ SendTimeout(k, e)
        PROVE  requests' = CloseRequests(k, e)
    BY Zenon, <2>2 DEF EnterWaiting, SendTimeout
  <2>3. ASSUME NEW e, \/ handleNodeJoined(k) \/ handleNodeLost(k) \/ handleElectRequest(k)
                      \/ declareLeader(k, e) \/ WaitReceive(k, e) \/ WaitTimeout(k, e)
        PROVE  UNCHANGED requests
    BY Zenon, <2>3 DEF handleNodeJoined, handleNodeLost, handleElectRequest, declareLeader,
       WaitReceive, WaitTimeout
  <2> QED
    BY Zenon, <1>1, <1>2, <1>3, <2>1, <2>2, <2>3 DEF EngineStep
<1>4. ASSUME NEW k \in Node, Crash(k)
      PROVE  r \in requests'
  <2>1. r.from # k /\ r.to # k
    BY Zenon, <1>4 DEF Crash, TypeOK
  <2> QED
    BY Zenon, <1>4, <2>1 DEF Crash
<1>5. ASSUME NEW k \in Node, Start(k)
      PROVE  r \in requests'
  BY Zenon, <1>5 DEF Start
<1>6. ASSUME Delivery
      PROVE  r \in requests' \/ OnStartElection(r)
  BY Zenon, <1>6 DEF Delivery, OnStartElection, LoseRequest, OnAnnounceLeader, LoseAnnounce, Reannounce
<1>7. CASE UNCHANGED vars
  BY Zenon, <1>1, <1>7 DEF vars
<1> QED
  BY Zenon, <1>1, <1>3, <1>4, <1>5, <1>6, <1>7, Cases, MembershipFrame

\* A call was under way before, or startElection makes it to a higher member.
LEMMA RequestOrigins ==
    ASSUME TypeOK, [Next]_vars, NEW r \in requests'
    PROVE  \/ \E q \in requests : r.from = q.from /\ r.to = q.to
           \/ \E k \in Node : /\ up[k] /\ UNCHANGED up /\ r.from = k
                             /\ r.to \in members[k] /\ r.to > k
<1> DEFINE Known == \E q \in requests : r.from = q.from /\ r.to = q.to
<1>1. ASSUME r \in requests
      PROVE  Known
  BY Zenon, <1>1
<1>2. ASSUME NEW q \in requests, r = q \/ r = [q EXCEPT !.open = FALSE]
      PROVE  Known
  <2>1. q \in Request
    BY DEF TypeOK
  <2>2. r.to = q.to /\ r.from = q.from
    BY <1>2, <2>1 DEF Request
  <2> QED
    BY Zenon, <2>2
<1>3. ASSUME NEW n, NEW e, requests' = CloseRequests(n, e)
      PROVE  Known
  <2>1. \E q \in requests : r = q \/ r = [q EXCEPT !.open = FALSE]
    BY Zenon, <1>3 DEF CloseRequests
  <2> HIDE DEF Known
  <2> QED
    BY Zenon, <1>2, <2>1
<1>4. ASSUME NEW k \in Node, EngineStep(k)
      PROVE  Known \/ (up[k] /\ UNCHANGED up /\ r.from = k /\ r.to \in members[k] /\ r.to > k)
  <2> HIDE DEF Known
  <2>1. ASSUME startElection(k), r \notin requests
        PROVE  up[k] /\ UNCHANGED up /\ r.from = k /\ r.to \in members[k] /\ r.to > k
    <3>1. requests' = requests \cup
            {[from |-> k, to |-> m, term |-> st[k].term + 1, open |-> TRUE] : m \in {m \in members[k] : m > k}}
      BY Zenon, <2>1 DEF startElection
    <3>2. PICK m \in members[k] : m > k /\ r = [from |-> k, to |-> m, term |-> st[k].term + 1, open |-> TRUE]
      BY Zenon, <2>1, <3>1
    <3>3. r.from = k /\ r.to = m
      BY <3>2
    <3> QED
      BY Zenon, <2>1, <3>2, <3>3 DEF startElection
  <2>2. ASSUME NEW e, EnterWaiting(k, e) \/ SendTimeout(k, e)
        PROVE  requests' = CloseRequests(k, e)
    BY Zenon, <2>2 DEF EnterWaiting, SendTimeout
  <2>3. ASSUME NEW e, \/ handleNodeJoined(k) \/ handleNodeLost(k) \/ handleElectRequest(k)
                      \/ declareLeader(k, e) \/ WaitReceive(k, e) \/ WaitTimeout(k, e)
        PROVE  UNCHANGED requests
    BY Zenon, <2>3 DEF handleNodeJoined, handleNodeLost, handleElectRequest, declareLeader,
       WaitReceive, WaitTimeout
  <2> QED
    BY Zenon, <1>1, <1>3, <1>4, <2>1, <2>2, <2>3 DEF EngineStep
<1>5. ASSUME NEW k \in Node, Crash(k)
      PROVE  Known
  <2>1. requests' = {IF q.from = k THEN [q EXCEPT !.open = FALSE] ELSE q :
                       q \in {q \in requests : (q.from = k => up[q.to]) /\ (q.to = k => q.open)}}
    BY Zenon, <1>5 DEF Crash
  <2>2. \E q \in requests : r = q \/ r = [q EXCEPT !.open = FALSE]
    BY Zenon, <2>1
  <2> HIDE DEF Known
  <2> QED
    BY Zenon, <1>2, <2>2
<1>6. ASSUME NEW k \in Node, Start(k)
      PROVE  r \in requests
  BY Zenon, <1>6 DEF Start
<1>7. ASSUME Delivery
      PROVE  r \in requests
  BY Zenon, <1>7 DEF Delivery, OnStartElection, LoseRequest, OnAnnounceLeader, LoseAnnounce, Reannounce
<1>8. ASSUME UNCHANGED vars
      PROVE  r \in requests
  BY Zenon, <1>8 DEF vars
<1>9. Known \/ \E k \in Node : up[k] /\ UNCHANGED up /\ r.from = k /\ r.to \in members[k] /\ r.to > k
  <2> HIDE DEF Known
  <2> QED
    BY Zenon, <1>1, <1>4, <1>5, <1>6, <1>7, <1>8, Cases, MembershipFrame
<1> QED
  BY Zenon, <1>9

\* Which steps of a node's engine make announcements.
LEMMA EngineAnnounces ==
    ASSUME NEW k \in Node, EngineStep(k)
    PROVE  \/ UNCHANGED announces
           \/ \E e \in elections[k] :
                 /\ declareLeader(k, e) /\ Adopts(k, k, e.term)
                 /\ announces' = announces \cup
                      {[to |-> m, leader |-> k, term |-> e.term] : m \in members[k]}
<1>1. ASSUME NEW e \in elections[k], declareLeader(k, e)
      PROVE  \/ UNCHANGED announces
             \/ /\ Adopts(k, k, e.term)
                /\ announces' = announces \cup
                     {[to |-> m, leader |-> k, term |-> e.term] : m \in members[k]}
  BY Zenon, <1>1 DEF declareLeader, Adopts
<1>2. ASSUME NEW e, \/ handleNodeJoined(k) \/ handleNodeLost(k) \/ handleElectRequest(k) \/ startElection(k)
                    \/ EnterWaiting(k, e) \/ SendTimeout(k, e) \/ WaitReceive(k, e) \/ WaitTimeout(k, e)
      PROVE  UNCHANGED announces
  BY Zenon, <1>2 DEF handleNodeJoined, handleNodeLost, handleElectRequest, startElection,
     EnterWaiting, SendTimeout, WaitReceive, WaitTimeout
<1> QED
  BY Zenon, <1>1, <1>2 DEF EngineStep

\* An announcement between running nodes is kept until it is handled.
LEMMA AnnounceMoves ==
    ASSUME TypeOK, Synchronous, [Next]_vars, NEW a \in announces,
           up[a.leader], up'[a.leader], up[a.to], up'[a.to]
    PROVE  a \in announces' \/ OnAnnounceLeader(a)
<1>0. a.leader \in Node /\ a.to \in Node
  BY Zenon, MessageFields
<1>1. ASSUME NEW k \in Node, EngineStep(k)
      PROVE  a \in announces'
  BY Zenon, <1>1, EngineAnnounces
<1>2. ASSUME NEW k \in Node, Crash(k)
      PROVE  a \in announces'
  <2>1. a.leader # k /\ a.to # k
    BY Zenon, <1>2 DEF Crash, TypeOK
  <2> QED
    BY Zenon, <1>2, <2>1 DEF Crash
<1>3. ASSUME NEW k \in Node, Start(k)
      PROVE  a \in announces'
  BY Zenon, <1>3 DEF Start
<1>4. ASSUME NEW b \in announces, LoseAnnounce(b)
      PROVE  a \in announces'
  <2>1. b # a
    BY Zenon, <1>4 DEF LoseAnnounce, Lost
  <2> QED
    BY Zenon, <1>4, <2>1 DEF LoseAnnounce
<1>5. ASSUME \/ \E r \in requests : OnStartElection(r) \/ LoseRequest(r)
             \/ \E r \in reannounce : Reannounce(r)
      PROVE  a \in announces'
  BY Zenon, <1>5 DEF OnStartElection, LoseRequest, Reannounce
<1>6. ASSUME NEW b \in announces, OnAnnounceLeader(b)
      PROVE  a \in announces' \/ OnAnnounceLeader(a)
  BY Zenon, <1>6 DEF OnAnnounceLeader
<1>7. ASSUME UNCHANGED vars
      PROVE  a \in announces'
  BY Zenon, <1>7 DEF vars
<1> QED
  BY Zenon, <1>1, <1>2, <1>3, <1>4, <1>5, <1>6, <1>7, Cases, MembershipFrame DEF Delivery

LEMMA AnnounceOrigins ==
    ASSUME TypeOK, [Next]_vars, NEW a \in announces', a \notin announces
    PROVE  \/ \E n \in Node : \E e \in elections[n] :
                 /\ declareLeader(n, e) /\ Adopts(n, n, e.term) /\ UNCHANGED up
                 /\ a.to \in members[n] /\ a.leader = n /\ a.term = e.term
           \/ \E r \in reannounce :
                 /\ Reannounce(r) /\ UNCHANGED <<up, st>>
                 /\ a.to = r.to /\ a.leader = r.from /\ a.term = st[r.from].term
<1>1. ASSUME NEW k \in Node, EngineStep(k)
      PROVE  \E e \in elections[k] :
                 /\ declareLeader(k, e) /\ Adopts(k, k, e.term) /\ UNCHANGED up
                 /\ a.to \in members[k] /\ a.leader = k /\ a.term = e.term
  <2>1. PICK e \in elections[k] :
              /\ declareLeader(k, e) /\ Adopts(k, k, e.term)
              /\ announces' = announces \cup
                   {[to |-> m, leader |-> k, term |-> e.term] : m \in members[k]}
    BY Zenon, <1>1, EngineAnnounces
  <2>2. PICK m \in members[k] : a = [to |-> m, leader |-> k, term |-> e.term]
    BY Zenon, <2>1
  <2>3. a.to = m /\ a.leader = k /\ a.term = e.term
    BY <2>2
  <2> QED
    BY Zenon, <1>1, <2>1, <2>2, <2>3, EngineFrame
<1>2. ASSUME NEW r \in reannounce, Reannounce(r)
      PROVE  /\ UNCHANGED <<up, st>>
             /\ a.to = r.to /\ a.leader = r.from /\ a.term = st[r.from].term
  <2>1. UNCHANGED <<up, st>> /\ a = [to |-> r.to, leader |-> r.from, term |-> st[r.from].term]
    BY Zenon, <1>2 DEF Reannounce
  <2> QED
    BY <2>1
<1>3. ASSUME NEW k \in Node, Crash(k) \/ Start(k)
      PROVE  FALSE
  BY Zenon, <1>3 DEF Crash, Start
<1>4. ASSUME \/ \E r \in requests : OnStartElection(r) \/ LoseRequest(r)
             \/ \E b \in announces : OnAnnounceLeader(b) \/ LoseAnnounce(b)
      PROVE  FALSE
  BY Zenon, <1>4 DEF OnStartElection, LoseRequest, OnAnnounceLeader, LoseAnnounce
<1>5. ~ UNCHANGED vars
  BY Zenon DEF vars
<1> QED
  BY Zenon, <1>1, <1>2, <1>3, <1>4, <1>5, Cases, MembershipFrame DEF Delivery

LEMMA ReannounceMoves ==
    ASSUME TypeOK, [Next]_vars, NEW r \in reannounce, up'[r.from]
    PROVE  r \in reannounce' \/ Reannounce(r)
<1>0. r.from \in Node
  BY Zenon, MessageFields
<1>1. ASSUME NEW k \in Node, Crash(k)
      PROVE  r \in reannounce'
  <2>1. r.from # k
    BY Zenon, <1>0, <1>1 DEF Crash, TypeOK
  <2> QED
    BY Zenon, <1>1, <2>1 DEF Crash
<1>2. ASSUME NEW k \in Node, Start(k)
      PROVE  r \in reannounce'
  BY Zenon, <1>2 DEF Start
<1>3. ASSUME Delivery
      PROVE  r \in reannounce' \/ Reannounce(r)
  BY Zenon, <1>3 DEF Delivery, OnStartElection, LoseRequest, OnAnnounceLeader, LoseAnnounce, Reannounce
<1>4. ASSUME UNCHANGED vars
      PROVE  r \in reannounce'
  BY Zenon, <1>4 DEF vars
<1> QED
  BY Zenon, <1>1, <1>2, <1>3, <1>4, Cases, MembershipFrame, EngineFrame

LEMMA ReannounceOrigins ==
    ASSUME TypeOK, [Next]_vars, NEW r \in reannounce', r \notin reannounce
    PROVE  \E q \in requests : OnStartElection(q) /\ r.from = q.to /\ r.to = q.from
<1>1. ASSUME NEW k \in Node, Crash(k) \/ Start(k)
      PROVE  FALSE
  BY Zenon, <1>1 DEF Crash, Start
<1>2. ASSUME NEW q \in requests, OnStartElection(q)
      PROVE  r.from = q.to /\ r.to = q.from
  <2>1. r = [from |-> q.to, to |-> q.from]
    BY Zenon, <1>2 DEF OnStartElection
  <2> QED
    BY <2>1
<1>3. ASSUME \/ \E q \in requests : LoseRequest(q)
             \/ \E b \in announces : OnAnnounceLeader(b) \/ LoseAnnounce(b)
             \/ \E q \in reannounce : Reannounce(q)
      PROVE  FALSE
  BY Zenon, <1>3 DEF LoseRequest, OnAnnounceLeader, LoseAnnounce, Reannounce
<1>4. ~ UNCHANGED vars
  BY Zenon DEF vars
<1> QED
  BY Zenon, <1>1, <1>2, <1>3, <1>4, Cases, MembershipFrame, EngineFrame DEF Delivery

(* The membership events of a node, who is known and who runs.              *)

LEMMA EventMoves ==
    ASSUME TypeOK, [Next]_vars, NEW n \in Node, up[n], up'[n]
    PROVE  \/ eventC'[n] = eventC[n]
           \/ /\ eventC[n] # <<>> /\ eventC'[n] = Tail(eventC[n])
              /\ handleNodeJoined(n) \/ handleNodeLost(n)
           \/ \E m \in Node : eventC'[n] = Offer(eventC[n], EventCap, [type |-> "join", id |-> m])
           \/ \E m \in Node : /\ NotifyLeave(n, m)
                              /\ eventC'[n] = Offer(eventC[n], EventCap, [type |-> "leave", id |-> m])
<1>0. eventC \in [Node -> EventQueue]
  BY DEF TypeOK
<1>1. ASSUME NEW k \in Node, EngineStep(k)
      PROVE  \/ eventC'[n] = eventC[n]
             \/ /\ eventC[n] # <<>> /\ eventC'[n] = Tail(eventC[n])
                /\ handleNodeJoined(n) \/ handleNodeLost(n)
  <2>1. ASSUME handleNodeJoined(k) \/ handleNodeLost(k)
        PROVE  eventC[k] # <<>> /\ eventC' = [eventC EXCEPT ![k] = Tail(@)]
    BY Zenon, <2>1 DEF handleNodeJoined, handleNodeLost
  <2>2. ASSUME NEW e, \/ handleElectRequest(k) \/ startElection(k)
                      \/ EnterWaiting(k, e) \/ SendTimeout(k, e) \/ declareLeader(k, e)
                      \/ WaitReceive(k, e) \/ WaitTimeout(k, e)
        PROVE  UNCHANGED eventC
    BY Zenon, <2>2 DEF handleElectRequest, startElection, EnterWaiting, SendTimeout,
       declareLeader, WaitReceive, WaitTimeout
  <2>3. UNCHANGED eventC \/ handleNodeJoined(k) \/ handleNodeLost(k)
    BY Zenon, <1>1, <2>2 DEF EngineStep
  <2>4. CASE k = n
    <3>1. ASSUME handleNodeJoined(n) \/ handleNodeLost(n)
          PROVE  eventC[n] # <<>> /\ eventC'[n] = Tail(eventC[n])
      BY Zenon, <1>0, <2>1, <2>4, <3>1
    <3> QED
      BY Zenon, <2>3, <2>4, <3>1
  <2>5. CASE k # n
    BY Zenon, <1>0, <2>1, <2>3, <2>5
  <2> QED
    BY Zenon, <2>4, <2>5
<1>2. ASSUME NEW k \in Node, Crash(k)
      PROVE  eventC'[n] = eventC[n]
  <2>1. k # n
    BY Zenon, <1>2 DEF Crash, TypeOK
  <2> QED
    BY Zenon, <1>0, <1>2, <2>1 DEF Crash
<1>3. ASSUME NEW k \in Node, Start(k)
      PROVE  \/ eventC'[n] = eventC[n]
             \/ eventC'[n] = Offer(eventC[n], EventCap, [type |-> "join", id |-> k])
  <2>1. k # n
    BY Zenon, <1>3 DEF Start
  <2> QED
    BY Zenon, <1>3, <2>1 DEF Start
<1>4. ASSUME NEW k \in Node, NEW m \in Node, NotifyJoin(k, m) \/ NotifyLeave(k, m)
      PROVE  \/ eventC'[n] = eventC[n]
             \/ eventC'[n] = Offer(eventC[n], EventCap, [type |-> "join", id |-> m])
             \/ /\ NotifyLeave(n, m)
                /\ eventC'[n] = Offer(eventC[n], EventCap, [type |-> "leave", id |-> m])
  <2>1. CASE k # n
    BY Zenon, <1>0, <1>4, <2>1 DEF NotifyJoin, NotifyLeave
  <2>2. CASE k = n
    BY Zenon, <1>0, <1>4, <2>2 DEF NotifyJoin, NotifyLeave
  <2> QED
    BY Zenon, <2>1, <2>2
<1>5. CASE UNCHANGED vars
  BY Zenon, <1>5 DEF vars
<1> QED
  BY Zenon, <1>1, <1>2, <1>3, <1>4, <1>5, Cases, DeliveryFrame DEF MembershipStep

LEMMA NoCrash ==
    ASSUME TypeOK, [Next]_vars, crashes' = 0
    PROVE  crashes = 0 /\ \A n \in Node : up[n] => up'[n]
<1>1. ASSUME NEW k \in Node, Crash(k)
      PROVE  FALSE
  <2>1. crashes' = crashes + 1 /\ crashes \in Nat
    BY Zenon, <1>1 DEF Crash, TypeOK
  <2> QED
    BY <2>1
<1>2. ASSUME NEW k \in Node, Start(k)
      PROVE  crashes = 0 /\ \A n \in Node : up[n] => up'[n]
  BY Zenon, <1>2 DEF Start, TypeOK
<1>3. CASE UNCHANGED vars
  BY Zenon, <1>3 DEF vars
<1> QED
  BY Zenon, <1>1, <1>2, <1>3, Cases, EngineFrame, MembershipFrame, DeliveryFrame

LEMMA MembersMoves ==
    ASSUME TypeOK, [Next]_vars, NEW n \in Node, NEW m \in members'[n], m \notin members[n]
    PROVE  up'[m]
<1>1. ASSUME NEW k \in Node, Start(k)
      PROVE  up'[m]
  <2>1. PICK S \in IF Synchronous THEN {{l \in Node \ {k} : up[l]}} ELSE SUBSET {l \in Node \ {k} : up[l]} :
            members' = [l \in Node |-> IF l = k THEN {k} \cup S
                                      ELSE IF l \in S THEN members[l] \cup {k}
                                      ELSE members[l]]
    BY Zenon, <1>1 DEF Start
  <2>2. \A l \in S : l \in Node \ {k} /\ up[l]
    BY Zenon, <2>1
  <2>3. m = k \/ m \in S
    BY Zenon, <2>1
  <2>4. up' = [up EXCEPT ![k] = TRUE]
    BY Zenon, <1>1 DEF Start
  <2> QED
    BY Zenon, <2>2, <2>3, <2>4 DEF TypeOK
<1>2. ASSUME NEW k \in Node, Crash(k)
      PROVE  FALSE
  BY Zenon, <1>2 DEF Crash, TypeOK
<1>3. ASSUME NEW k \in Node, NEW l \in Node, NotifyJoin(k, l) \/ NotifyLeave(k, l)
      PROVE  up'[m]
  <2>1. CASE k # n
    BY Zenon, <1>3, <2>1 DEF NotifyJoin, NotifyLeave, TypeOK
  <2>2. CASE NotifyJoin(n, l)
    <3>1. up[l] /\ UNCHANGED up /\ members'[n] = members[n] \cup {l}
      BY Zenon, <2>2 DEF NotifyJoin, TypeOK
    <3> QED
      BY Zenon, <3>1
  <2>3. CASE NotifyLeave(n, l)
    <3>1. members'[n] = members[n] \ {l}
      BY Zenon, <2>3 DEF NotifyLeave, TypeOK
    <3> QED
      BY Zenon, <3>1
  <2> QED
    BY Zenon, <1>3, <2>1, <2>2, <2>3
<1>4. ~ UNCHANGED vars
  BY Zenon DEF vars
<1> QED
  BY Zenon, <1>1, <1>2, <1>3, <1>4, Cases, EngineFrame, DeliveryFrame DEF MembershipStep

-----------------------------------------------------------------------------
(* The goroutines of startElection and the calls of sendToHigher.            *)

LEMMA CloseKeeps ==
    ASSUME NEW k, NEW f, NEW r \in requests, r.from # k \/ r.term # f.term
    PROVE  r \in CloseRequests(k, f)
BY Zenon DEF CloseRequests

\* An engine step of n itself.
LEMMA SendingEngine ==
    ASSUME Coherent, NEW n \in Node, EngineStep(n), NEW e \in elections'[n], e.pc = "sending"
    PROVE  \/ /\ e \in elections[n]
              /\ \A r \in requests : r.from = n /\ r.term = e.term => r \in requests'
           \/ /\ \E m \in members[n] : m > n
              /\ \A m \in members[n] : m > n =>
                    [from |-> n, to |-> m, term |-> e.term, open |-> TRUE] \in requests'
<1> DEFINE Kept == /\ e \in elections[n]
                   /\ \A r \in requests : r.from = n /\ r.term = e.term => r \in requests'
           Begun == /\ \E m \in members[n] : m > n
                    /\ \A m \in members[n] : m > n =>
                          [from |-> n, to |-> m, term |-> e.term, open |-> TRUE] \in requests'
<1> SUFFICES Kept \/ Begun
  OBVIOUS
<1>0. /\ elections \in [Node -> SUBSET ElectionRun]
      /\ \A f \in elections[n] : f.term = e.term /\ e \in elections[n] => f = e
  BY Zenon DEF Coherent, TypeOK, ElectionsSeparated
<1>1. ASSUME startElection(n)
      PROVE  Kept \/ Begun
  <2> DEFINE higher == {m \in members[n] : m > n}
             g == [term |-> st[n].term + 1, pc |-> IF higher = {} THEN "declaring" ELSE "sending"]
  <2>1. \/ UNCHANGED <<elections, requests>>
        \/ /\ elections' = [elections EXCEPT ![n] = @ \cup {g}]
           /\ requests' = requests \cup
                {[from |-> n, to |-> m, term |-> g.term, open |-> TRUE] : m \in higher}
    BY Zenon, <1>1 DEF startElection
  <2>2. "declaring" # "sending" /\ g.pc = IF higher = {} THEN "declaring" ELSE "sending"
    OBVIOUS
  <2> HIDE DEF g
  <2>3. CASE e \in elections[n]
    BY Zenon, <2>1, <2>3
  <2>4. CASE e \notin elections[n]
    <3>1. e = g
      BY Zenon, <1>0, <2>1, <2>4
    <3>2. higher # {}
      BY Zenon, <2>2, <3>1
    <3>3. requests' = requests \cup
                {[from |-> n, to |-> m, term |-> g.term, open |-> TRUE] : m \in higher}
      BY Zenon, <2>1, <2>4
    <3> QED
      BY Zenon, <3>1, <3>2, <3>3
  <2> QED
    BY Zenon, <2>3, <2>4
<1>2. ASSUME NEW f \in elections[n], SendTimeout(n, f) \/ EnterWaiting(n, f)
      PROVE  Kept
  <2>1. /\ requests' = CloseRequests(n, f)
        /\ \/ elections' = [elections EXCEPT ![n] = @ \ {f}]
           \/ \E pc \in {"declaring", "waiting"} :
                 elections' = [elections EXCEPT ![n] = (@ \ {f}) \cup {[f EXCEPT !.pc = pc]}]
    BY Zenon, <1>2 DEF SendTimeout, EnterWaiting, Advance, End
  <2>2. ASSUME NEW pc \in {"declaring", "waiting"}
        PROVE  e # [f EXCEPT !.pc = pc]
    <3>1. f \in ElectionRun
      BY Zenon, <1>0
    <3>2. [f EXCEPT !.pc = pc].pc # "sending"
      BY <3>1 DEF ElectionRun
    <3> QED
      BY Zenon, <3>2
  <2>3. e \in elections[n] /\ e # f
    BY ZenonT(30), <1>0, <2>1, <2>2
  <2>4. f.term # e.term
    BY Zenon, <1>0, <2>3
  <2> QED
    BY Zenon, <2>1, <2>3, <2>4, CloseKeeps
<1>3. ASSUME NEW f \in elections[n], declareLeader(n, f) \/ WaitReceive(n, f) \/ WaitTimeout(n, f)
      PROVE  Kept
  <2>1. UNCHANGED requests /\ (UNCHANGED elections \/ elections' = [elections EXCEPT ![n] = @ \ {f}])
    BY Zenon, <1>3 DEF declareLeader, WaitReceive, WaitTimeout, Restart, End
  <2> QED
    BY Zenon, <1>0, <2>1
<1>4. ASSUME handleNodeJoined(n) \/ handleNodeLost(n) \/ handleElectRequest(n)
      PROVE  Kept
  BY Zenon, <1>4 DEF handleNodeJoined, handleNodeLost, handleElectRequest
<1> HIDE DEF Kept, Begun
<1> QED
  BY Zenon, <1>1, <1>2, <1>3, <1>4 DEF EngineStep

\* The engine step of another node.
LEMMA SendingOther ==
    ASSUME TypeOK, NEW n \in Node, NEW k \in Node, k # n, EngineStep(k)
    PROVE  /\ elections'[n] = elections[n]
           /\ \A r \in requests : r.from = n => r \in requests'
<1>0. elections \in [Node -> SUBSET ElectionRun]
  BY DEF TypeOK
<1>1. ASSUME startElection(k)
      PROVE  elections'[n] = elections[n] /\ requests \subseteq requests'
  BY Zenon, <1>0, <1>1 DEF startElection
<1>2. ASSUME NEW f \in elections[k], SendTimeout(k, f) \/ EnterWaiting(k, f)
      PROVE  elections'[n] = elections[n] /\ requests' = CloseRequests(k, f)
  BY Zenon, <1>0, <1>2 DEF SendTimeout, EnterWaiting, Advance, End
<1>3. ASSUME NEW f \in elections[k], declareLeader(k, f) \/ WaitReceive(k, f) \/ WaitTimeout(k, f)
      PROVE  elections'[n] = elections[n] /\ UNCHANGED requests
  BY Zenon, <1>0, <1>3 DEF declareLeader, WaitReceive, WaitTimeout, Restart, End
<1>4. ASSUME handleNodeJoined(k) \/ handleNodeLost(k) \/ handleElectRequest(k)
      PROVE  UNCHANGED <<elections, requests>>
  BY Zenon, <1>4 DEF handleNodeJoined, handleNodeLost, handleElectRequest
<1>5. ASSUME NEW f, NEW r \in requests, r.from = n
      PROVE  r \in CloseRequests(k, f)
  BY Zenon, <1>5, CloseKeeps
<1> QED
  BY Zenon, <1>1, <1>2, <1>3, <1>4, <1>5 DEF EngineStep

\* A goroutine inside sendToHigher has just called every higher member, or was
\* there before and its open calls to running nodes are still under way.
LEMMA SendingMoves ==
    ASSUME Coherent, TypeOK', Synchronous, [Next]_vars, NEW n \in Node, up[n], up'[n],
           NEW e \in elections'[n], e.pc = "sending"
    PROVE  \/ /\ e \in elections[n]
              /\ \A r \in requests : r.from = n /\ r.term = e.term /\ r.open /\ up'[r.to] => r \in requests'
           \/ /\ UNCHANGED <<up, members>>
              /\ \E m \in members[n] : m > n
              /\ \A m \in members[n] : m > n =>
                    [from |-> n, to |-> m, term |-> e.term, open |-> TRUE] \in requests'
<1> DEFINE Kept == /\ e \in elections[n]
                   /\ \A r \in requests : r.from = n /\ r.term = e.term /\ r.open /\ up'[r.to] => r \in requests'
<1>0. TypeOK /\ elections \in [Node -> SUBSET ElectionRun]
  BY Zenon DEF Coherent, TypeOK
<1>1. ASSUME NEW k \in Node, k # n, EngineStep(k)
      PROVE  Kept
  BY Zenon, <1>0, <1>1, SendingOther
<1>2. ASSUME NEW k \in Node, Crash(k)
      PROVE  Kept
  <2>1. k # n
    BY Zenon, <1>0, <1>2 DEF Crash, TypeOK
  <2>2. elections'[n] = elections[n]
    BY Zenon, <1>0, <1>2, <2>1 DEF Crash
  <2>3. ASSUME NEW r \in requests, r.from = n, up'[r.to]
        PROVE  r \in requests'
    <3>0. up' = [up EXCEPT ![k] = FALSE] /\ up \in [Node -> BOOLEAN]
      BY Zenon, <1>0, <1>2 DEF Crash, TypeOK
    <3>1. r.to # k
      BY Zenon, <2>3, <3>0
    <3> QED
      BY Zenon, <1>2, <2>1, <2>3, <3>1 DEF Crash
  <2> QED
    BY Zenon, <2>2, <2>3
<1>3. ASSUME NEW k \in Node, Start(k)
      PROVE  Kept
  BY Zenon, <1>3 DEF Start
<1>4. ASSUME NEW q \in requests, OnStartElection(q)
      PROVE  Kept
  <2> DEFINE f == [term |-> q.term, pc |-> "sending"]
  <2>1. /\ requests' = requests \ {q} /\ q.from \in Node
        /\ elections' = IF q.open /\ f \in elections[q.from]
                        THEN [elections EXCEPT ![q.from] = (@ \ {f}) \cup {[f EXCEPT !.pc = "ok"]}]
                        ELSE elections
    BY Zenon, <1>0, <1>4, MessageFields DEF OnStartElection, Advance
  <2>2. [f EXCEPT !.pc = "ok"].pc # "sending"
    OBVIOUS
  <2>3. e.term = q.term => e = f
    <3>1. e \in ElectionRun
      BY Zenon DEF TypeOK
    <3> QED
      BY <3>1 DEF ElectionRun
  <2> HIDE DEF f
  <2>4. e \in elections[n]
    BY Zenon, <1>0, <2>1, <2>2
  <2>5. ASSUME q.from = n, q.term = e.term, q.open
        PROVE  FALSE
    <3>1. elections' = [elections EXCEPT ![n] = (@ \ {e}) \cup {[f EXCEPT !.pc = "ok"]}]
      BY Zenon, <2>1, <2>3, <2>4, <2>5
    <3>2. elections'[n] = (elections[n] \ {e}) \cup {[f EXCEPT !.pc = "ok"]}
      BY Zenon, <1>0, <3>1
    <3> QED
      BY Zenon, <2>2, <3>2
  <2> QED
    BY Zenon, <2>1, <2>4, <2>5
<1>5. ASSUME \/ \E q \in requests : LoseRequest(q)
             \/ \E a \in announces : OnAnnounceLeader(a) \/ LoseAnnounce(a)
             \/ \E q \in reannounce : Reannounce(q)
      PROVE  Kept
  BY Zenon, <1>5 DEF LoseRequest, OnAnnounceLeader, LoseAnnounce, Reannounce
<1>6. ASSUME UNCHANGED vars
      PROVE  Kept
  BY Zenon, <1>6 DEF vars
<1>7. ASSUME NEW k \in Node, MembershipStep(k)
      PROVE  Kept
  BY Zenon, <1>7, MembershipFrame
<1>8. ASSUME EngineStep(n), ~Kept
      PROVE  /\ UNCHANGED <<up, members>>
             /\ \E m \in members[n] : m > n
             /\ \A m \in members[n] : m > n =>
                   [from |-> n, to |-> m, term |-> e.term, open |-> TRUE] \in requests'
  BY Zenon, <1>8, SendingEngine, EngineFrame
<1>9. Kept \/ EngineStep(n)
  <2> HIDE DEF Kept
  <2> QED
    BY Zenon, <1>1, <1>2, <1>3, <1>4, <1>5, <1>6, <1>7, Cases DEF Delivery
<1> QED
  BY Zenon, <1>8, <1>9

\* Where a goroutine about to call declareLeader comes from.
LEMMA DeclaringMoves ==
    ASSUME TypeOK, Synchronous, [Next]_vars, NEW n \in Node, up[n], up'[n],
           \A m \in Node : up[m] => m \in members[n],
           NEW e \in elections'[n], e.pc = "declaring", e \notin elections[n]
    PROVE  /\ UNCHANGED up
           /\ \/ \A m \in Node : up[m] => m <= n
              \/ \E f \in elections[n] : SendTimeout(n, f)
<1>0. elections \in [Node -> SUBSET ElectionRun]
  BY DEF TypeOK
<1>1. ASSUME NEW k \in Node, k # n, EngineStep(k)
      PROVE  FALSE
  BY Zenon, <1>1, SendingOther
<1>2. ASSUME NEW k \in Node, Crash(k) \/ Start(k)
      PROVE  FALSE
  <2>1. k # n
    BY Zenon, <1>2 DEF Crash, Start, TypeOK
  <2> QED
    BY Zenon, <1>0, <1>2, <2>1 DEF Crash, Start
<1>3. ASSUME NEW q \in requests, OnStartElection(q)
      PROVE  FALSE
  <2> DEFINE f == [term |-> q.term, pc |-> "sending"]
  <2>1. /\ q.from \in Node
        /\ \/ UNCHANGED elections
           \/ elections' = [elections EXCEPT ![q.from] = (@ \ {f}) \cup {[f EXCEPT !.pc = "ok"]}]
    BY Zenon, <1>3, MessageFields DEF OnStartElection, Advance
  <2>2. [f EXCEPT !.pc = "ok"].pc # "declaring"
    OBVIOUS
  <2> HIDE DEF f
  <2>3. CASE q.from # n
    BY Zenon, <1>0, <2>1, <2>3
  <2>4. CASE elections' = [elections EXCEPT ![n] = (@ \ {f}) \cup {[f EXCEPT !.pc = "ok"]}]
    BY Zenon, <1>0, <2>2, <2>4
  <2> QED
    BY Zenon, <2>1, <2>3, <2>4
<1>4. ASSUME \/ \E q \in requests : LoseRequest(q)
             \/ \E a \in announces : OnAnnounceLeader(a) \/ LoseAnnounce(a)
             \/ \E q \in reannounce : Reannounce(q)
      PROVE  FALSE
  BY Zenon, <1>4 DEF LoseRequest, OnAnnounceLeader, LoseAnnounce, Reannounce
<1>5. ~ UNCHANGED vars
  BY Zenon DEF vars
<1>6. ASSUME NEW k \in Node, MembershipStep(k)
      PROVE  FALSE
  BY Zenon, <1>6, MembershipFrame
<1>7. ASSUME EngineStep(n)
      PROVE  \/ \A m \in Node : up[m] => m <= n
             \/ \E f \in elections[n] : SendTimeout(n, f)
  <2>1. ASSUME startElection(n), NEW m \in Node, up[m]
        PROVE  m <= n
    <3> DEFINE higher == {k \in members[n] : k > n}
               g == [term |-> st[n].term + 1, pc |-> IF higher = {} THEN "declaring" ELSE "sending"]
    <3>1. UNCHANGED elections \/ elections' = [elections EXCEPT ![n] = @ \cup {g}]
      BY Zenon, <2>1 DEF startElection
    <3>2. e = g
      BY Zenon, <1>0, <3>1
    <3>3. higher = {}
      BY <3>2
    <3>4. m \in members[n]
      BY Zenon, <2>1
    <3>5. ~(m > n)
      BY Zenon, <3>3, <3>4
    <3> QED
      BY <3>5, Ids
  <2>2. ASSUME NEW f \in elections[n], EnterWaiting(n, f)
        PROVE  FALSE
    <3>1. \/ elections' = [elections EXCEPT ![n] = @ \ {f}]
          \/ elections' = [elections EXCEPT ![n] = (@ \ {f}) \cup {[f EXCEPT !.pc = "waiting"]}]
      BY Zenon, <2>2 DEF EnterWaiting, Advance, End
    <3>2. f \in ElectionRun
      BY Zenon, <1>0
    <3>3. [f EXCEPT !.pc = "waiting"].pc # "declaring"
      BY <3>2 DEF ElectionRun
    <3> QED
      BY Zenon, <1>0, <3>1, <3>3
  <2>3. ASSUME NEW f \in elections[n], declareLeader(n, f) \/ WaitReceive(n, f) \/ WaitTimeout(n, f)
        PROVE  FALSE
    <3>1. UNCHANGED elections \/ elections' = [elections EXCEPT ![n] = @ \ {f}]
      BY Zenon, <2>3 DEF declareLeader, WaitReceive, WaitTimeout, Restart, End
    <3> QED
      BY Zenon, <1>0, <3>1
  <2>4. ASSUME handleNodeJoined(n) \/ handleNodeLost(n) \/ handleElectRequest(n)
        PROVE  FALSE
    BY Zenon, <2>4 DEF handleNodeJoined, handleNodeLost, handleElectRequest
  <2> QED
    BY Zenon, <1>7, <2>1, <2>2, <2>3, <2>4 DEF EngineStep
<1>8. EngineStep(n)
  BY Zenon, <1>1, <1>2, <1>3, <1>4, <1>5, <1>6, Cases DEF Delivery
<1> QED
  BY Zenon, <1>7, <1>8, EngineFrame

-----------------------------------------------------------------------------
(* The methods of State.                                                    *)

\* Every method returns a State.
LEMMA StateTyping ==
    ASSUME NEW s \in NodeState, NEW l \in Node, NEW t \in Nat
    PROVE  /\ NewState \in NodeState
           /\ UpdateTerm(s, t) \in NodeState
           /\ BeginElection(s) \in NodeState
           /\ EnterWaitingCoordinator(s) \in NodeState
           /\ SetLeader(l, t) \in NodeState
           /\ ClearLeaderIfMatches(s, l) \in NodeState
           /\ ResetElection(s, t) \in NodeState
<1> USE DEF NodeState, NoLeader, Phases, PhaseIdle, PhaseElecting, PhaseWaitingCoordinator,
            PhaseLeader
<1>1. NewState \in NodeState
  BY DEF NewState
<1>2. UpdateTerm(s, t) \in NodeState
  BY DEF UpdateTerm
<1>3. BeginElection(s) \in NodeState
  BY DEF BeginElection
<1>4. EnterWaitingCoordinator(s) \in NodeState
  BY DEF EnterWaitingCoordinator
<1>5. SetLeader(l, t) \in NodeState
  BY DEF SetLeader
<1>6. ClearLeaderIfMatches(s, l) \in NodeState
  BY Zenon DEF ClearLeaderIfMatches
<1>7. ResetElection(s, t) \in NodeState
  BY DEF ResetElection, InElection
<1> QED
  BY <1>1, <1>2, <1>3, <1>4, <1>5, <1>6, <1>7

-----------------------------------------------------------------------------
(* Type correctness.                                                        *)

LEMMA OfferTyping ==
    ASSUME NEW S, NEW ch \in Seq(S), NEW c, NEW ev \in S
    PROVE  Offer(ch, c, ev) \in Seq(S)
BY DEF Offer

\* eventC never holds more than its capacity.
LEMMA EventQueueTyping ==
    /\ <<>> \in EventQueue
    /\ \A q \in EventQueue : q # <<>> => Head(q) \in ClusterEvent /\ Tail(q) \in EventQueue
    /\ \A q \in EventQueue, ev \in ClusterEvent : Offer(q, EventCap, ev) \in EventQueue
<1>1. <<>> \in EventQueue
  BY BoundAssumption DEF EventQueue
<1>2. ASSUME NEW q \in EventQueue, q # <<>>
      PROVE  Head(q) \in ClusterEvent /\ Tail(q) \in EventQueue
  <2>1. q \in Seq(ClusterEvent) /\ Len(q) \in Nat /\ Len(q) <= EventCap
    BY DEF EventQueue
  <2>2. /\ Head(q) \in ClusterEvent /\ Tail(q) \in Seq(ClusterEvent)
        /\ Len(Tail(q)) = Len(q) - 1
    BY <1>2, <2>1
  <2> QED
    BY <2>1, <2>2, BoundAssumption DEF EventQueue
<1>3. ASSUME NEW q \in EventQueue, NEW ev \in ClusterEvent
      PROVE  Offer(q, EventCap, ev) \in EventQueue
  <2>1. q \in Seq(ClusterEvent) /\ Len(q) \in Nat
    BY DEF EventQueue
  <2>2. Append(q, ev) \in Seq(ClusterEvent) /\ Len(Append(q, ev)) = Len(q) + 1
    BY <2>1
  <2> QED
    BY <2>1, <2>2, BoundAssumption DEF EventQueue, Offer
<1> QED
  BY <1>1, <1>2, <1>3

LEMMA JoinEventsTyping ==
    ASSUME NEW S \in SUBSET Node, Cardinality(S) \in Nat, NEW q \in Orders(S)
    PROVE  JoinEvents(q) \in EventQueue
<1>1. Cardinality(S) \in Nat
  OBVIOUS
<1>2. q \in [1..Cardinality(S) -> S]
  BY DEF Orders
<1>3. q \in Seq(S)
  BY <1>1, <1>2
<1>4. Len(q) = Cardinality(S)
  BY <1>1, <1>2, <1>3
<1> DEFINE k == IF Len(q) < EventCap THEN Len(q) ELSE EventCap
<1>5. k \in Nat /\ k <= EventCap /\ k <= Cardinality(S)
  BY <1>1, <1>4, BoundAssumption
<1>6. JoinEvents(q) = [i \in 1..k |-> [type |-> "join", id |-> q[i]]]
  BY DEF JoinEvents
<1> HIDE DEF k
<1>7. \A i \in 1..k : q[i] \in Node
  BY <1>1, <1>2, <1>5
<1>8. JoinEvents(q) \in [1..k -> ClusterEvent]
  BY <1>6, <1>7 DEF ClusterEvent
<1>9. JoinEvents(q) \in Seq(ClusterEvent)
  BY <1>5, <1>8
<1>10. Len(JoinEvents(q)) = k
  BY <1>5, <1>8, <1>9
<1> QED
  BY <1>5, <1>9, <1>10 DEF EventQueue

LEMMA AdvanceTyping ==
    ASSUME elections \in [Node -> SUBSET ElectionRun], NEW n \in Node, NEW e \in elections[n],
           NEW pc \in Progress
    PROVE  /\ Advance(n, e, pc) \in [Node -> SUBSET ElectionRun]
           /\ End(n, e) \in [Node -> SUBSET ElectionRun]
BY DEF Advance, End, ElectionRun

LEMMA RestartTyping ==
    ASSUME TypeOK, NEW n \in Node, NEW e \in elections[n], Restart(n, e)
    PROVE  /\ st' \in [Node -> NodeState]
           /\ starts' \in [Node -> Nat]
           /\ elections' \in [Node -> SUBSET ElectionRun]
<1>1. e.term \in Nat
  BY DEF TypeOK, ElectionRun
<1>2. ResetElection(st[n], e.term) \in NodeState
  BY <1>1, StateTyping, Zenon DEF TypeOK
<1> QED
  BY <1>2 DEF Restart, TypeOK, End, ElectionRun

LEMMA CloseRequestsTyping ==
    ASSUME TypeOK, NEW n \in Node, NEW e \in elections[n]
    PROVE  CloseRequests(n, e) \subseteq Request
<1> SUFFICES ASSUME NEW x \in CloseRequests(n, e)
             PROVE  x \in Request
  OBVIOUS
<1>1. CASE x \in requests
  BY <1>1 DEF TypeOK
<1>2. CASE x \notin requests
  <2>1. PICK r \in requests : x = [r EXCEPT !.open = FALSE]
    BY <1>2 DEF CloseRequests
  <2> QED
    BY <2>1, Zenon DEF TypeOK, Request
<1> QED
  BY <1>1, <1>2

LEMMA InitTyping == Init => TypeOK
BY EventQueueTyping DEF Init, TypeOK, NodeState, NewState, NoLeader, Phases, PhaseIdle

\* The sizes of the sets of nodes that a starting node can find.
FiniteViews == \A S \in SUBSET Node : Cardinality(S) \in Nat

\* One step per action.
LEMMA StepTyping == FiniteViews /\ TypeOK /\ [Next]_vars => TypeOK'
<1> SUFFICES ASSUME FiniteViews, TypeOK, [Next]_vars
             PROVE  TypeOK'
  OBVIOUS
<1> USE NodeAssumption
<1>1. ASSUME NEW n \in Node, Start(n)
      PROVE  TypeOK'
  <2>1. PICK S \in SUBSET {m \in Node \ {n} : up[m]} : \E q \in Orders(S) :
            /\ members' = [m \in Node |-> IF m = n THEN {n} \cup S
                                         ELSE IF m \in S THEN members[m] \cup {n}
                                         ELSE members[m]]
            /\ eventC' = [m \in Node |->
                 IF m = n THEN JoinEvents(q)
                 ELSE IF m \in S /\ n \notin members[m]
                 THEN Offer(eventC[m], EventCap, [type |-> "join", id |-> n])
                 ELSE eventC[m]]
    BY <1>1, Zenon DEF Start
  <2>2. members' \in [Node -> SUBSET Node]
    BY <2>1 DEF TypeOK
  <2>3. eventC' \in [Node -> EventQueue]
    <3>1. \A q \in Orders(S) : JoinEvents(q) \in EventQueue
      <4>1. S \in SUBSET Node
        OBVIOUS
      <4>2. Cardinality(S) \in Nat
        BY Zenon, <4>1 DEF FiniteViews
      <4> QED
        BY Zenon, <4>1, <4>2, JoinEventsTyping
    <3>2. [type |-> "join", id |-> n] \in ClusterEvent
      BY DEF ClusterEvent
    <3>3. \A m \in Node : Offer(eventC[m], EventCap, [type |-> "join", id |-> n])
                             \in EventQueue
      BY <3>2, EventQueueTyping DEF TypeOK
    <3> QED
      BY <2>1, <3>1, <3>3 DEF TypeOK
  <2>4. st' \in [Node -> NodeState]
    BY <1>1, StateTyping, Zenon DEF Start, TypeOK
  <2> QED
    BY <1>1, <2>2, <2>3, <2>4, Zenon DEF Start, TypeOK
<1>2. ASSUME NEW n \in Node, Crash(n)
      PROVE  TypeOK'
  <2>1. st' \in [Node -> NodeState]
    BY <1>2, StateTyping, Zenon DEF Crash, TypeOK
  <2>2. requests' \subseteq Request
    <3> SUFFICES ASSUME NEW x \in requests'
                 PROVE  x \in Request
      OBVIOUS
    <3>1. PICK r \in requests : x = IF r.from = n THEN [r EXCEPT !.open = FALSE] ELSE r
      BY <1>2 DEF Crash
    <3> QED
      BY <3>1, Zenon DEF TypeOK, Request
  <2>3. eventC' \in [Node -> EventQueue] /\ internalC' \in [Node -> Seq(InternalEvent)]
    BY <1>2, EventQueueTyping DEF Crash, TypeOK
  <2>4. announces' \subseteq Announcement /\ reannounce' \subseteq [from : Node, to : Node]
    BY <1>2 DEF Crash, TypeOK
  <2>5. /\ up' \in [Node -> BOOLEAN] /\ members' \in [Node -> SUBSET Node]
        /\ electC' \in [Node -> BOOLEAN] /\ starts' \in [Node -> Nat]
        /\ elections' \in [Node -> SUBSET ElectionRun] /\ crashes' \in Nat
    BY <1>2 DEF Crash, TypeOK
  <2> QED
    BY Zenon, <2>1, <2>2, <2>3, <2>4, <2>5 DEF TypeOK
<1>3. ASSUME NEW n \in Node, NEW m \in Node, NotifyJoin(n, m) \/ NotifyLeave(n, m)
      PROVE  TypeOK'
  <2>1. \A t \in {"join", "leave"} :
           Offer(eventC[n], EventCap, [type |-> t, id |-> m]) \in EventQueue
    BY EventQueueTyping, Zenon DEF TypeOK, ClusterEvent
  <2>2. members' \in [Node -> SUBSET Node]
    BY <1>3 DEF NotifyJoin, NotifyLeave, TypeOK
  <2>3. eventC' \in [Node -> EventQueue]
    BY <1>3, <2>1 DEF NotifyJoin, NotifyLeave, TypeOK
  <2>4. UNCHANGED <<up, st, electC, internalC, starts, elections, requests, announces,
                    reannounce, crashes>>
    BY <1>3 DEF NotifyJoin, NotifyLeave
  <2> QED
    BY <2>2, <2>3, <2>4, Zenon DEF TypeOK
<1>4. ASSUME NEW n \in Node, handleNodeJoined(n)
      PROVE  TypeOK'
  <2>1. eventC' \in [Node -> EventQueue]
    BY <1>4, EventQueueTyping DEF handleNodeJoined, TypeOK
  <2>2. starts' \in [Node -> Nat]
    BY <1>4 DEF handleNodeJoined, TypeOK
  <2>3. UNCHANGED <<up, st, members, electC, internalC, elections, requests, announces,
                    reannounce, crashes>>
    BY <1>4 DEF handleNodeJoined
  <2> QED
    BY <2>1, <2>2, <2>3 DEF TypeOK
<1>5. ASSUME NEW n \in Node, handleNodeLost(n)
      PROVE  TypeOK'
  <2> DEFINE lostID == Head(eventC[n]).id
  <2>1. eventC[n] \in EventQueue /\ eventC[n] # <<>>
    BY <1>5 DEF handleNodeLost, TypeOK
  <2>2. Head(eventC[n]) \in ClusterEvent /\ Tail(eventC[n]) \in EventQueue
    BY <2>1, EventQueueTyping
  <2>3. lostID \in Node
    BY <2>2 DEF ClusterEvent
  <2>4. ClearLeaderIfMatches(st[n], lostID) \in NodeState /\ st[n].term \in Nat
    <3>1. st[n] \in NodeState /\ 0 \in Nat
      BY DEF TypeOK
    <3> QED
      BY <2>3, <3>1, StateTyping, Zenon DEF NodeState
  <2>5. signalRetry(internalC[n], st[n].term) \in Seq(InternalEvent)
    BY <2>4, OfferTyping, Zenon DEF signalRetry, TypeOK, InternalEvent
  <2>6. eventC' \in [Node -> EventQueue]
    BY <1>5, <2>2 DEF handleNodeLost, TypeOK
  <2>7. /\ st' \in [Node -> NodeState] /\ starts' \in [Node -> Nat]
        /\ internalC' \in [Node -> Seq(InternalEvent)]
    <3>1. CASE st[n].leader = lostID
      <4>1. /\ st' = [st EXCEPT ![n] = ClearLeaderIfMatches(st[n], lostID)]
            /\ starts' = [starts EXCEPT ![n] = starts[n] + 1]
            /\ internalC' = internalC
        BY <1>5, <3>1 DEF handleNodeLost
      <4>2. st' \in [Node -> NodeState] /\ internalC' \in [Node -> Seq(InternalEvent)]
        BY <4>1, <2>4, Zenon DEF TypeOK
      <4>3. starts' \in [Node -> Nat]
        BY <4>1 DEF TypeOK
      <4> QED
        BY <4>2, <4>3
    <3>2. CASE st[n].leader # lostID
      <4>1. /\ st' = st /\ starts' = starts
            /\ \/ internalC' = internalC
               \/ internalC' = [internalC EXCEPT ![n] = signalRetry(internalC[n], st[n].term)]
        BY <1>5, <3>2, Zenon DEF handleNodeLost
      <4>2. internalC' \in [Node -> Seq(InternalEvent)]
        BY <4>1, <2>5, Zenon DEF TypeOK
      <4> QED
        BY <4>1, <4>2, Zenon DEF TypeOK
    <3> QED
      BY <3>1, <3>2
  <2>8. UNCHANGED <<up, members, electC, elections, requests, announces, reannounce, crashes>>
    BY <1>5 DEF handleNodeLost
  <2> QED
    BY Zenon, <2>6, <2>7, <2>8 DEF TypeOK
<1>6. ASSUME NEW n \in Node, handleElectRequest(n)
      PROVE  TypeOK'
  BY <1>6 DEF handleElectRequest, TypeOK
<1>7. ASSUME NEW n \in Node, startElection(n)
      PROVE  TypeOK'
  <2> DEFINE higher == {m \in members[n] : m > n}
             e == [term |-> st[n].term + 1,
                   pc |-> IF higher = {} THEN "declaring" ELSE "sending"]
             sent == {[from |-> n, to |-> m, term |-> e.term, open |-> TRUE] : m \in higher}
  <2>1. st[n] \in NodeState /\ st[n].term \in Nat /\ starts[n] \in Nat
    BY DEF TypeOK, NodeState
  <2>2. e \in ElectionRun /\ sent \subseteq Request
    <3>1. e \in ElectionRun
      BY <2>1 DEF ElectionRun, Progress
    <3>2. e.term \in Nat /\ members[n] \subseteq Node
      BY <2>1 DEF TypeOK
    <3> HIDE DEF e
    <3>3. sent \subseteq Request
      <4>1. \A m \in higher : [from |-> n, to |-> m, term |-> e.term, open |-> TRUE] \in Request
        BY <3>2 DEF Request
      <4> QED
        BY <4>1
    <3> QED
      BY <3>1, <3>3
  <2>3. starts' \in [Node -> Nat]
    BY <1>7, <2>1 DEF startElection, TypeOK
  <2>4. st' \in [Node -> NodeState]
    <3>1. st' = st \/ st' = [st EXCEPT ![n] = BeginElection(st[n])]
      BY <1>7, Zenon DEF startElection
    <3>2. BeginElection(st[n]) \in NodeState
      BY StateTyping, Zenon DEF TypeOK
    <3> QED
      BY <3>1, <3>2, Zenon DEF TypeOK
  <2>5. elections' \in [Node -> SUBSET ElectionRun] /\ requests' \subseteq Request
    <3>1. CASE BeginElectionOK(st[n])
      <4>1. elections' = [elections EXCEPT ![n] = @ \cup {e}] /\ requests' = requests \cup sent
        BY <1>7, <3>1 DEF startElection
      <4> HIDE DEF e, sent
      <4> QED
        BY <4>1, <2>2 DEF TypeOK
    <3>2. CASE ~BeginElectionOK(st[n])
      BY <1>7, <3>2 DEF startElection, TypeOK
    <3> QED
      BY <3>1, <3>2
  <2> QED
    BY Zenon, <1>7, <2>3, <2>4, <2>5 DEF startElection, TypeOK
<1>8. ASSUME NEW n \in Node, NEW e \in elections[n], SendTimeout(n, e)
      PROVE  TypeOK'
  <2>1. Advance(n, e, "declaring") \in [Node -> SUBSET ElectionRun]
    BY AdvanceTyping DEF TypeOK, Progress
  <2>2. CloseRequests(n, e) \subseteq Request
    BY CloseRequestsTyping
  <2> QED
    BY <1>8, <2>1, <2>2 DEF SendTimeout, TypeOK
<1>9. ASSUME NEW n \in Node, NEW e \in elections[n], EnterWaiting(n, e)
      PROVE  TypeOK'
  <2>1. /\ Advance(n, e, "waiting") \in [Node -> SUBSET ElectionRun]
        /\ End(n, e) \in [Node -> SUBSET ElectionRun]
    BY AdvanceTyping DEF TypeOK, Progress
  <2>2. CloseRequests(n, e) \subseteq Request
    BY CloseRequestsTyping
  <2>3. EnterWaitingCoordinator(st[n]) \in NodeState
    BY StateTyping DEF TypeOK
  <2>4. st' \in [Node -> NodeState]
    BY <1>9, <2>3 DEF EnterWaiting, TypeOK
  <2> QED
    BY <1>9, <2>1, <2>2, <2>4 DEF EnterWaiting, TypeOK
<1>10. ASSUME NEW n \in Node, NEW e \in elections[n], declareLeader(n, e)
       PROVE  TypeOK'
  <2>1. e.term \in Nat
    BY DEF TypeOK, ElectionRun
  <2>2. End(n, e) \in [Node -> SUBSET ElectionRun]
    BY DEF End, TypeOK
  <2>3. SetLeader(n, e.term) \in NodeState
    BY <2>1, StateTyping, Zenon DEF TypeOK
  <2>4. {[to |-> m, leader |-> n, term |-> e.term] : m \in members[n]} \subseteq Announcement
    BY <2>1 DEF TypeOK, Announcement
  <2>5. st' \in [Node -> NodeState] /\ announces' \subseteq Announcement
    BY <1>10, <2>3, <2>4, Zenon DEF declareLeader, TypeOK
  <2> QED
    BY <1>10, <2>2, <2>5 DEF declareLeader, TypeOK
<1>11. ASSUME NEW n \in Node, NEW e \in elections[n], WaitReceive(n, e)
       PROVE  TypeOK'
  <2>1. internalC' \in [Node -> Seq(InternalEvent)]
    BY <1>11 DEF WaitReceive, TypeOK
  <2>2. End(n, e) \in [Node -> SUBSET ElectionRun]
    BY DEF End, TypeOK
  <2>3. CASE Restart(n, e)
    BY <1>11, <2>1, <2>3, RestartTyping, Zenon DEF WaitReceive, TypeOK
  <2>4. CASE ~Restart(n, e)
    BY Zenon, <1>11, <2>1, <2>2, <2>4 DEF WaitReceive, TypeOK
  <2> QED
    BY <2>3, <2>4
<1>12. ASSUME NEW n \in Node, NEW e \in elections[n], WaitTimeout(n, e)
       PROVE  TypeOK'
  BY <1>12, RestartTyping, Zenon DEF WaitTimeout, TypeOK
<1>13. ASSUME NEW r \in requests, OnStartElection(r)
       PROVE  TypeOK'
  <2>1. r.from \in Node /\ r.to \in Node /\ r.term \in Nat
    BY DEF TypeOK, Request
  <2>2. UpdateTerm(st[r.to], r.term) \in NodeState
    BY <2>1, StateTyping, Zenon DEF TypeOK
  <2>3. elections' \in [Node -> SUBSET ElectionRun]
    BY Zenon, <1>13, <2>1, AdvanceTyping DEF OnStartElection, TypeOK, Progress
  <2>4. st' \in [Node -> NodeState]
    BY <1>13, <2>1, <2>2 DEF OnStartElection, TypeOK
  <2>5. electC' \in [Node -> BOOLEAN] /\ reannounce' \subseteq [from : Node, to : Node]
    <3>1. CASE IsLeader(UpdateTerm(st[r.to], r.term), r.to)
      BY <1>13, <2>1, <3>1 DEF OnStartElection, TypeOK
    <3>2. CASE ~IsLeader(UpdateTerm(st[r.to], r.term), r.to)
      BY <1>13, <2>1, <3>2, Zenon DEF OnStartElection, TypeOK
    <3> QED
      BY <3>1, <3>2
  <2>6. requests' \subseteq Request
    BY <1>13 DEF OnStartElection, TypeOK
  <2> QED
    BY <1>13, <2>3, <2>4, <2>5, <2>6 DEF OnStartElection, TypeOK
<1>14. ASSUME NEW r \in reannounce, Reannounce(r)
       PROVE  TypeOK'
  <2>1. [to |-> r.to, leader |-> r.from, term |-> st[r.from].term] \in Announcement
    BY Zenon DEF TypeOK, Announcement, NodeState
  <2> QED
    BY <1>14, <2>1 DEF Reannounce, TypeOK
<1>15. ASSUME NEW a \in announces, OnAnnounceLeader(a)
       PROVE  TypeOK'
  <2>1. a.to \in Node /\ a.leader \in Node /\ a.term \in Nat
    BY DEF TypeOK, Announcement
  <2>2. SetLeader(a.leader, a.term) \in NodeState
    BY <2>1, StateTyping, Zenon DEF TypeOK
  <2>3. signalCoordinator(internalC[a.to], a.term) \in Seq(InternalEvent)
    <3>1. internalC[a.to] \in Seq(InternalEvent)
      BY <2>1, Zenon DEF TypeOK
    <3> QED
      BY <2>1, <3>1 DEF signalCoordinator, InternalEvent
  <2>4. st' \in [Node -> NodeState] /\ internalC' \in [Node -> Seq(InternalEvent)]
    <3>1. CASE SetLeaderOK(st[a.to], a.leader, a.term)
      <4>1. /\ st' = [st EXCEPT ![a.to] = SetLeader(a.leader, a.term)]
            /\ internalC' = [internalC EXCEPT ![a.to] = signalCoordinator(internalC[a.to], a.term)]
        BY <1>15, <3>1 DEF OnAnnounceLeader
      <4> QED
        BY <4>1, <2>2, <2>3, Zenon DEF TypeOK
    <3>2. CASE ~SetLeaderOK(st[a.to], a.leader, a.term)
      BY <1>15, <3>2 DEF OnAnnounceLeader, TypeOK
    <3> QED
      BY <3>1, <3>2
  <2> QED
    BY <1>15, <2>4 DEF OnAnnounceLeader, TypeOK
<1>16. ASSUME NEW r \in requests, LoseRequest(r)
       PROVE  TypeOK'
  BY <1>16 DEF LoseRequest, TypeOK
<1>17. ASSUME NEW a \in announces, LoseAnnounce(a)
       PROVE  TypeOK'
  BY <1>17 DEF LoseAnnounce, TypeOK
<1>18. CASE UNCHANGED vars
  BY <1>18 DEF vars, TypeOK
<1> QED
  BY Zenon, <1>1, <1>2, <1>3, <1>4, <1>5, <1>6, <1>7, <1>8, <1>9, <1>10, <1>11, <1>12, <1>13, <1>14,
     <1>15, <1>16, <1>17, <1>18 DEF Next, EngineStep, MembershipStep, Delivery

-----------------------------------------------------------------------------
(* The inductive invariant.  It speaks of one node at a time: of its        *)
(* process, its state, its election goroutines, internalC, the pending      *)
(* startElection calls and electC.  To NoOrphanElection, NeverStranded and  *)
(* ElectionsSeparated it adds that a node knows a leader exactly in phase   *)
(* leader, and that a process that does not run has nothing left.           *)

Good(running, s, runs, ch, pending, requested) ==
    /\ s.leader # NoLeader <=> s.phase = PhaseLeader
    /\ ~running => s = NewState /\ runs = {} /\ ch = <<>>
    /\ InElection(s) =>
          \E e \in runs : /\ e.term = s.term
                          /\ e.pc = "waiting" <=> s.phase = PhaseWaitingCoordinator
    /\ \A e \in runs : e.term <= s.term
    /\ \A e, f \in runs : e.term = f.term => e = f
    /\ \A i \in DOMAIN ch : ch[i].term <= s.term
    /\ running /\ s.leader = NoLeader => InElection(s) \/ pending > 0 \/ requested

GoodNode(n) == Good(up[n], st[n], elections[n], internalC[n], starts[n], electC[n])

IndInv == TypeOK /\ \A n \in Node : GoodNode(n)

(* What each piece of an action does to a node: lemmas about values, so     *)
(* that no proof below has to open a definition of ElectionState.           *)

LEMMA ChannelTerms ==
    ASSUME NEW ch \in Seq(InternalEvent)
    PROVE  \A i \in DOMAIN ch : ch[i].term \in Nat
<1>1. DOMAIN ch = 1..Len(ch)
  OBVIOUS
<1>2. \A i \in 1..Len(ch) : ch[i] \in InternalEvent
  OBVIOUS
<1> QED
  BY <1>1, <1>2 DEF InternalEvent

\* ResetElection(term); go e.startElection(ctx); return
LEMMA GoodRestart ==
    ASSUME NEW s \in NodeState, NEW runs \in SUBSET ElectionRun, NEW ch \in Seq(InternalEvent),
           NEW k, NEW k2, k2 > 0, NEW ec, NEW e \in runs, Good(TRUE, s, runs, ch, k, ec)
    PROVE  Good(TRUE, ResetElection(s, e.term), runs \ {e}, ch, k2, ec)
<1> USE DEF Phases, PhaseIdle, PhaseElecting, PhaseWaitingCoordinator, PhaseLeader
<1>1. CASE s.term = e.term /\ InElection(s)
  BY <1>1 DEF Good, ResetElection, InElection, NodeState
<1>2. CASE ~(s.term = e.term /\ InElection(s))
  BY <1>2 DEF Good, ResetElection, InElection
<1> QED
  BY <1>1, <1>2, Zenon

\* BeginElection gives the new goroutine a term no other goroutine has.
LEMMA GoodBegin ==
    ASSUME NEW s \in NodeState, NEW runs \in SUBSET ElectionRun, NEW ch \in Seq(InternalEvent),
           NEW k, NEW k2, NEW ec, Good(TRUE, s, runs, ch, k, ec),
           NEW e \in ElectionRun, e.term = s.term + 1, e.pc # "waiting"
    PROVE  Good(TRUE, BeginElection(s), runs \cup {e}, ch, k2, ec)
<1> USE DEF Phases, PhaseIdle, PhaseElecting, PhaseWaitingCoordinator, PhaseLeader, NoLeader
<1>1. \A f \in runs : f.term \in Nat /\ f.term <= s.term
  BY DEF Good, ElectionRun
<1>2. \A i \in DOMAIN ch : ch[i].term \in Nat
  BY ChannelTerms
<1> QED
  BY <1>1, <1>2 DEF Good, BeginElection, InElection, NodeState

\* A goroutine proceeds without entering or leaving waitForCoordinator.
LEMMA GoodAdvance ==
    ASSUME NEW u, NEW s \in NodeState, NEW runs \in SUBSET ElectionRun, NEW ch, NEW k,
           NEW ec, NEW e \in runs, e.pc # "waiting", NEW pc, pc # "waiting",
           Good(u, s, runs, ch, k, ec)
    PROVE  Good(u, s, (runs \ {e}) \cup {[e EXCEPT !.pc = pc]}, ch, k, ec)
<1> DEFINE f == [e EXCEPT !.pc = pc]
<1>1. f.term = e.term /\ f.pc = pc
  BY DEF ElectionRun
<1> HIDE DEF f
<1> DEFINE new == (runs \ {e}) \cup {f}
           Ends(g) == /\ g.term = s.term
                      /\ g.pc = "waiting" <=> s.phase = PhaseWaitingCoordinator
<1>2. ASSUME InElection(s)
      PROVE  \E g \in new : Ends(g)
  <2>1. PICK g \in runs : Ends(g)
    BY <1>2 DEF Good
  <2>2. CASE g = e
    BY <1>1, <2>1, <2>2
  <2>3. CASE g # e
    BY <2>1, <2>3
  <2> QED
    BY <2>2, <2>3
<1>3. \A g \in new : g.term <= s.term
  BY <1>1 DEF Good
<1>4. \A g, h \in new : g.term = h.term => g = h
  BY <1>1 DEF Good
<1>5. runs # {}
  OBVIOUS
<1> HIDE DEF new
<1>6. Good(u, s, new, ch, k, ec)
  BY <1>2, <1>3, <1>4, <1>5 DEF Good
<1> QED
  BY <1>6 DEF new, f

LEMMA GoodEnterWaiting ==
    ASSUME NEW s \in NodeState, NEW runs \in SUBSET ElectionRun, NEW ch, NEW k, NEW ec,
           NEW e \in runs, EnterWaitingCoordinatorOK(s, e.term),
           Good(TRUE, s, runs, ch, k, ec)
    PROVE  Good(TRUE, EnterWaitingCoordinator(s), (runs \ {e}) \cup {[e EXCEPT !.pc = "waiting"]},
                ch, k, ec)
<1> DEFINE f == [e EXCEPT !.pc = "waiting"]
           w == EnterWaitingCoordinator(s)
<1>1. f.term = e.term /\ f.pc = "waiting"
  BY DEF ElectionRun
<1>2. w.leader = s.leader /\ w.term = s.term /\ w.phase = PhaseWaitingCoordinator
  BY DEF EnterWaitingCoordinator, NodeState
<1>3. s.term = e.term /\ s.phase = PhaseElecting
  BY DEF EnterWaitingCoordinatorOK
<1> HIDE DEF f, w
<1> DEFINE new == (runs \ {e}) \cup {f}
<1>4. \E g \in new : g.term = w.term /\ (g.pc = "waiting" <=> w.phase = PhaseWaitingCoordinator)
  BY <1>1, <1>2, <1>3
<1>5. \A g \in new : g.term <= w.term
  BY <1>1, <1>2 DEF Good
<1>6. \A g, h \in new : g.term = h.term => g = h
  BY <1>1 DEF Good
<1>7. w.leader # NoLeader <=> w.phase = PhaseLeader
  BY <1>2, <1>3 DEF Good, PhaseElecting, PhaseWaitingCoordinator, PhaseLeader
<1>8. InElection(w)
  BY <1>2 DEF InElection
<1>9. \A i \in DOMAIN ch : ch[i].term <= w.term
  BY <1>2 DEF Good
<1> HIDE DEF new
<1>10. Good(TRUE, w, new, ch, k, ec)
  BY <1>4, <1>5, <1>6, <1>7, <1>8, <1>9 DEF Good
<1> QED
  BY <1>10, Zenon DEF new, f, w

\* A goroutine may return when it is not the one the phase stands for.
LEMMA GoodEnd ==
    ASSUME NEW s \in NodeState, NEW runs \in SUBSET ElectionRun, NEW ch, NEW k, NEW ec,
           NEW e \in runs, Good(TRUE, s, runs, ch, k, ec),
           ~(/\ InElection(s) /\ e.term = s.term
             /\ e.pc = "waiting" <=> s.phase = PhaseWaitingCoordinator)
    PROVE  Good(TRUE, s, runs \ {e}, ch, k, ec)
BY DEF Good

LEMMA GoodSetLeader ==
    ASSUME NEW s \in NodeState, NEW runs \in SUBSET ElectionRun, NEW ch \in Seq(InternalEvent),
           NEW k, NEW ec, NEW l \in Node, NEW t \in Nat, SetLeaderOK(s, l, t),
           NEW left \in SUBSET runs, Good(TRUE, s, runs, ch, k, ec)
    PROVE  Good(TRUE, SetLeader(l, t), left, ch, k, ec)
<1>1. \A f \in runs : f.term \in Nat
  BY DEF ElectionRun
<1>2. \A i \in DOMAIN ch : ch[i].term \in Nat
  BY ChannelTerms
<1>3. l # NoLeader
  BY NodeAssumption DEF NoLeader
<1>4. s.term \in Nat /\ s.term <= t
  BY DEF SetLeaderOK, NodeState
<1> QED
  BY <1>1, <1>2, <1>3, <1>4 DEF Good, SetLeader, InElection, PhaseIdle, PhaseElecting,
     PhaseWaitingCoordinator, PhaseLeader

\* signalCoordinator after an accepted announcement, signalRetry: the term sent
\* is the node's own.
LEMMA GoodAppend ==
    ASSUME NEW s \in NodeState, NEW runs, NEW ch \in Seq(InternalEvent), NEW k, NEW ec,
           NEW ev \in InternalEvent, ev.term = s.term, Good(TRUE, s, runs, ch, k, ec)
    PROVE  Good(TRUE, s, runs, Append(ch, ev), k, ec)
<1> DEFINE ch2 == Append(ch, ev)
<1>1. DOMAIN ch = 1..Len(ch) /\ DOMAIN ch2 = 1..(Len(ch) + 1) /\ Len(ch) \in Nat
  OBVIOUS
<1>2. \A i \in 1..Len(ch) : ch2[i] = ch[i]
  OBVIOUS
<1>3. ch2[Len(ch) + 1] = ev
  OBVIOUS
<1> HIDE DEF ch2
<1>4. \A i \in DOMAIN ch2 : ch2[i].term <= s.term
  BY <1>1, <1>2, <1>3 DEF Good, NodeState
<1> QED
  BY <1>4 DEF Good, ch2

\* waitForCoordinator takes an event.
LEMMA GoodReceive ==
    ASSUME NEW s \in NodeState, NEW runs, NEW ch \in Seq(InternalEvent), ch # <<>>, NEW k, NEW ec,
           Good(TRUE, s, runs, ch, k, ec)
    PROVE  Good(TRUE, s, runs, Tail(ch), k, ec)
<1> DEFINE ch2 == Tail(ch)
<1>1. /\ ch2 \in Seq(InternalEvent) /\ Len(ch2) = Len(ch) - 1
      /\ \A i \in 1..Len(ch2) : ch2[i] = ch[i + 1]
  OBVIOUS
<1>2. DOMAIN ch = 1..Len(ch) /\ DOMAIN ch2 = 1..Len(ch2) /\ Len(ch) \in Nat
  BY <1>1
<1> HIDE DEF ch2
<1>3. \A i \in DOMAIN ch : ch[i].term <= s.term
  BY Zenon DEF Good
<1>4. \A i \in DOMAIN ch2 : i + 1 \in DOMAIN ch
  BY <1>1, <1>2
<1>5. \A i \in DOMAIN ch2 : ch2[i].term <= s.term
  BY Zenon, <1>1, <1>2, <1>3, <1>4
<1> QED
  BY Zenon, <1>5 DEF Good, ch2

\* OnStartElection: a node that is not leader after UpdateTerm is sent a request.
LEMMA GoodUpdateTerm ==
    ASSUME NEW s \in NodeState, NEW runs \in SUBSET ElectionRun, NEW ch \in Seq(InternalEvent),
           NEW k, NEW ec, NEW t \in Nat, NEW n \in Node, NEW ec2, Good(TRUE, s, runs, ch, k, ec),
           IF IsLeader(UpdateTerm(s, t), n) THEN ec2 = ec ELSE ec2
    PROVE  Good(TRUE, UpdateTerm(s, t), runs, ch, k, ec2)
<1>1. n # NoLeader
  BY NodeAssumption DEF NoLeader
<1>2. CASE t > s.term
  <2> DEFINE u == UpdateTerm(s, t)
  <2>1. u.leader = NoLeader /\ u.term = t /\ u.phase = PhaseIdle
    BY <1>2 DEF UpdateTerm
  <2> HIDE DEF u
  <2>2. ec2
    BY <1>1, <2>1 DEF IsLeader, u
  <2>3. \A f \in runs : f.term <= u.term
    BY <1>2, <2>1 DEF Good, ElectionRun, NodeState
  <2>4. \A i \in DOMAIN ch : ch[i].term <= u.term
    BY <1>2, <2>1, ChannelTerms DEF Good, NodeState
  <2>5. ~InElection(u) /\ ~(u.phase = PhaseLeader)
    BY <2>1 DEF InElection, PhaseIdle, PhaseElecting, PhaseWaitingCoordinator, PhaseLeader
  <2> QED
    BY <2>1, <2>2, <2>3, <2>4, <2>5 DEF Good, u
<1>3. CASE ~(t > s.term)
  <2>1. UpdateTerm(s, t) = s
    BY <1>3 DEF UpdateTerm
  <2>2. CASE IsLeader(s, n)
    BY <1>1, <2>1, <2>2 DEF Good, IsLeader
  <2>3. CASE ~IsLeader(s, n)
    BY <2>1, <2>3 DEF Good
  <2> QED
    BY <2>2, <2>3, Zenon
<1> QED
  BY <1>2, <1>3, Zenon

\* handleNodeLost clears the leader and starts an election.
LEMMA GoodClear ==
    ASSUME NEW s \in NodeState, NEW runs, NEW ch, NEW k \in Nat, NEW ec, NEW l \in Node,
           s.leader = l, Good(TRUE, s, runs, ch, k, ec)
    PROVE  Good(TRUE, ClearLeaderIfMatches(s, l), runs, ch, k + 1, ec)
<1> DEFINE c == ClearLeaderIfMatches(s, l)
<1>1. s.phase = PhaseLeader
  BY NodeAssumption DEF Good, NoLeader
<1>2. c.leader = NoLeader /\ c.term = s.term /\ c.phase = PhaseIdle
  BY <1>1 DEF ClearLeaderIfMatches, NodeState
<1> HIDE DEF c
<1>3. ~InElection(c) /\ ~(c.phase = PhaseLeader)
  BY <1>2 DEF InElection, PhaseIdle, PhaseElecting, PhaseWaitingCoordinator, PhaseLeader
<1> QED
  BY <1>2, <1>3 DEF Good, c

\* handleElectRequest and handleNodeJoined turn a request or an event into a
\* pending startElection.
LEMMA GoodPending ==
    ASSUME NEW s, NEW runs, NEW ch, NEW k \in Nat, NEW ec \in BOOLEAN, NEW ec2 \in BOOLEAN,
           Good(TRUE, s, runs, ch, k, ec)
    PROVE  Good(TRUE, s, runs, ch, k + 1, ec2)
BY DEF Good

-----------------------------------------------------------------------------
(* The invariant is inductive.                                              *)

\* A step of one node leaves the other nodes as they are.
LEMMA OtherNodes ==
    ASSUME \A m \in Node : GoodNode(m), NEW n \in Node, GoodNode(n)',
           \A m \in Node \ {n} :
              /\ up'[m] = up[m] /\ st'[m] = st[m] /\ elections'[m] = elections[m]
              /\ internalC'[m] = internalC[m] /\ starts'[m] = starts[m] /\ electC'[m] = electC[m]
    PROVE  \A m \in Node : GoodNode(m)'
BY DEF GoodNode

LEMMA InitInv == Init => IndInv
<1> SUFFICES ASSUME Init PROVE IndInv
  OBVIOUS
<1>1. TypeOK
  BY InitTyping
<1>2. ASSUME NEW n \in Node
      PROVE  Good(FALSE, NewState, {}, <<>>, 0, FALSE)
  BY DEF Good, NewState, InElection, PhaseIdle, PhaseElecting, PhaseWaitingCoordinator,
     PhaseLeader, NoLeader
<1> QED
  BY <1>1, <1>2, Zenon DEF Init, IndInv, GoodNode

LEMMA NextInv == IndInv /\ TypeOK' /\ [Next]_vars => IndInv'
<1> SUFFICES ASSUME IndInv, TypeOK', [Next]_vars
             PROVE  \A m \in Node : GoodNode(m)'
  BY DEF IndInv
<1> USE DEF IndInv
<1>0. /\ TypeOK /\ TypeOK'
      /\ \A n \in Node : /\ GoodNode(n) /\ n # NoLeader
                         /\ st[n] \in NodeState /\ st[n].term \in Nat
                         /\ elections[n] \in SUBSET ElectionRun
                         /\ internalC[n] \in Seq(InternalEvent)
                         /\ starts[n] \in Nat /\ electC[n] \in BOOLEAN
  BY NodeAssumption, Zenon DEF TypeOK, NodeState, NoLeader
<1>1. ASSUME NEW n \in Node, Start(n)
      PROVE  \A m \in Node : GoodNode(m)'
  <2>1. elections[n] = {} /\ internalC[n] = <<>>
    BY <1>0, <1>1, Zenon DEF Start, GoodNode, Good
  <2>2. Good(TRUE, NewState, {}, <<>>, 1, electC[n])
    BY DEF Good, NewState, InElection, PhaseIdle, PhaseElecting, PhaseWaitingCoordinator,
       PhaseLeader, NoLeader
  <2>3. GoodNode(n)'
    BY <1>0, <1>1, <2>1, <2>2, Zenon DEF Start, GoodNode, TypeOK
  <2> QED
    BY <1>0, <1>1, <2>3, OtherNodes, Zenon DEF Start, TypeOK
<1>2. ASSUME NEW n \in Node, Crash(n)
      PROVE  \A m \in Node : GoodNode(m)'
  <2>1. Good(FALSE, NewState, {}, <<>>, 0, FALSE)
    BY DEF Good, NewState, InElection, PhaseIdle, PhaseElecting, PhaseWaitingCoordinator,
       PhaseLeader, NoLeader
  <2>2. GoodNode(n)'
    BY <1>0, <1>2, <2>1, ZenonT(30) DEF Crash, GoodNode, TypeOK
  <2> QED
    BY <1>0, <1>2, <2>2, OtherNodes, Zenon DEF Crash, TypeOK
<1>3. ASSUME NEW n \in Node, NEW m \in Node, NotifyJoin(n, m) \/ NotifyLeave(n, m)
      PROVE  \A k \in Node : GoodNode(k)'
  BY <1>0, <1>3, Zenon DEF NotifyJoin, NotifyLeave, GoodNode
<1>4. ASSUME NEW n \in Node, handleNodeJoined(n)
      PROVE  \A m \in Node : GoodNode(m)'
  <2>1. Good(TRUE, st[n], elections[n], internalC[n], starts[n], electC[n])
    BY <1>0, <1>4, Zenon DEF handleNodeJoined, GoodNode
  <2>2. Good(TRUE, st[n], elections[n], internalC[n], starts[n] + 1, electC[n])
    BY <1>0, <2>1, GoodPending, Zenon
  <2>3. starts'[n] \in {starts[n], starts[n] + 1} /\ up[n] = TRUE
    BY <1>0, <1>4 DEF handleNodeJoined, TypeOK
  <2>4. UNCHANGED <<up, st, elections, internalC, electC>>
    BY <1>4 DEF handleNodeJoined
  <2>5. GoodNode(n)'
    BY <2>1, <2>2, <2>3, <2>4, Zenon DEF GoodNode
  <2> QED
    BY <1>0, <1>4, <2>4, <2>5, OtherNodes DEF handleNodeJoined, TypeOK
<1>5. ASSUME NEW n \in Node, handleNodeLost(n)
      PROVE  \A m \in Node : GoodNode(m)'
  <2> DEFINE lostID == Head(eventC[n]).id
  <2>1. Good(TRUE, st[n], elections[n], internalC[n], starts[n], electC[n]) /\ up[n] = TRUE
    BY <1>0, <1>5, Zenon DEF handleNodeLost, GoodNode, TypeOK
  <2>2. UNCHANGED <<up, elections, electC>>
    BY <1>5, Zenon DEF handleNodeLost
  <2>3. CASE st[n].leader = lostID
    <3>1. /\ st' = [st EXCEPT ![n] = ClearLeaderIfMatches(st[n], lostID)]
          /\ starts' = [starts EXCEPT ![n] = starts[n] + 1]
          /\ UNCHANGED internalC
      BY <1>5, <2>3, Zenon DEF handleNodeLost
    <3>2. lostID \in Node
      <4>1. eventC[n] \in EventQueue /\ eventC[n] # <<>>
        BY <1>0, <1>5, Zenon DEF handleNodeLost, TypeOK
      <4>2. Head(eventC[n]) \in ClusterEvent
        BY <4>1, EventQueueTyping
      <4> QED
        BY <4>2 DEF ClusterEvent
    <3>3. Good(TRUE, ClearLeaderIfMatches(st[n], lostID), elections[n], internalC[n],
               starts[n] + 1, electC[n])
      BY <1>0, <2>1, <2>3, <3>2, GoodClear, Zenon
    <3>4. GoodNode(n)'
      BY <1>0, <2>1, <2>2, <3>1, <3>3, Zenon DEF GoodNode, TypeOK
    <3> QED
      BY <1>0, <2>2, <3>1, <3>4, OtherNodes DEF TypeOK
  <2>4. CASE st[n].leader # lostID
    <3> DEFINE ev == [typ |-> "retry", term |-> st[n].term]
    <3>1. UNCHANGED <<st, starts>>
      BY <1>5, <2>4 DEF handleNodeLost
    <3>2. \/ internalC' = internalC
          \/ internalC' = [internalC EXCEPT ![n] = Append(internalC[n], ev)]
      <4>1. \/ internalC' = internalC
            \/ internalC' = [internalC EXCEPT ![n] = signalRetry(internalC[n], st[n].term)]
        BY <1>5, <2>4 DEF handleNodeLost
      <4>2. [internalC EXCEPT ![n] = internalC[n]] = internalC
        BY <1>0 DEF TypeOK
      <4> QED
        BY <4>1, <4>2 DEF signalRetry, Offer
    <3>3. ev \in InternalEvent /\ ev.term = st[n].term
      BY <1>0 DEF InternalEvent
    <3>4. Good(TRUE, st[n], elections[n], Append(internalC[n], ev), starts[n], electC[n])
      <4> HIDE DEF ev
      <4> QED
        BY <1>0, <2>1, <3>3, GoodAppend, Zenon
    <3>5. GoodNode(n)'
      BY <1>0, <2>1, <2>2, <3>1, <3>2, <3>4, Zenon DEF GoodNode, TypeOK
    <3> QED
      BY SMTT(30), <1>0, <2>2, <3>1, <3>2, <3>5, OtherNodes DEF TypeOK
  <2> QED
    BY <2>3, <2>4
<1>6. ASSUME NEW n \in Node, handleElectRequest(n)
      PROVE  \A m \in Node : GoodNode(m)'
  <2>1. Good(TRUE, st[n], elections[n], internalC[n], starts[n], electC[n]) /\ up[n] = TRUE
    BY <1>0, <1>6, Zenon DEF handleElectRequest, GoodNode, TypeOK
  <2>2. Good(TRUE, st[n], elections[n], internalC[n], starts[n] + 1, FALSE)
    BY <1>0, <2>1, GoodPending, Zenon
  <2>3. GoodNode(n)'
    BY <1>0, <1>6, <2>1, <2>2, Zenon DEF handleElectRequest, GoodNode, TypeOK
  <2> QED
    BY <1>0, <1>6, <2>3, OtherNodes, Zenon DEF handleElectRequest, TypeOK
<1>7. ASSUME NEW n \in Node, startElection(n)
      PROVE  \A m \in Node : GoodNode(m)'
  <2> DEFINE e == [term |-> st[n].term + 1,
                   pc |-> IF {m \in members[n] : m > n} = {} THEN "declaring" ELSE "sending"]
  <2>1. Good(TRUE, st[n], elections[n], internalC[n], starts[n], electC[n]) /\ up[n] = TRUE
    BY <1>0, <1>7, Zenon DEF startElection, GoodNode, TypeOK
  <2>2. /\ UNCHANGED <<up, internalC, electC>>
        /\ starts' = [starts EXCEPT ![n] = starts[n] - 1]
    BY <1>7, Zenon DEF startElection
  <2>3. CASE BeginElectionOK(st[n])
    <3>1. /\ st' = [st EXCEPT ![n] = BeginElection(st[n])]
          /\ elections' = [elections EXCEPT ![n] = elections[n] \cup {e}]
      BY <1>7, <2>3 DEF startElection
    <3>2. e \in ElectionRun /\ e.term = st[n].term + 1 /\ e.pc # "waiting"
      <4>1. st[n].term \in Nat
        BY <1>0 DEF NodeState
      <4>2. PICK p \in {"declaring", "sending"} : e = [term |-> st[n].term + 1, pc |-> p]
        OBVIOUS
      <4>3. st[n].term + 1 \in Nat /\ p \in Progress /\ p # "waiting"
        BY <4>1, <4>2 DEF Progress
      <4> HIDE DEF e
      <4> QED
        BY <4>2, <4>3 DEF ElectionRun
    <3> HIDE DEF e
    <3>3. Good(TRUE, BeginElection(st[n]), elections[n] \cup {e}, internalC[n], starts[n] - 1,
               electC[n])
      BY <1>0, <2>1, <3>2, GoodBegin, Zenon
    <3>4. GoodNode(n)'
      BY <1>0, <2>1, <2>2, <3>1, <3>3, Zenon DEF GoodNode, TypeOK
    <3> QED
      BY <1>0, <2>2, <3>1, <3>4, OtherNodes DEF TypeOK
  <2>4. CASE ~BeginElectionOK(st[n])
    <3>1. UNCHANGED <<st, elections>>
      BY <1>7, <2>4 DEF startElection
    <3>2. InElection(st[n])
      BY SMTT(30), <2>4 DEF BeginElectionOK
    <3>3. Good(TRUE, st[n], elections[n], internalC[n], starts[n] - 1, electC[n])
      BY <2>1, <3>2 DEF Good
    <3>4. GoodNode(n)'
      BY <1>0, <2>1, <2>2, <3>1, <3>3, Zenon DEF GoodNode, TypeOK
    <3> QED
      BY <1>0, <2>2, <3>1, <3>4, OtherNodes DEF TypeOK
  <2> QED
    BY <2>3, <2>4
<1>8. ASSUME NEW n \in Node, NEW e \in elections[n], SendTimeout(n, e)
      PROVE  \A m \in Node : GoodNode(m)'
  <2>1. Good(TRUE, st[n], elections[n], internalC[n], starts[n], electC[n]) /\ up[n] = TRUE
    BY <1>0, <1>8, Zenon DEF SendTimeout, GoodNode, TypeOK
  <2>2. /\ UNCHANGED <<up, st, internalC, electC, starts>>
        /\ elections' = Advance(n, e, "declaring")
        /\ e.pc # "waiting"
    BY <1>8, Zenon DEF SendTimeout
  <2>3. Good(TRUE, st[n], (elections[n] \ {e}) \cup {[e EXCEPT !.pc = "declaring"]},
             internalC[n], starts[n], electC[n])
    BY <1>0, <2>1, <2>2, GoodAdvance, Zenon
  <2>4. GoodNode(n)'
    BY <1>0, <2>1, <2>2, <2>3, Zenon DEF GoodNode, TypeOK, Advance
  <2> QED
    BY <1>0, <2>2, <2>4, OtherNodes DEF TypeOK, Advance
<1>9. ASSUME NEW n \in Node, NEW e \in elections[n], EnterWaiting(n, e)
      PROVE  \A m \in Node : GoodNode(m)'
  <2>1. Good(TRUE, st[n], elections[n], internalC[n], starts[n], electC[n]) /\ up[n] = TRUE
    BY <1>0, <1>9, Zenon DEF EnterWaiting, GoodNode, TypeOK
  <2>2. UNCHANGED <<up, internalC, electC, starts>> /\ e.pc # "waiting"
    BY <1>9, Zenon DEF EnterWaiting
  <2>3. CASE EnterWaitingCoordinatorOK(st[n], e.term)
    <3>1. /\ st' = [st EXCEPT ![n] = EnterWaitingCoordinator(st[n])]
          /\ elections' = Advance(n, e, "waiting")
      BY <1>9, <2>3 DEF EnterWaiting
    <3>2. Good(TRUE, EnterWaitingCoordinator(st[n]),
               (elections[n] \ {e}) \cup {[e EXCEPT !.pc = "waiting"]},
               internalC[n], starts[n], electC[n])
      BY <1>0, <2>1, <2>3, GoodEnterWaiting, Zenon
    <3>3. GoodNode(n)'
      BY <1>0, <2>1, <2>2, <3>1, <3>2, Zenon DEF GoodNode, TypeOK, Advance
    <3> QED
      BY <1>0, <2>2, <3>1, <3>3, OtherNodes DEF TypeOK, Advance
  <2>4. CASE ~EnterWaitingCoordinatorOK(st[n], e.term)
    <3>1. UNCHANGED st /\ elections' = [elections EXCEPT ![n] = elections[n] \ {e}]
      BY <1>9, <2>4 DEF EnterWaiting, End
    <3>2. ~(/\ InElection(st[n]) /\ e.term = st[n].term
            /\ e.pc = "waiting" <=> st[n].phase = PhaseWaitingCoordinator)
      BY <2>2, <2>4 DEF EnterWaitingCoordinatorOK, InElection
    <3>3. Good(TRUE, st[n], elections[n] \ {e}, internalC[n], starts[n], electC[n])
      BY <1>0, <2>1, <3>2, GoodEnd, Zenon
    <3>4. GoodNode(n)'
      BY <1>0, <2>1, <2>2, <3>1, <3>3, Zenon DEF GoodNode, TypeOK
    <3> QED
      BY Zenon, <1>0, <2>2, <3>1, <3>4, OtherNodes DEF TypeOK
  <2> QED
    BY <2>3, <2>4
<1>10. ASSUME NEW n \in Node, NEW e \in elections[n], declareLeader(n, e)
       PROVE  \A m \in Node : GoodNode(m)'
  <2>1. Good(TRUE, st[n], elections[n], internalC[n], starts[n], electC[n]) /\ up[n] = TRUE
    BY <1>0, <1>10, Zenon DEF declareLeader, GoodNode, TypeOK
  <2>2. /\ UNCHANGED <<up, internalC, electC, starts>>
        /\ elections' = [elections EXCEPT ![n] = elections[n] \ {e}]
        /\ e.pc # "waiting"
    BY <1>10, Zenon DEF declareLeader, End
  <2>3. e.term \in Nat
    BY <1>0 DEF ElectionRun
  <2>4. CASE SetLeaderOK(st[n], n, e.term)
    <3>1. st' = [st EXCEPT ![n] = SetLeader(n, e.term)]
      BY <1>10, <2>4, Zenon DEF declareLeader
    <3>2. Good(TRUE, SetLeader(n, e.term), elections[n] \ {e}, internalC[n], starts[n], electC[n])
      BY <1>0, <2>1, <2>3, <2>4, GoodSetLeader, ZenonT(30)
    <3>3. GoodNode(n)'
      BY <1>0, <2>1, <2>2, <3>1, <3>2, Zenon DEF GoodNode, TypeOK
    <3> QED
      BY <1>0, <2>2, <3>1, <3>3, OtherNodes DEF TypeOK
  <2>5. CASE ~SetLeaderOK(st[n], n, e.term)
    <3>1. UNCHANGED st
      BY <1>10, <2>5 DEF declareLeader
    <3>2. ~(InElection(st[n]) /\ e.term = st[n].term)
      BY <1>0, <2>1, <2>5 DEF SetLeaderOK, Good, InElection, NodeState, PhaseElecting,
         PhaseWaitingCoordinator, PhaseLeader
    <3>3. Good(TRUE, st[n], elections[n] \ {e}, internalC[n], starts[n], electC[n])
      BY <1>0, <2>1, <3>2, GoodEnd, Zenon
    <3>4. GoodNode(n)'
      BY <1>0, <2>1, <2>2, <3>1, <3>3, ZenonT(30) DEF GoodNode, TypeOK
    <3> QED
      BY SMTT(30), <1>0, <2>2, <3>1, <3>4, OtherNodes DEF TypeOK
  <2> QED
    BY <2>4, <2>5
<1>11. ASSUME NEW n \in Node, NEW e \in elections[n], Restart(n, e), up[n],
             NEW ch \in Seq(InternalEvent), internalC' = [internalC EXCEPT ![n] = ch],
             Good(TRUE, st[n], elections[n], ch, starts[n], electC[n]), UNCHANGED <<up, electC>>
       PROVE  \A m \in Node : GoodNode(m)'
  <2>1. Good(TRUE, ResetElection(st[n], e.term), elections[n] \ {e}, ch, starts[n] + 1, electC[n])
    <3>1. st[n] \in NodeState /\ elections[n] \in SUBSET ElectionRun /\ starts[n] + 1 > 0
      <4>1. st[n] \in NodeState /\ elections[n] \in SUBSET ElectionRun /\ starts[n] \in Nat
        BY <1>0, ZenonT(30)
      <4>2. starts[n] + 1 > 0
        BY <4>1
      <4> QED
        BY <4>1, <4>2, Zenon
    <3>2. Good(TRUE, st[n], elections[n], ch, starts[n], electC[n])
      BY <1>11, Zenon
    <3> QED
      BY <3>1, <3>2, GoodRestart, Zenon
  <2>2. /\ st' = [st EXCEPT ![n] = ResetElection(st[n], e.term)]
        /\ starts' = [starts EXCEPT ![n] = starts[n] + 1]
        /\ elections' = [elections EXCEPT ![n] = elections[n] \ {e}]
        /\ up[n] = TRUE
    BY <1>0, <1>11 DEF Restart, End, TypeOK
  <2>3. GoodNode(n)'
    BY <1>0, <1>11, <2>1, <2>2, Zenon DEF GoodNode, TypeOK
  <2> QED
    BY <1>0, <1>11, <2>2, <2>3, OtherNodes DEF TypeOK
<1>12. ASSUME NEW n \in Node, NEW e \in elections[n], WaitReceive(n, e)
       PROVE  \A m \in Node : GoodNode(m)'
  <2> DEFINE ev == Head(internalC[n])
             ch == Tail(internalC[n])
  <2>1. Good(TRUE, st[n], elections[n], internalC[n], starts[n], electC[n]) /\ up[n] = TRUE
    BY <1>0, <1>12, Zenon DEF WaitReceive, GoodNode, TypeOK
  <2>2. /\ UNCHANGED <<up, electC>> /\ internalC[n] # <<>> /\ up[n]
        /\ internalC' = [internalC EXCEPT ![n] = ch]
    BY <1>12, Zenon DEF WaitReceive
  <2>3. Good(TRUE, st[n], elections[n], ch, starts[n], electC[n]) /\ ch \in Seq(InternalEvent)
    <3>1. internalC[n] \in Seq(InternalEvent)
      BY Zenon, <1>0
    <3>2. ch \in Seq(InternalEvent)
      BY <2>2, <3>1
    <3> QED
      BY <1>0, <2>1, <2>2, <3>2, GoodReceive, Zenon
  <2>4. CASE UNCHANGED <<st, starts, elections>>
    <3>1. GoodNode(n)'
      BY <1>0, <2>1, <2>2, <2>3, <2>4, Zenon DEF GoodNode, TypeOK
    <3> QED
      BY Zenon, <1>0, <2>2, <2>4, <3>1, OtherNodes DEF TypeOK
  <2>5. CASE /\ CoordinatorValid(n, ev) /\ elections' = End(n, e) /\ UNCHANGED <<st, starts>>
    <3>1. ~InElection(st[n])
      BY <2>1, <2>5, Zenon DEF CoordinatorValid, Good, InElection, PhaseElecting,
         PhaseWaitingCoordinator, PhaseLeader
    <3>2. Good(TRUE, st[n], elections[n] \ {e}, ch, starts[n], electC[n])
      BY <1>0, <2>3, <3>1, GoodEnd, Zenon
    <3>3. GoodNode(n)'
      BY <1>0, <2>1, <2>2, <2>5, <3>2, Zenon DEF GoodNode, TypeOK, End
    <3> QED
      BY Zenon, <1>0, <2>2, <2>5, <3>3, OtherNodes DEF TypeOK, End
  <2>6. CASE Restart(n, e)
    <3> HIDE DEF ch
    <3> QED
      BY <1>11, <2>2, <2>3, <2>6, Zenon
  <2> QED
    BY <1>12, <2>4, <2>5, <2>6, Zenon DEF WaitReceive
<1>13. ASSUME NEW n \in Node, NEW e \in elections[n], WaitTimeout(n, e)
       PROVE  \A m \in Node : GoodNode(m)'
  <2>1. Good(TRUE, st[n], elections[n], internalC[n], starts[n], electC[n])
    BY <1>0, <1>13, ZenonT(30) DEF WaitTimeout, GoodNode, TypeOK
  <2>2. /\ UNCHANGED <<up, electC, internalC>> /\ up[n] /\ Restart(n, e)
        /\ internalC' = [internalC EXCEPT ![n] = internalC[n]]
    BY <1>0, <1>13 DEF WaitTimeout, TypeOK
  <2> QED
    BY <1>0, <1>11, <2>1, <2>2, Zenon
<1>14. ASSUME NEW r \in requests, OnStartElection(r)
       PROVE  \A m \in Node : GoodNode(m)'
  <2> DEFINE n == r.to
             e == [term |-> r.term, pc |-> "sending"]
             s == UpdateTerm(st[n], r.term)
  <2>1. n \in Node /\ r.from \in Node /\ r.term \in Nat
    BY <1>0 DEF TypeOK, Request
  <2>2. /\ UNCHANGED <<up, internalC, starts>> /\ up[n]
        /\ st' = [st EXCEPT ![n] = s]
        /\ IF IsLeader(s, n) THEN electC' = electC
           ELSE electC' = [electC EXCEPT ![n] = TRUE]
        /\ elections' = IF r.open /\ e \in elections[r.from]
                        THEN Advance(r.from, e, "ok") ELSE elections
    BY <1>14, Zenon DEF OnStartElection
  <2>3. \A m \in Node : /\ Good(up[m], st[m], elections'[m], internalC[m], starts[m], electC[m])
                        /\ elections'[m] \in SUBSET ElectionRun
    <3>1. CASE r.open /\ e \in elections[r.from]
      <4> DEFINE new == (elections[r.from] \ {e}) \cup {[e EXCEPT !.pc = "ok"]}
      <4>1. elections' = [elections EXCEPT ![r.from] = new]
        BY <2>2, <3>1 DEF Advance
      <4>2. Good(up[r.from], st[r.from], elections[r.from], internalC[r.from], starts[r.from],
                 electC[r.from])
        BY <1>0, <2>1, Zenon DEF GoodNode
      <4>3. e.pc # "waiting"
        OBVIOUS
      <4>4. Good(up[r.from], st[r.from], new, internalC[r.from], starts[r.from], electC[r.from])
        <5> HIDE DEF e
        <5> QED
          BY <1>0, <2>1, <3>1, <4>2, <4>3, GoodAdvance, Zenon
      <4> HIDE DEF new
      <4> QED
        BY <1>0, <2>1, <4>1, <4>4, Zenon DEF GoodNode, TypeOK
    <3>2. CASE ~(r.open /\ e \in elections[r.from])
      BY <1>0, <2>2, <3>2, Zenon DEF GoodNode
    <3> QED
      BY <3>1, <3>2, Zenon
  <2>4. up[n] = TRUE /\ IF IsLeader(s, n) THEN electC'[n] = electC[n] ELSE electC'[n]
    BY <1>0, <2>1, <2>2, Zenon DEF TypeOK
  <2>5. Good(TRUE, s, elections'[n], internalC[n], starts[n], electC'[n])
    <3>1. Good(TRUE, st[n], elections'[n], internalC[n], starts[n], electC[n])
      BY <2>1, <2>3, <2>4, Zenon
    <3> QED
      BY <1>0, <2>1, <2>3, <2>4, <3>1, GoodUpdateTerm, Zenon
  <2>6. \A m \in Node \ {n} : st'[m] = st[m] /\ electC'[m] = electC[m]
    BY <1>0, <2>1, <2>2, ZenonT(30) DEF TypeOK
  <2>7. st'[n] = s
    BY <1>0, <2>1, <2>2, Zenon DEF TypeOK
  <2> HIDE DEF s, n, e
  <2> QED
    BY <2>1, <2>2, <2>3, <2>4, <2>5, <2>6, <2>7, Zenon DEF GoodNode
<1>15. ASSUME NEW a \in announces, OnAnnounceLeader(a)
       PROVE  \A m \in Node : GoodNode(m)'
  <2> DEFINE n == a.to
             ev == [typ |-> "coordinator", term |-> a.term]
  <2>1. n \in Node /\ a.leader \in Node /\ a.term \in Nat
    BY SMTT(30), <1>0 DEF TypeOK, Announcement
  <2>2. UNCHANGED <<up, electC, starts, elections>>
    BY <1>15 DEF OnAnnounceLeader
  <2>3. CASE SetLeaderOK(st[n], a.leader, a.term)
    <3> DEFINE s == SetLeader(a.leader, a.term)
    <3>1. /\ st' = [st EXCEPT ![n] = s]
          /\ internalC' = [internalC EXCEPT ![n] = Append(internalC[n], ev)]
      BY <1>15, <2>3, Zenon DEF OnAnnounceLeader, signalCoordinator
    <3>2. Good(TRUE, st[n], elections[n], internalC[n], starts[n], electC[n]) /\ up[n] = TRUE
      BY <1>0, <1>15, <2>1, Zenon DEF OnAnnounceLeader, GoodNode, TypeOK
    <3> HIDE DEF n
    <3>3. Good(TRUE, s, elections[n], internalC[n], starts[n], electC[n])
      BY <1>0, <2>1, <2>3, <3>2, GoodSetLeader, Zenon
    <3>4. s \in NodeState /\ s.term = a.term /\ ev \in InternalEvent /\ ev.term = a.term
      BY <2>1 DEF NodeState, SetLeader, InternalEvent, Phases, PhaseLeader
    <3> HIDE DEF s, ev
    <3>5. Good(TRUE, s, elections[n], Append(internalC[n], ev), starts[n], electC[n])
      BY <1>0, <2>1, <3>3, <3>4, GoodAppend, Zenon
    <3>6. GoodNode(n)'
      BY <1>0, <2>1, <2>2, <3>1, <3>2, <3>5, Zenon DEF GoodNode, TypeOK
    <3> QED
      BY Zenon, <1>0, <2>1, <2>2, <3>1, <3>6, OtherNodes DEF TypeOK
  <2>4. CASE ~SetLeaderOK(st[n], a.leader, a.term)
    <3>1. UNCHANGED <<st, internalC>>
      BY <1>15, <2>4 DEF OnAnnounceLeader
    <3> QED
      BY <1>0, <2>2, <3>1, Zenon DEF GoodNode
  <2> QED
    BY <2>3, <2>4
<1>16. CASE /\ UNCHANGED <<up, st, elections, internalC, starts, electC>>
  BY <1>0, <1>16 DEF GoodNode
<1>17. ASSUME \/ \E r \in requests : LoseRequest(r)
              \/ \E a \in announces : LoseAnnounce(a)
              \/ \E r \in reannounce : Reannounce(r)
              \/ UNCHANGED vars
       PROVE  \A m \in Node : GoodNode(m)'
  BY <1>16, <1>17 DEF LoseRequest, LoseAnnounce, Reannounce, vars
<1> QED
  BY Zenon, <1>1, <1>2, <1>3, <1>4, <1>5, <1>6, <1>7, <1>8, <1>9, <1>10, <1>12, <1>13, <1>14, <1>15,
     <1>17, Zenon DEF Next, EngineStep, MembershipStep, Delivery

-----------------------------------------------------------------------------
(* The term and the leader of a running node only move forward.             *)

\* Each method of State moves forward.
LEMMA StateForward ==
    ASSUME NEW s \in NodeState
    PROVE  /\ Forward(s, s)
           /\ \A t \in Nat : Forward(s, UpdateTerm(s, t)) /\ Forward(s, ResetElection(s, t))
           /\ Forward(s, BeginElection(s))
           /\ Forward(s, EnterWaitingCoordinator(s))
           /\ \A l \in Node : Forward(s, ClearLeaderIfMatches(s, l))
           /\ \A l \in Node, t \in Nat : SetLeaderOK(s, l, t) => Forward(s, SetLeader(l, t))
<1>1. s.term \in Nat /\ s.leader \in Nat
  <2>1. s.term \in Nat /\ s.leader \in Node \cup {0}
    BY DEF NodeState, NoLeader
  <2>2. s.leader \in Node => s.leader \in Nat
    BY Zenon, NodeAssumption
  <2> QED
    BY <2>1, <2>2
<1>2. Forward(s, s)
  BY <1>1 DEF Forward
<1>3. ASSUME NEW t \in Nat
      PROVE  Forward(s, UpdateTerm(s, t)) /\ Forward(s, ResetElection(s, t))
  BY <1>1 DEF Forward, UpdateTerm, ResetElection, NodeState
<1>4. Forward(s, BeginElection(s))
  BY <1>1 DEF Forward, BeginElection
<1>5. Forward(s, EnterWaitingCoordinator(s))
  BY <1>1 DEF Forward, EnterWaitingCoordinator, NodeState
<1>6. ASSUME NEW l \in Node
      PROVE  Forward(s, ClearLeaderIfMatches(s, l))
  BY <1>1 DEF Forward, ClearLeaderIfMatches, NodeState
<1>7. ASSUME NEW l \in Node, NEW t \in Nat, SetLeaderOK(s, l, t)
      PROVE  Forward(s, SetLeader(l, t))
  <2>1. l \in Nat
    BY NodeAssumption
  <2>2. SetLeader(l, t).term = t /\ SetLeader(l, t).leader = l
    BY DEF SetLeader
  <2> QED
    BY <1>1, <1>7, <2>1, <2>2 DEF Forward, SetLeaderOK, NoLeader
<1> QED
  BY Zenon, <1>2, <1>3, <1>4, <1>5, <1>6, <1>7

LEMMA NextForward ==
    TypeOK /\ [Next]_vars => \A n \in Node : up[n] /\ up'[n] => Forward(st[n], st'[n])
<1> SUFFICES ASSUME TypeOK, [Next]_vars, NEW n \in Node, up[n], up'[n]
             PROVE  Forward(st[n], st'[n])
  OBVIOUS
<1>1. st[n] \in NodeState
  BY DEF TypeOK
<1>2. CASE st'[n] = st[n]
  BY <1>1, <1>2, StateForward
<1>a. ASSUME NEW m \in Node, NEW s, st' = [st EXCEPT ![m] = s], Forward(st[m], s)
      PROVE  Forward(st[n], st'[n])
  <2>1. CASE m = n
    <3>1. st'[n] = s
      BY <1>a, <2>1 DEF TypeOK
    <3> QED
      BY <1>a, <2>1, <3>1, Zenon
  <2>2. CASE m # n
    <3>1. st'[n] = st[n]
      BY <1>a, <2>2 DEF TypeOK
    <3> QED
      BY <1>2, <3>1, Zenon
  <2> QED
    BY <2>1, <2>2
<1>b. \A m \in Node : st[m] \in NodeState
  BY DEF TypeOK
<1>c. CASE st' = st
  BY <1>2, <1>c, Zenon
<1>3. ASSUME NEW m \in Node, handleNodeLost(m)
      PROVE  Forward(st[n], st'[n])
  <2>0. eventC[m] \in EventQueue /\ eventC[m] # <<>>
    BY <1>3, Zenon DEF handleNodeLost, TypeOK
  <2>1. Head(eventC[m]) \in ClusterEvent
    BY <2>0, EventQueueTyping
  <2>2. Head(eventC[m]).id \in Node
    BY <2>1 DEF ClusterEvent
  <2>3. \/ st' = st
        \/ st' = [st EXCEPT ![m] = ClearLeaderIfMatches(st[m], Head(eventC[m]).id)]
    BY <1>3 DEF handleNodeLost
  <2>4. Forward(st[m], ClearLeaderIfMatches(st[m], Head(eventC[m]).id))
    BY <1>b, <2>2, StateForward, Zenon
  <2> QED
    BY <1>a, <1>c, <2>3, <2>4, Zenon
<1>4. ASSUME NEW m \in Node, startElection(m)
      PROVE  Forward(st[n], st'[n])
  <2>1. st' = st \/ st' = [st EXCEPT ![m] = BeginElection(st[m])]
    BY <1>4, Zenon DEF startElection
  <2>2. Forward(st[m], BeginElection(st[m]))
    BY <1>b, StateForward, Zenon
  <2> QED
    BY <1>a, <1>c, <2>1, <2>2, Zenon
<1>5. ASSUME NEW m \in Node, NEW e \in elections[m],
             EnterWaiting(m, e) \/ declareLeader(m, e) \/ WaitReceive(m, e) \/ WaitTimeout(m, e)
      PROVE  Forward(st[n], st'[n])
  <2>1. e.term \in Nat
    BY DEF TypeOK, ElectionRun
  <2>2. \/ st' = st
        \/ st' = [st EXCEPT ![m] = EnterWaitingCoordinator(st[m])]
        \/ SetLeaderOK(st[m], m, e.term) /\ st' = [st EXCEPT ![m] = SetLeader(m, e.term)]
        \/ st' = [st EXCEPT ![m] = ResetElection(st[m], e.term)]
    BY <1>5, Zenon DEF EnterWaiting, declareLeader, WaitReceive, WaitTimeout, Restart
  <2>3. Forward(st[m], EnterWaitingCoordinator(st[m])) /\ Forward(st[m], ResetElection(st[m], e.term))
    BY <1>b, <2>1, StateForward, Zenon
  <2>4. SetLeaderOK(st[m], m, e.term) => Forward(st[m], SetLeader(m, e.term))
    BY <1>b, <2>1, StateForward, Zenon
  <2> QED
    BY <1>a, <1>c, <2>2, <2>3, <2>4, Zenon
<1>6. ASSUME NEW r \in requests, OnStartElection(r)
      PROVE  Forward(st[n], st'[n])
  <2>1. r.to \in Node /\ r.term \in Nat
    BY DEF TypeOK, Request
  <2>2. st' = [st EXCEPT ![r.to] = UpdateTerm(st[r.to], r.term)]
    BY <1>6, Zenon DEF OnStartElection
  <2>3. Forward(st[r.to], UpdateTerm(st[r.to], r.term))
    BY <1>b, <2>1, StateForward, Zenon
  <2> QED
    BY <1>a, <2>1, <2>2, <2>3, Zenon
<1>7. ASSUME NEW a \in announces, OnAnnounceLeader(a)
      PROVE  Forward(st[n], st'[n])
  <2>1. a.to \in Node /\ a.leader \in Node /\ a.term \in Nat
    BY DEF TypeOK, Announcement
  <2>2. \/ st' = st
        \/ /\ SetLeaderOK(st[a.to], a.leader, a.term)
           /\ st' = [st EXCEPT ![a.to] = SetLeader(a.leader, a.term)]
    BY <1>7 DEF OnAnnounceLeader
  <2>3. SetLeaderOK(st[a.to], a.leader, a.term) => Forward(st[a.to], SetLeader(a.leader, a.term))
    BY <1>b, <2>1, StateForward, Zenon
  <2> QED
    BY <1>a, <1>c, <2>1, <2>2, <2>3, Zenon
<1>8. ASSUME NEW m \in Node, Start(m) \/ Crash(m)
      PROVE  Forward(st[n], st'[n])
  <2>1. n # m
    BY <1>8 DEF Start, Crash, TypeOK
  <2>2. st'[n] = st[n]
    BY <1>8, <2>1 DEF Start, Crash, TypeOK
  <2> QED
    BY <1>2, <2>2
<1>9. ASSUME \/ UNCHANGED vars
             \/ \E m \in Node : \/ MembershipStep(m)
                                 \/ handleNodeJoined(m) \/ handleElectRequest(m)
                                 \/ \E e \in elections[m] : SendTimeout(m, e)
             \/ \E r \in requests : LoseRequest(r)
             \/ \E a \in announces : LoseAnnounce(a)
             \/ \E r \in reannounce : Reannounce(r)
      PROVE  Forward(st[n], st'[n])
  BY <1>2, <1>9, Zenon DEF vars, MembershipStep, NotifyJoin, NotifyLeave, handleNodeJoined,
     handleElectRequest, SendTimeout, LoseRequest, LoseAnnounce, Reannounce
<1> QED
  BY <1>3, <1>4, <1>5, <1>6, <1>7, <1>8, <1>9, ZenonT(30) DEF Next, EngineStep, Delivery

-----------------------------------------------------------------------------
(* At rest nobody follows a node that is down.  A node follows one that     *)
(* runs, or one that it has still to be told has left; and what a node sent *)
(* before it died arrives before anybody is told.                           *)

InQueue(q, x) == \E i \in DOMAIN q : q[i] = x

Leaving(n, l) == InQueue(eventC[n], [type |-> "leave", id |-> l])

FollowInv ==
    /\ \A n, m \in Node : up[n] /\ up[m] => m \in members[n]
    /\ \A r \in reannounce : up[r.from]
    /\ \A a \in announces : ~up[a.leader] => up[a.to] /\ a.leader \in members[a.to]
    /\ \A n \in Node : up[n] /\ st[n].leader # NoLeader =>
         up[st[n].leader] \/ st[n].leader \in members[n] \/ Leaving(n, st[n].leader)

LEMMA QueueOffer ==
    ASSUME NEW q \in EventQueue, NEW ev \in ClusterEvent, NEW x, InQueue(q, x)
    PROVE  InQueue(Offer(q, EventCap, ev), x)
<1>1. q \in Seq(ClusterEvent) /\ Len(q) \in Nat
  BY DEF EventQueue
<1>2. PICK i \in 1..Len(q) : q[i] = x
  BY <1>1 DEF InQueue
<1>3. /\ Append(q, ev) \in Seq(ClusterEvent) /\ Len(Append(q, ev)) = Len(q) + 1
      /\ Append(q, ev)[i] = q[i]
  BY <1>1
<1>4. i \in DOMAIN Append(q, ev)
  BY <1>1, <1>3
<1>5. InQueue(Append(q, ev), x)
  BY Zenon, <1>2, <1>3, <1>4 DEF InQueue
<1> QED
  BY <1>5 DEF Offer

LEMMA QueueTail ==
    ASSUME NEW q \in EventQueue, q # <<>>, NEW x, InQueue(q, x), Head(q) # x
    PROVE  InQueue(Tail(q), x)
<1>1. q \in Seq(ClusterEvent) /\ Len(q) \in Nat
  BY DEF EventQueue
<1>2. PICK i \in 1..Len(q) : q[i] = x
  BY <1>1 DEF InQueue
<1>3. /\ Tail(q) \in Seq(ClusterEvent) /\ Len(Tail(q)) = Len(q) - 1 /\ Head(q) = q[1]
      /\ \A j \in 1..Len(Tail(q)) : Tail(q)[j] = q[j + 1]
  BY <1>1
<1>4. i # 1
  BY <1>2, <1>3
<1>5. i - 1 \in 1..Len(Tail(q)) /\ Tail(q)[i - 1] = x
  BY <1>1, <1>2, <1>3, <1>4
<1>6. i - 1 \in DOMAIN Tail(q)
  BY <1>3, <1>5
<1> QED
  BY Zenon, <1>5, <1>6 DEF InQueue

LEMMA QueueFirst ==
    ASSUME EventCap > 0, NEW ev
    PROVE  InQueue(Offer(<<>>, EventCap, ev), ev)
BY BoundAssumption DEF InQueue, Offer

\* The steps that change neither who runs nor who knows whom.
LEMMA QuietFollow ==
    ASSUME FollowInv, UNCHANGED <<up, members>>,
           \A a \in announces' \ announces : up[a.leader],
           \A r \in reannounce' \ reannounce : up[r.from],
           \A n \in Node : \/ st'[n].leader = st[n].leader /\ (Leaving(n, st[n].leader) => Leaving(n, st[n].leader)')
                           \/ st'[n].leader = NoLeader
                           \/ up[st'[n].leader]
                           \/ st'[n].leader \in members[n]
    PROVE  FollowInv'
<1>1. (\A n, m \in Node : up[n] /\ up[m] => m \in members[n])'
  BY Zenon DEF FollowInv
<1>2. (\A r \in reannounce : up[r.from])'
  BY Zenon DEF FollowInv
<1>3. (\A a \in announces : ~up[a.leader] => up[a.to] /\ a.leader \in members[a.to])'
  BY Zenon DEF FollowInv
<1>4. ASSUME NEW n \in Node, up'[n], st'[n].leader # NoLeader
      PROVE  up'[st'[n].leader] \/ st'[n].leader \in members'[n] \/ Leaving(n, st[n].leader)'
  <2>1. CASE st'[n].leader = st[n].leader /\ (Leaving(n, st[n].leader) => Leaving(n, st[n].leader)')
    BY Zenon, <1>4, <2>1 DEF FollowInv
  <2> QED
    BY Zenon, <1>4, <2>1
<1> QED
  BY Zenon, <1>1, <1>2, <1>3, <1>4 DEF FollowInv

LEMMA FollowInit == Init => FollowInv
BY Zenon DEF Init, FollowInv, NewState

\* Who starts is known to everybody at once, in a synchronous system.
LEMMA FollowStart ==
    ASSUME Synchronous, TypeOK, FollowInv, NEW k \in Node, Start(k)
    PROVE  FollowInv'
<1> DEFINE others == {m \in Node \ {k} : up[m]}
           ev == [type |-> "join", id |-> k]
<1>1. PICK S \in IF Synchronous THEN {others} ELSE SUBSET others : \E q \in Orders(S) :
          /\ members' = [m \in Node |-> IF m = k THEN {k} \cup S
                                       ELSE IF m \in S THEN members[m] \cup {k}
                                       ELSE members[m]]
          /\ eventC' = [m \in Node |->
               IF m = k THEN JoinEvents(q)
               ELSE IF m \in S /\ k \notin members[m]
               THEN Offer(eventC[m], EventCap, [type |-> "join", id |-> k])
               ELSE eventC[m]]
  BY Zenon DEF Start
<1>a. \A m \in Node \ {k} : up[m] => m \in S
  <2>1. S = others
    BY Zenon
  <2> QED
    BY Zenon, <2>1
<1>b. /\ members'[k] = {k} \cup S
      /\ \A m \in Node \ {k} : members'[m] = IF m \in S THEN members[m] \cup {k} ELSE members[m]
  BY Zenon, <1>1
<1>c. \A m \in Node \ {k} : eventC'[m] \in {eventC[m], Offer(eventC[m], EventCap, ev)}
  BY Zenon, <1>1
<1>2. /\ ~up[k] /\ up' = [up EXCEPT ![k] = TRUE] /\ st' = [st EXCEPT ![k] = NewState]
      /\ UNCHANGED <<announces, reannounce>>
  BY Zenon DEF Start
<1>3. /\ up'[k] /\ st'[k].leader = NoLeader
      /\ \A m \in Node \ {k} : up'[m] = up[m] /\ st'[m] = st[m]
      /\ \A m \in Node \ {k} : members[m] \subseteq members'[m]
      /\ \A m \in Node \ {k} : up[m] => k \in members'[m] /\ m \in members'[k]
      /\ k \in members'[k]
  BY Zenon, <1>a, <1>b, <1>2 DEF TypeOK, NewState
<1>4. ASSUME NEW m \in Node \ {k}, NEW l, Leaving(m, l)
      PROVE  InQueue(eventC'[m], [type |-> "leave", id |-> l])
  <2>1. ev \in ClusterEvent /\ eventC[m] \in EventQueue
    BY DEF ClusterEvent, TypeOK
  <2> HIDE DEF ev
  <2> QED
    BY Zenon, <1>c, <1>4, <2>1, QueueOffer DEF Leaving
<1> HIDE DEF others, ev
<1>5. (\A n, m \in Node : up[n] /\ up[m] => m \in members[n])'
  <2>1. \A n \in Node \ {k}, m \in Node \ {k} : up'[n] /\ up'[m] => m \in members'[n]
    BY Zenon, <1>3 DEF FollowInv
  <2> QED
    BY Zenon, <1>3, <2>1
<1>6. (\A r \in reannounce : up[r.from])'
  BY Zenon, <1>2, <1>3 DEF FollowInv, TypeOK
<1>7. (\A a \in announces : ~up[a.leader] => up[a.to] /\ a.leader \in members[a.to])'
  <2> SUFFICES ASSUME NEW a \in announces, ~up'[a.leader]
               PROVE  up'[a.to] /\ a.leader \in members'[a.to]
    BY Zenon, <1>2
  <2>1. a.leader \in Node /\ a.to \in Node
    BY DEF TypeOK, Announcement
  <2>2. ~up[a.leader]
    BY Zenon, <1>3, <2>1
  <2>3. up[a.to] /\ a.leader \in members[a.to] /\ a.to # k
    BY Zenon, <1>2, <2>2 DEF FollowInv
  <2> QED
    BY Zenon, <1>3, <2>1, <2>3
<1>8. ASSUME NEW n \in Node, up'[n], st'[n].leader # NoLeader
      PROVE  up'[st'[n].leader] \/ st'[n].leader \in members'[n] \/ Leaving(n, st[n].leader)'
  <2>1. n \in Node \ {k} /\ st'[n] = st[n] /\ up[n]
    BY Zenon, <1>3, <1>8
  <2>2. st[n].leader \in Node
    BY <1>8, <2>1 DEF TypeOK, NodeState
  <2>3. up[st[n].leader] \/ st[n].leader \in members[n] \/ Leaving(n, st[n].leader)
    BY Zenon, <1>8, <2>1 DEF FollowInv
  <2> QED
    BY ZenonT(30), <1>3, <1>4, <2>1, <2>2, <2>3 DEF Leaving
<1> QED
  BY Zenon, <1>5, <1>6, <1>7, <1>8 DEF FollowInv

\* What a node sent before it died is kept only for nodes that run, and they know it.
LEMMA FollowCrash ==
    ASSUME TypeOK, FollowInv, NEW k \in Node, Crash(k)
    PROVE  FollowInv'
<1>1. /\ up[k] /\ up' = [up EXCEPT ![k] = FALSE] /\ st' = [st EXCEPT ![k] = NewState]
      /\ members' = [members EXCEPT ![k] = {}] /\ eventC' = [eventC EXCEPT ![k] = <<>>]
      /\ announces' = {a \in announces : IF a.leader = k THEN a.to # k /\ up[a.to]
                                         ELSE a.to = k => up[a.leader]}
      /\ reannounce' = {r \in reannounce : r.from # k}
  BY Zenon DEF Crash
<1>2. /\ ~up'[k]
      /\ \A m \in Node \ {k} : /\ up'[m] = up[m] /\ st'[m] = st[m]
                               /\ members'[m] = members[m] /\ eventC'[m] = eventC[m]
  BY Zenon, <1>1 DEF TypeOK
<1>3. (\A n, m \in Node : up[n] /\ up[m] => m \in members[n])'
  BY Zenon, <1>2 DEF FollowInv
<1>4. (\A r \in reannounce : up[r.from])'
  BY Zenon, <1>1, <1>2 DEF FollowInv, TypeOK
<1>5. (\A a \in announces : ~up[a.leader] => up[a.to] /\ a.leader \in members[a.to])'
  <2> SUFFICES ASSUME NEW a \in announces', ~up'[a.leader]
               PROVE  up'[a.to] /\ a.leader \in members'[a.to]
    OBVIOUS
  <2>1. a \in announces /\ (IF a.leader = k THEN a.to # k /\ up[a.to] ELSE a.to = k => up[a.leader])
    BY Zenon, <1>1
  <2>2. a.leader \in Node /\ a.to \in Node
    BY <2>1 DEF TypeOK, Announcement
  <2>3. CASE a.leader = k
    <3>1. a.to # k /\ up[a.to] /\ k \in members[a.to]
      BY Zenon, <1>1, <2>1, <2>2, <2>3 DEF FollowInv
    <3> QED
      BY Zenon, <1>2, <2>2, <2>3, <3>1
  <2>4. CASE a.leader # k
    <3>1. ~up[a.leader] /\ a.to # k
      BY Zenon, <1>2, <2>1, <2>2, <2>4
    <3> QED
      BY Zenon, <1>2, <2>1, <2>2, <3>1 DEF FollowInv
  <2> QED
    BY <2>3, <2>4
<1>6. ASSUME NEW n \in Node, up'[n], st'[n].leader # NoLeader
      PROVE  up'[st'[n].leader] \/ st'[n].leader \in members'[n] \/ Leaving(n, st[n].leader)'
  <2>1. n \in Node \ {k} /\ st'[n] = st[n] /\ up[n]
    BY Zenon, <1>2, <1>6
  <2>2. st[n].leader \in Node
    BY <1>6, <2>1 DEF TypeOK, NodeState
  <2>3. CASE st[n].leader = k
    BY Zenon, <1>1, <1>2, <2>1, <2>3 DEF FollowInv
  <2>4. CASE st[n].leader # k
    <3>1. up[st[n].leader] \/ st[n].leader \in members[n] \/ Leaving(n, st[n].leader)
      BY Zenon, <1>6, <2>1 DEF FollowInv
    <3> QED
      BY Zenon, <1>2, <2>1, <2>2, <2>4, <3>1 DEF Leaving
  <2> QED
    BY <2>3, <2>4
<1> QED
  BY Zenon, <1>3, <1>4, <1>5, <1>6 DEF FollowInv

\* A node is told of a death after the last call of the dead, and the event finds room.
LEMMA FollowNotify ==
    ASSUME Synchronous, EventCap > 0, TypeOK, FollowInv, NEW k \in Node, NEW l \in Node,
           NotifyJoin(k, l) \/ NotifyLeave(k, l)
    PROVE  FollowInv'
<1>1. /\ up[k] /\ eventC[k] = <<>>
      /\ UNCHANGED <<up, st, announces, reannounce>>
  BY Zenon DEF NotifyJoin, NotifyLeave, NodesIdle, Working
<1>2. ASSUME NEW n \in Node \ {k}
      PROVE  members'[n] = members[n] /\ eventC'[n] = eventC[n]
  BY DEF NotifyJoin, NotifyLeave, TypeOK
<1>3. \A x : ~InQueue(eventC[k], x)
  BY <1>1 DEF InQueue
<1>4. CASE NotifyJoin(k, l)
  <2>1. members'[k] = members[k] \cup {l}
    BY <1>4 DEF NotifyJoin, TypeOK
  <2>2. \A n \in Node : members[n] \subseteq members'[n]
    BY Zenon, <1>2, <2>1
  <2>3. \A n \in Node, x \in Node : Leaving(n, x) => Leaving(n, x)'
    BY Zenon, <1>2, <1>3 DEF Leaving
  <2>4. \A n \in Node : st[n].leader # NoLeader => st[n].leader \in Node
    BY DEF TypeOK, NodeState
  <2>5. \A a \in announces : a.to \in Node
    BY DEF TypeOK, Announcement
  <2> QED
    BY Zenon, <1>1, <2>2, <2>3, <2>4, <2>5 DEF FollowInv, Leaving
<1>5. CASE NotifyLeave(k, l)
  <2> DEFINE ev == [type |-> "leave", id |-> l]
  <2>1. /\ ~up[l] /\ SentBy(l) = {}
        /\ members'[k] = members[k] \ {l} /\ eventC'[k] = Offer(<<>>, EventCap, ev)
    BY <1>1, <1>5 DEF NotifyLeave, TypeOK
  <2>2. InQueue(eventC'[k], ev)
    <3> HIDE DEF ev
    <3> QED
      BY Zenon, <2>1, QueueFirst
  <2>3. \A n \in Node, m \in Node \ {l} : m \in members[n] => m \in members'[n]
    BY Zenon, <1>2, <2>1
  <2>4. (\A n, m \in Node : up[n] /\ up[m] => m \in members[n])'
    BY Zenon, <1>1, <2>1, <2>3 DEF FollowInv
  <2>5. (\A r \in reannounce : up[r.from])'
    BY Zenon, <1>1 DEF FollowInv
  <2>6. (\A a \in announces : ~up[a.leader] => up[a.to] /\ a.leader \in members[a.to])'
    <3>1. \A a \in announces : a.to \in Node /\ a.leader \in Node
      BY SMTT(30) DEF TypeOK, Announcement
    <3>2. \A a \in announces : a.leader # l
      BY Zenon, <2>1 DEF SentBy
    <3> QED
      BY Zenon, <1>1, <2>3, <3>1, <3>2 DEF FollowInv
  <2>7. ASSUME NEW n \in Node, up'[n], st'[n].leader # NoLeader
        PROVE  up'[st'[n].leader] \/ st'[n].leader \in members'[n] \/ Leaving(n, st[n].leader)'
    <3>1. st[n].leader \in Node /\ st'[n] = st[n] /\ up[n]
      BY <1>1, <2>7 DEF TypeOK, NodeState
    <3>2. up[st[n].leader] \/ st[n].leader \in members[n] \/ Leaving(n, st[n].leader)
      BY Zenon, <2>7, <3>1 DEF FollowInv
    <3>3. CASE n # k
      BY Zenon, <1>1, <1>2, <3>1, <3>2, <3>3 DEF Leaving
    <3>4. CASE n = k
      <4>1. up[st[n].leader] \/ st[n].leader \in members[n]
        BY Zenon, <1>3, <3>2, <3>4 DEF Leaving
      <4>2. CASE st[n].leader = l
        BY Zenon, <2>2, <3>1, <3>4, <4>2 DEF Leaving
      <4>3. CASE st[n].leader # l
        BY Zenon, <1>1, <2>3, <3>1, <4>1, <4>3
      <4> QED
        BY <4>2, <4>3
    <3> QED
      BY <3>3, <3>4
  <2> QED
    BY ZenonT(30), <2>4, <2>5, <2>6, <2>7 DEF FollowInv
<1> QED
  BY <1>4, <1>5

\* Of the methods of State, only SetLeader brings in a leader.
LEMMA LeaderKept ==
    ASSUME NEW s \in NodeState, NEW l, NEW t
    PROVE  /\ BeginElection(s).leader = NoLeader
           /\ EnterWaitingCoordinator(s).leader = s.leader
           /\ SetLeader(l, t).leader = l
           /\ ClearLeaderIfMatches(s, s.leader).leader = NoLeader
           /\ ResetElection(s, t).leader = s.leader
           /\ UpdateTerm(s, t).leader \in {s.leader, NoLeader}
<1>1. EnterWaitingCoordinator(s).leader = s.leader
  BY DEF EnterWaitingCoordinator, NodeState
<1>2. ClearLeaderIfMatches(s, s.leader).leader = NoLeader
  BY DEF ClearLeaderIfMatches, NodeState
<1>3. ResetElection(s, t).leader = s.leader
  BY DEF ResetElection, NodeState
<1> QED
  BY <1>1, <1>2, <1>3 DEF BeginElection, SetLeader, UpdateTerm

LEMMA FollowEngine ==
    ASSUME TypeOK, FollowInv, NEW k \in Node, EngineStep(k)
    PROVE  FollowInv'
<1>1. UNCHANGED <<up, members, reannounce>>
  BY Zenon DEF EngineStep, handleNodeJoined, handleNodeLost, handleElectRequest, startElection,
     EnterWaiting, declareLeader, WaitReceive, SendTimeout, WaitTimeout
<1>2. \A n \in Node : st[n] \in NodeState /\ eventC[n] \in EventQueue
  BY DEF TypeOK
<1>3. CASE handleNodeJoined(k)
  <2>1. /\ eventC[k] # <<>> /\ Head(eventC[k]).type = "join"
        /\ eventC' = [eventC EXCEPT ![k] = Tail(@)] /\ UNCHANGED <<st, announces>>
    BY Zenon, <1>3 DEF handleNodeJoined
  <2>2. eventC'[k] = Tail(eventC[k]) /\ \A n \in Node \ {k} : eventC'[n] = eventC[n]
    BY Zenon, <2>1 DEF TypeOK
  <2>3. \A l : Head(eventC[k]) # [type |-> "leave", id |-> l]
    BY <2>1
  <2>4. \A n \in Node, l \in Node \cup {NoLeader} : Leaving(n, l) => InQueue(eventC'[n], [type |-> "leave", id |-> l])
    BY Zenon, <1>2, <2>1, <2>2, <2>3, QueueTail DEF Leaving
  <2>5. \A n \in Node : st[n].leader \in Node \cup {NoLeader}
    BY <1>2 DEF NodeState
  <2> QED
    BY Zenon, <1>1, <2>1, <2>4, <2>5, QuietFollow DEF Leaving
<1>4. CASE handleNodeLost(k)
  <2> DEFINE lostID == Head(eventC[k]).id
  <2>1. /\ eventC[k] # <<>> /\ eventC' = [eventC EXCEPT ![k] = Tail(@)] /\ UNCHANGED announces
        /\ st[k].leader = lostID => st' = [st EXCEPT ![k] = ClearLeaderIfMatches(@, lostID)]
        /\ st[k].leader # lostID => UNCHANGED st
    BY Zenon, <1>4 DEF handleNodeLost
  <2>2. eventC'[k] = Tail(eventC[k]) /\ \A n \in Node \ {k} : eventC'[n] = eventC[n]
    BY Zenon, <2>1 DEF TypeOK
  <2>3. \A l : Head(eventC[k]) = [type |-> "leave", id |-> l] => l = lostID
    OBVIOUS
  <2> HIDE DEF lostID
  <2>4. \A n \in Node \ {k} : st'[n] = st[n]
    BY Zenon, <2>1 DEF TypeOK
  <2>5. ASSUME NEW n \in Node \ {k}
        PROVE  st'[n].leader = st[n].leader /\ (Leaving(n, st[n].leader) => Leaving(n, st[n].leader)')
    BY Zenon, <2>2, <2>4 DEF Leaving
  <2>6. CASE st[k].leader = lostID
    <3>1. st'[k] = ClearLeaderIfMatches(st[k], st[k].leader)
      BY Zenon, <2>1, <2>6 DEF TypeOK
    <3>2. st'[k].leader = NoLeader
      BY <1>2, <3>1, LeaderKept
    <3> QED
      BY Zenon, <1>1, <2>1, <2>5, <3>2, QuietFollow
  <2>7. CASE st[k].leader # lostID
    <3>1. Head(eventC[k]) # [type |-> "leave", id |-> st[k].leader]
      BY Zenon, <2>3, <2>7
    <3>2. st'[k] = st[k] /\ (Leaving(k, st[k].leader) => Leaving(k, st[k].leader)')
      BY Zenon, <1>2, <2>1, <2>2, <2>7, <3>1, QueueTail DEF Leaving
    <3> QED
      BY Zenon, <1>1, <2>1, <2>5, <3>2, QuietFollow
  <2> QED
    BY <2>6, <2>7
<1>5. CASE \/ handleElectRequest(k) \/ startElection(k)
           \/ \E e \in elections[k] : \/ EnterWaiting(k, e) \/ declareLeader(k, e) \/ WaitReceive(k, e)
                                      \/ SendTimeout(k, e) \/ WaitTimeout(k, e)
  <2>1. /\ UNCHANGED eventC
        /\ \/ UNCHANGED st
           \/ st' = [st EXCEPT ![k] = BeginElection(@)]
           \/ st' = [st EXCEPT ![k] = EnterWaitingCoordinator(@)]
           \/ \E t : st' = [st EXCEPT ![k] = ResetElection(@, t)]
           \/ \E t : up[k] /\ st' = [st EXCEPT ![k] = SetLeader(k, t)]
    BY Zenon, <1>5 DEF handleElectRequest, startElection, EnterWaiting, declareLeader, WaitReceive,
       SendTimeout, WaitTimeout, Restart
  <2>2. \A a \in announces' \ announces : up[a.leader]
    <3>1. CASE \E e \in elections[k] : declareLeader(k, e)
      <4>1. PICK e \in elections[k] : declareLeader(k, e)
        BY Zenon, <3>1
      <4>2. up[k] /\ (\/ UNCHANGED announces
                      \/ announces' = announces \cup
                           {[to |-> m, leader |-> k, term |-> e.term] : m \in members[k]})
        BY Zenon, <4>1 DEF declareLeader
      <4>3. ASSUME NEW a \in announces' \ announces
            PROVE  up[a.leader]
        <5>1. PICK m \in members[k] : a = [to |-> m, leader |-> k, term |-> e.term]
          BY Zenon, <4>2
        <5>2. a.leader = k
          BY <5>1
        <5> QED
          BY Zenon, <4>2, <5>2
      <4> QED
        BY Zenon, <4>3
    <3>2. CASE UNCHANGED announces
      BY Zenon, <3>2
    <3> QED
      BY Zenon, <1>5, <3>1, <3>2 DEF handleElectRequest, startElection, EnterWaiting, WaitReceive,
         SendTimeout, WaitTimeout
  <2>3. \A n \in Node \ {k} : st'[n] = st[n]
    BY Zenon, <2>1 DEF TypeOK
  <2>4. st'[k].leader = st[k].leader \/ st'[k].leader = NoLeader \/ up[st'[k].leader]
    <3>1. \/ st'[k] = st[k]
          \/ st'[k] = BeginElection(st[k])
          \/ st'[k] = EnterWaitingCoordinator(st[k])
          \/ \E t : st'[k] = ResetElection(st[k], t)
          \/ \E t : up[k] /\ st'[k] = SetLeader(k, t)
      BY ZenonT(30), <2>1 DEF TypeOK
    <3>2. /\ BeginElection(st[k]).leader = NoLeader
          /\ EnterWaitingCoordinator(st[k]).leader = st[k].leader
          /\ \A t : ResetElection(st[k], t).leader = st[k].leader
          /\ \A t : SetLeader(k, t).leader = k
      BY <1>2, LeaderKept
    <3> QED
      BY Zenon, <3>1, <3>2
  <2> QED
    BY Zenon, <1>1, <2>1, <2>2, <2>3, <2>4, QuietFollow DEF Leaving
<1> QED
  BY Zenon, <1>3, <1>4, <1>5 DEF EngineStep

LEMMA FollowDelivery ==
    ASSUME TypeOK, FollowInv, Delivery
    PROVE  FollowInv'
<1>1. UNCHANGED <<up, members, eventC>>
  BY Zenon DEF Delivery, OnStartElection, LoseRequest, OnAnnounceLeader, LoseAnnounce, Reannounce
<1>2. \A n \in Node : st[n] \in NodeState
  BY DEF TypeOK
<1>3. \A n, l : Leaving(n, l) => InQueue(eventC'[n], [type |-> "leave", id |-> l])
  BY Zenon, <1>1 DEF Leaving
<1>4. ASSUME NEW r \in requests, OnStartElection(r)
      PROVE  FollowInv'
  <2>1. /\ r.to \in Node /\ up[r.to] /\ UNCHANGED announces
        /\ st' = [st EXCEPT ![r.to] = UpdateTerm(st[r.to], r.term)]
        /\ \A x \in reannounce' \ reannounce : x = [from |-> r.to, to |-> r.from]
    <3>1. r.to \in Node
      BY DEF TypeOK, Request
    <3> QED
      BY Zenon, <1>4, <3>1 DEF OnStartElection
  <2>2. \A x \in reannounce' \ reannounce : up[x.from]
    BY <2>1
  <2>3. \A n \in Node : st'[n].leader \in {st[n].leader, NoLeader}
    <3>1. st'[r.to] = UpdateTerm(st[r.to], r.term) /\ \A n \in Node \ {r.to} : st'[n] = st[n]
      BY ZenonT(30), <2>1 DEF TypeOK
    <3>2. UpdateTerm(st[r.to], r.term).leader \in {st[r.to].leader, NoLeader}
      BY <1>2, <2>1, LeaderKept
    <3> QED
      BY Zenon, <3>1, <3>2
  <2> QED
    BY Zenon, <1>1, <1>3, <2>1, <2>2, <2>3, QuietFollow DEF Leaving
<1>5. ASSUME NEW a \in announces, OnAnnounceLeader(a)
      PROVE  FollowInv'
  <2>1. a.to \in Node /\ a.leader \in Node
    BY DEF TypeOK, Announcement
  <2>2. /\ announces' \subseteq announces /\ UNCHANGED reannounce
        /\ UNCHANGED st \/ st' = [st EXCEPT ![a.to] = SetLeader(a.leader, a.term)]
    BY Zenon, <1>5 DEF OnAnnounceLeader
  <2>3. \A n \in Node \ {a.to} : st'[n] = st[n]
    BY Zenon, <2>2 DEF TypeOK
  <2>4. st'[a.to] = st[a.to] \/ st'[a.to].leader = a.leader
    <3>1. st'[a.to] = st[a.to] \/ st'[a.to] = SetLeader(a.leader, a.term)
      BY Zenon, <2>1, <2>2 DEF TypeOK
    <3> QED
      BY <3>1 DEF SetLeader
  <2>5. up[a.leader] \/ a.leader \in members[a.to]
    BY Zenon, <1>5 DEF FollowInv
  <2> QED
    BY Zenon, <1>1, <1>3, <2>2, <2>3, <2>4, <2>5, QuietFollow DEF Leaving
<1>6. ASSUME NEW r \in reannounce, Reannounce(r)
      PROVE  FollowInv'
  <2>1. /\ announces' = announces \cup {[to |-> r.to, leader |-> r.from, term |-> st[r.from].term]}
        /\ reannounce' \subseteq reannounce /\ UNCHANGED st
    BY Zenon, <1>6 DEF Reannounce
  <2>2. \A a \in announces' \ announces : a.leader = r.from
    BY <2>1
  <2>3. \A a \in announces' \ announces : up[a.leader]
    BY Zenon, <2>2 DEF FollowInv
  <2> QED
    BY Zenon, <1>1, <1>3, <2>1, <2>3, QuietFollow DEF Leaving
<1>7. ASSUME \/ \E r \in requests : LoseRequest(r)
             \/ \E a \in announces : LoseAnnounce(a)
      PROVE  FollowInv'
  <2>1. announces' \subseteq announces /\ UNCHANGED <<st, reannounce>>
    BY Zenon, <1>7 DEF LoseRequest, LoseAnnounce
  <2> QED
    BY Zenon, <1>1, <1>3, <2>1, QuietFollow DEF Leaving
<1> QED
  BY Zenon, <1>4, <1>5, <1>6, <1>7 DEF Delivery

LEMMA FollowNext ==
    ASSUME Synchronous, EventCap > 0
    PROVE  TypeOK /\ FollowInv /\ [Next]_vars => FollowInv'
<1> SUFFICES ASSUME TypeOK, FollowInv, [Next]_vars PROVE FollowInv'
  OBVIOUS
<1>1. CASE UNCHANGED vars
  BY Zenon, <1>1 DEF vars, FollowInv, Leaving
<1>2. CASE Next
  BY Zenon, <1>2, FollowStart, FollowCrash, FollowNotify, FollowEngine, FollowDelivery
     DEF Next, MembershipStep
<1> QED
  BY <1>1, <1>2

LEMMA RestLeader == IndInv /\ FollowInv => SettledLeaderRuns
<1> SUFFICES ASSUME IndInv, FollowInv, Settled, NEW n \in Node, up[n]
             PROVE  \E l \in Node : up[l] /\ st[n].leader = l
  BY Zenon DEF SettledLeaderRuns
<1>1. /\ elections[n] = {} /\ ~(starts[n] > 0) /\ ~electC[n] /\ eventC[n] = <<>>
      /\ members[n] = {m \in Node : up[m]}
  BY Zenon DEF Settled, Calm, NodesIdle, Working, ViewsAccurate
<1>2. st[n].leader # NoLeader
  <2>1. ~InElection(st[n])
    BY Zenon, <1>1 DEF IndInv, GoodNode, Good
  <2> QED
    BY Zenon, <1>1, <2>1 DEF IndInv, GoodNode, Good
<1>3. st[n].leader \in Node
  BY <1>2 DEF IndInv, TypeOK, NodeState
<1>4. ~Leaving(n, st[n].leader)
  BY <1>1 DEF Leaving, InQueue
<1>5. up[st[n].leader]
  BY Zenon, <1>1, <1>2, <1>4 DEF FollowInv
<1> QED
  BY <1>3, <1>5
=============================================================================
