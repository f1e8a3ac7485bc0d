------------------------------ MODULE Election ------------------------------
(***************************************************************************)
(* The Bully election of a cluster of nodes (election/engine.go), driven   *)
(* by membership notifications (cluster/event.go) and by the two election  *)
(* RPCs (election/client.go, server/election.go).                          *)
(*                                                                         *)
(* One step is one stretch of code between two points where a goroutine    *)
(* blocks or hands work to another goroutine: an RPC, a channel, a timer,  *)
(* a go statement.                                                         *)
(***************************************************************************)
EXTENDS ElectionState, Integers, Sequences, FiniteSets

CONSTANTS
    Node,          \* the NODE_IDs of the cluster
    EventCap,      \* capacity of EventHandler.eventC, 16 in the code
    InternalCap,   \* capacity of engine.internalC, 8 in the code
    MaxTerm,       \* bound: no election begins beyond this term
    MaxStarts,     \* bound: goroutines of one node waiting to run startElection
    MaxCrashes,    \* bound: crashes of nodes, all together
    Synchronous    \* TRUE: RPCs and failure detection are faster than ElectionTimeout

ASSUME NodeAssumption == Node \subseteq Nat \ {0} /\ IsFiniteSet(Node)
ASSUME BoundAssumption ==
    /\ EventCap \in Nat /\ InternalCap \in Nat
    /\ MaxTerm \in Nat /\ MaxStarts \in Nat /\ MaxCrashes \in Nat
    /\ Synchronous \in BOOLEAN

VARIABLES
    up,          \* is the process of the node running?
    st,          \* engine.state
    members,     \* EventHandler.members
    eventC,      \* EventHandler.eventC
    electC,      \* engine.electC (capacity 1): is an election request in it?
    internalC,   \* engine.internalC: its buffer, then the handlers blocked sending to it
    starts,      \* how many `go e.startElection(ctx)` have not called BeginElection yet
    elections,   \* the startElection goroutines that began an election, with their progress
    requests,    \* StartElection calls not yet handled; open: the caller still waits
    announces,   \* AnnounceLeader calls not yet handled
    reannounce,  \* goroutines of OnStartElection about to call AnnounceLeader
    crashes      \* how many crashes happened

vars == <<up, st, members, eventC, electC, internalC, starts, elections,
          requests, announces, reannounce, crashes>>

-----------------------------------------------------------------------------
NodeState     == [leader : Node \cup {NoLeader}, term : Nat, phase : Phases]
ClusterEvent  == [type : {"join", "leave"}, id : Node]
EventQueue    == {q \in Seq(ClusterEvent) : Len(q) <= EventCap}
InternalEvent == [typ : {"coordinator", "retry"}, term : Nat]

(* Progress of a startElection goroutine that has begun an election: it is  *)
(* inside sendToHigher; there, a higher node has answered ok; it is about   *)
(* to call declareLeader; it is inside waitForCoordinator.                  *)
Progress     == {"sending", "ok", "declaring", "waiting"}
ElectionRun  == [term : Nat, pc : Progress]
Request      == [from : Node, to : Node, term : Nat, open : BOOLEAN]
Announcement == [to : Node, leader : Node, term : Nat]

TypeOK ==
    /\ up \in [Node -> BOOLEAN]
    /\ st \in [Node -> NodeState]
    /\ members \in [Node -> SUBSET Node]
    /\ eventC \in [Node -> EventQueue]
    /\ electC \in [Node -> BOOLEAN]
    /\ internalC \in [Node -> Seq(InternalEvent)]
    /\ starts \in [Node -> Nat]
    /\ elections \in [Node -> SUBSET ElectionRun]
    /\ requests \subseteq Request
    /\ announces \subseteq Announcement
    /\ reannounce \subseteq [from : Node, to : Node]
    /\ crashes \in Nat

Init ==
    /\ up = [n \in Node |-> FALSE]
    /\ st = [n \in Node |-> NewState]
    /\ members = [n \in Node |-> {}]
    /\ eventC = [n \in Node |-> <<>>]
    /\ electC = [n \in Node |-> FALSE]
    /\ internalC = [n \in Node |-> <<>>]
    /\ starts = [n \in Node |-> 0]
    /\ elections = [n \in Node |-> {}]
    /\ requests = {}
    /\ announces = {}
    /\ reannounce = {}
    /\ crashes = 0

-----------------------------------------------------------------------------
(* Channels.                                                                *)

\* Mutant: one element more than the capacity is let in.
OfferOneMore(ch, cap, ev) == IF Len(ch) <= cap THEN Append(ch, ev) ELSE ch

\* A select with a default branch: the element is dropped when the buffer is full.
Offer(ch, cap, ev) == IF Len(ch) < cap THEN Append(ch, ev) ELSE ch

\* signalCoordinator blocks while the buffer is full.  Blocked senders enter the
\* buffer in the order they arrived, so buffer and blocked senders are one queue.
signalCoordinator(ch, term) == Append(ch, [typ |-> "coordinator", term |-> term])

signalRetry(ch, term) == Offer(ch, InternalCap, [typ |-> "retry", term |-> term])

-----------------------------------------------------------------------------
(* What the system still has to do without any timer.                       *)

Working(n) ==
    \/ starts[n] > 0 \/ electC[n] \/ eventC[n] # <<>>
    \/ \E e \in elections[n] :
          \/ e.pc \in {"ok", "declaring"}
          \/ e.pc = "waiting" /\ internalC[n] # <<>>

InFlight ==
    \/ reannounce # {} \/ announces # {}
    \/ \E r \in requests : up[r.to]

SentBy(m) == {r \in requests : r.from = m} \cup {a \in announces : a.leader = m}

ViewsAccurate == \A n \in Node : up[n] => members[n] = {m \in Node : up[m]}

\* m is down and memberlist has told n so.
Lost(n, m) == ~up[m] /\ m \notin members[n]

\* Of a synchronous system: no goroutine has anything to do but to wait.
NodesIdle == \A n \in Node : up[n] => ~Working(n)

\* Steps inside different nodes commute, so a synchronous run takes them in the
\* order of the node ids.
Turn(n) == Synchronous => \A m \in Node : m < n /\ up[m] => ~Working(m)

Calm == ViewsAccurate /\ ~InFlight /\ NodesIdle

-----------------------------------------------------------------------------
(* Processes and membership.                                                *)

\* The orders in which a set of nodes can be notified.
Orders(S) == {q \in [1..Cardinality(S) -> S] : \A m \in S : \E i \in DOMAIN q : q[i] = m}

\* While main is inside cl.Join nobody reads eventC: beyond its capacity the join
\* events are dropped.
JoinEvents(q) ==
    [i \in 1..(IF Len(q) < EventCap THEN Len(q) ELSE EventCap) |-> [type |-> "join", id |-> q[i]]]

\* cl.Join exchanges views with the nodes it reaches (all that run, in a
\* synchronous system), so both sides learn of each other; then main starts the
\* engine: run and a first startElection.  The join event of the local node
\* itself, which handleNodeJoined ignores, is left out of eventC.
Start(n) ==
    /\ ~up[n]
    /\ Synchronous => NodesIdle /\ SentBy(n) = {}
    /\ LET others == {m \in Node \ {n} : up[m]}
       IN \E S \in IF Synchronous THEN {others} ELSE SUBSET others :
          \E q \in Orders(S) :
            /\ members' = [m \in Node |-> IF m = n THEN {n} \cup S
                                         ELSE IF m \in S THEN members[m] \cup {n}
                                         ELSE members[m]]
            /\ eventC' = [m \in Node |->
                 IF m = n THEN JoinEvents(q)
                 ELSE IF m \in S /\ n \notin members[m]
                 THEN Offer(eventC[m], EventCap, [type |-> "join", id |-> n])
                 ELSE eventC[m]]
    /\ up' = [up EXCEPT ![n] = TRUE]
    /\ st' = [st EXCEPT ![n] = NewState]
    /\ starts' = [starts EXCEPT ![n] = 1]
    /\ UNCHANGED <<electC, internalC, elections, requests, announces, reannounce, crashes>>

\* The process dies with its memory, its goroutines and its connections.  What
\* it had sent to a running node may still arrive; a call to it survives if its
\* caller runs and retries.
Crash(n) ==
    /\ up[n] /\ crashes < MaxCrashes
    /\ Synchronous => \A m \in Node \ {n} : up[m] => ~Working(m)
    /\ crashes' = crashes + 1
    /\ up' = [up EXCEPT ![n] = FALSE]
    /\ st' = [st EXCEPT ![n] = NewState]
    /\ members' = [members EXCEPT ![n] = {}]
    /\ eventC' = [eventC EXCEPT ![n] = <<>>]
    /\ electC' = [electC EXCEPT ![n] = FALSE]
    /\ internalC' = [internalC EXCEPT ![n] = <<>>]
    /\ starts' = [starts EXCEPT ![n] = 0]
    /\ elections' = [elections EXCEPT ![n] = {}]
    /\ requests' = {IF r.from = n THEN [r EXCEPT !.open = FALSE] ELSE r :
                      r \in {r \in requests : (r.from = n => up[r.to]) /\ (r.to = n => r.open)}}
    /\ announces' = {a \in announces : IF a.leader = n THEN a.to # n /\ up[a.to]
                                       ELSE a.to = n => up[a.leader]}
    /\ reannounce' = {r \in reannounce : r.from # n}

NotifyJoin(n, m) ==
    /\ up[n] /\ up[m] /\ m \notin members[n]
    /\ Synchronous => NodesIdle
    /\ members' = [members EXCEPT ![n] = @ \cup {m}]
    /\ eventC' = [eventC EXCEPT ![n] = Offer(@, EventCap, [type |-> "join", id |-> m])]
    /\ UNCHANGED <<up, st, electC, internalC, starts, elections,
                   requests, announces, reannounce, crashes>>

NotifyLeave(n, m) ==
    /\ up[n] /\ ~up[m] /\ m \in members[n]
    /\ Synchronous => NodesIdle /\ SentBy(m) = {}
    /\ members' = [members EXCEPT ![n] = @ \ {m}]
    /\ eventC' = [eventC EXCEPT ![n] = Offer(@, EventCap, [type |-> "leave", id |-> m])]
    /\ UNCHANGED <<up, st, electC, internalC, starts, elections,
                   requests, announces, reannounce, crashes>>

-----------------------------------------------------------------------------
(* The loop of run: one event or one election request at a time.            *)

CanSpawn(n) == starts[n] < MaxStarts

\* Mutant: the join of a node above the leader starts no election.
JoinIgnoresHigher(n, joinedID) == joinedID # n /\ st[n].leader = NoLeader

\* handleNodeJoined and handleNodeLost take the event at the head of eventC.
JoinStartsElection(n, joinedID) ==
    joinedID # n /\ (st[n].leader = NoLeader \/ joinedID > st[n].leader)

handleNodeJoined(n) ==
    /\ up[n] /\ eventC[n] # <<>> /\ Head(eventC[n]).type = "join"
    /\ CanSpawn(n)
    /\ eventC' = [eventC EXCEPT ![n] = Tail(@)]
    /\ starts' = IF JoinStartsElection(n, Head(eventC[n]).id)
                 THEN [starts EXCEPT ![n] = @ + 1]
                 ELSE starts
    /\ UNCHANGED <<up, st, members, electC, internalC, elections,
                   requests, announces, reannounce, crashes>>

\* Mutant: the leader is cleared but no election is started.
handleNodeLostNoElection(n) ==
    LET lostID == Head(eventC[n]).id
    IN /\ up[n] /\ eventC[n] # <<>> /\ Head(eventC[n]).type = "leave"
       /\ CanSpawn(n)
       /\ eventC' = [eventC EXCEPT ![n] = Tail(@)]
       /\ st' = [st EXCEPT ![n] = ClearLeaderIfMatches(@, lostID)]
       /\ UNCHANGED <<up, starts, members, electC, internalC, elections,
                      requests, announces, reannounce, crashes>>

handleNodeLost(n) ==
    LET lostID == Head(eventC[n]).id
    IN /\ up[n] /\ eventC[n] # <<>> /\ Head(eventC[n]).type = "leave"
       /\ CanSpawn(n)
       /\ eventC' = [eventC EXCEPT ![n] = Tail(@)]
       /\ IF st[n].leader = lostID
          THEN /\ st' = [st EXCEPT ![n] = ClearLeaderIfMatches(@, lostID)]
               /\ starts' = [starts EXCEPT ![n] = @ + 1]
               /\ UNCHANGED internalC
          ELSE /\ internalC' = IF st[n].phase = PhaseWaitingCoordinator /\ lostID > n
                               THEN [internalC EXCEPT ![n] = signalRetry(@, st[n].term)]
                               ELSE internalC
               /\ UNCHANGED <<st, starts>>
       /\ UNCHANGED <<up, members, electC, elections,
                      requests, announces, reannounce, crashes>>

handleElectRequest(n) ==
    /\ up[n] /\ electC[n]
    /\ CanSpawn(n)
    /\ electC' = [electC EXCEPT ![n] = FALSE]
    /\ starts' = [starts EXCEPT ![n] = @ + 1]
    /\ UNCHANGED <<up, st, members, eventC, internalC, elections,
                   requests, announces, reannounce, crashes>>

-----------------------------------------------------------------------------
(* startElection, sendToHigher, waitForCoordinator and declareLeader: the   *)
(* goroutine of one election.                                               *)

Advance(n, e, pc) == [elections EXCEPT ![n] = (@ \ {e}) \cup {[e EXCEPT !.pc = pc]}]

End(n, e) == [elections EXCEPT ![n] = @ \ {e}]

\* The election's callers stop waiting and retrying: cancel() of sendToHigher.
CloseRequests(n, e) ==
    LET mine == {r \in requests : r.from = n /\ r.term = e.term}
    IN (requests \ mine) \cup {[r EXCEPT !.open = FALSE] : r \in {r \in mine : up[r.to]}}

\* startElection up to sendToHigher's first wait.  Members() only reads the view,
\* so it is taken together with BeginElection.
startElection(n) ==
    LET higher == {m \in members[n] : m > n}
        e == [term |-> st[n].term + 1, pc |-> IF higher = {} THEN "declaring" ELSE "sending"]
    IN /\ up[n] /\ starts[n] > 0
       /\ starts' = [starts EXCEPT ![n] = @ - 1]
       /\ IF BeginElectionOK(st[n])
          THEN /\ st[n].term < MaxTerm
               /\ st' = [st EXCEPT ![n] = BeginElection(@)]
               /\ elections' = [elections EXCEPT ![n] = @ \cup {e}]
               /\ requests' = requests \cup
                    {[from |-> n, to |-> m, term |-> e.term, open |-> TRUE] : m \in higher}
          ELSE UNCHANGED <<st, elections, requests>>
       /\ UNCHANGED <<up, members, eventC, electC, internalC, announces, reannounce, crashes>>

\* The result of sendToHigher is false: ElectionTimeout passed.
SendTimeout(n, e) ==
    /\ up[n] /\ e \in elections[n] /\ e.pc \in {"sending", "ok"}
    /\ Synchronous =>
          /\ e.pc = "sending"
          /\ \A r \in requests : r.from = n /\ r.term = e.term /\ r.open => Lost(n, r.to)
    /\ elections' = Advance(n, e, "declaring")
    /\ requests' = CloseRequests(n, e)
    /\ UNCHANGED <<up, st, members, eventC, electC, internalC, starts,
                   announces, reannounce, crashes>>

\* The result of sendToHigher is true.
EnterWaiting(n, e) ==
    /\ up[n] /\ e \in elections[n] /\ e.pc = "ok"
    /\ requests' = CloseRequests(n, e)
    /\ IF EnterWaitingCoordinatorOK(st[n], e.term)
       THEN /\ st' = [st EXCEPT ![n] = EnterWaitingCoordinator(@)]
            /\ elections' = Advance(n, e, "waiting")
       ELSE /\ elections' = End(n, e)
            /\ UNCHANGED st
    /\ UNCHANGED <<up, members, eventC, electC, internalC, starts,
                   announces, reannounce, crashes>>

declareLeader(n, e) ==
    /\ up[n] /\ e \in elections[n] /\ e.pc = "declaring"
    /\ elections' = End(n, e)
    /\ IF SetLeaderOK(st[n], n, e.term)
       THEN /\ st' = [st EXCEPT ![n] = SetLeader(n, e.term)]
            /\ announces' = announces \cup
                 {[to |-> m, leader |-> n, term |-> e.term] : m \in members[n]}
       ELSE UNCHANGED <<st, announces>>
    /\ UNCHANGED <<up, members, eventC, electC, internalC, starts,
                   requests, reannounce, crashes>>

\* Mutant: the phase is not reset before the new election.
RestartNoReset(n, e) ==
    /\ starts' = [starts EXCEPT ![n] = @ + 1]
    /\ elections' = End(n, e)
    /\ UNCHANGED st

\* ResetElection(term); go e.startElection(ctx); return
Restart(n, e) ==
    /\ st' = [st EXCEPT ![n] = ResetElection(@, e.term)]
    /\ starts' = [starts EXCEPT ![n] = @ + 1]
    /\ elections' = End(n, e)

\* waitForCoordinator receives from internalC.
CoordinatorValid(n, ev) == st[n].leader # NoLeader /\ ~(st[n].term < ev.term)

WaitReceive(n, e) ==
    LET ev == Head(internalC[n])
    IN /\ up[n] /\ e \in elections[n] /\ e.pc = "waiting" /\ internalC[n] # <<>>
       /\ CanSpawn(n)
       /\ internalC' = [internalC EXCEPT ![n] = Tail(@)]
       /\ IF ev.term < e.term
          THEN UNCHANGED <<st, starts, elections>>
          ELSE IF ev.typ = "coordinator" /\ CoordinatorValid(n, ev)
               THEN elections' = End(n, e) /\ UNCHANGED <<st, starts>>
               ELSE Restart(n, e)
       /\ UNCHANGED <<up, members, eventC, electC, requests, announces, reannounce, crashes>>

-----------------------------------------------------------------------------
(* The RPC handlers, run at the called node.                                *)

\* OnStartElection.  The server answers ok whatever the engine does, and the
\* caller that still waits learns it.
OnStartElection(r) ==
    LET n == r.to
        s == UpdateTerm(st[n], r.term)
        e == [term |-> r.term, pc |-> "sending"]
    IN /\ r \in requests /\ up[n]
       /\ Synchronous => NodesIdle
       /\ requests' = requests \ {r}
       /\ st' = [st EXCEPT ![n] = s]
       /\ IF IsLeader(s, n)
          THEN /\ reannounce' = reannounce \cup {[from |-> n, to |-> r.from]}
               /\ UNCHANGED electC
          ELSE /\ electC' = [electC EXCEPT ![n] = TRUE]
               /\ UNCHANGED reannounce
       /\ elections' = IF r.open /\ e \in elections[r.from]
                       THEN Advance(r.from, e, "ok")
                       ELSE elections
       /\ UNCHANGED <<up, members, eventC, internalC, starts, announces, crashes>>

\* The goroutine OnStartElection starts at a leader reads the term only now.
Reannounce(r) ==
    /\ r \in reannounce
    /\ Synchronous => NodesIdle
    /\ reannounce' = reannounce \ {r}
    /\ announces' = announces \cup
          {[to |-> r.to, leader |-> r.from, term |-> st[r.from].term]}
    /\ UNCHANGED <<up, st, members, eventC, electC, internalC, starts, elections,
                   requests, crashes>>

OnAnnounceLeader(a) ==
    LET n == a.to
    IN /\ a \in announces /\ up[n]
       /\ Synchronous => NodesIdle
       /\ announces' = announces \ {a}
       /\ IF SetLeaderOK(st[n], a.leader, a.term)
          THEN /\ st' = [st EXCEPT ![n] = SetLeader(a.leader, a.term)]
               /\ internalC' = [internalC EXCEPT ![n] = signalCoordinator(@, a.term)]
          ELSE UNCHANGED <<st, internalC>>
       /\ UNCHANGED <<up, members, eventC, electC, starts, elections,
                      requests, reannounce, crashes>>

\* A call whose caller no longer waits may never have left it.
LoseRequest(r) ==
    /\ ~Synchronous /\ r \in requests /\ ~r.open
    /\ requests' = requests \ {r}
    /\ UNCHANGED <<up, st, members, eventC, electC, internalC, starts, elections,
                   announces, reannounce, crashes>>

\* The retries of an announcement end after ElectionTimeout, or with the process.
LoseAnnounce(a) ==
    /\ a \in announces
    /\ Synchronous => ~up[a.leader] \/ Lost(a.leader, a.to)
    /\ announces' = announces \ {a}
    /\ UNCHANGED <<up, st, members, eventC, electC, internalC, starts, elections,
                   requests, reannounce, crashes>>

-----------------------------------------------------------------------------
(* The remaining timer and the next-state relation.                         *)

\* The timer of waitForCoordinator.
WaitTimeout(n, e) ==
    /\ up[n] /\ e \in elections[n] /\ e.pc = "waiting"
    /\ CanSpawn(n)
    /\ Synchronous => Calm
    /\ Restart(n, e)
    /\ UNCHANGED <<up, members, eventC, electC, internalC, requests, announces,
                   reannounce, crashes>>

-----------------------------------------------------------------------------
EngineStep(n) ==
    /\ Turn(n)
    /\ \/ handleNodeJoined(n) \/ handleNodeLost(n) \/ handleElectRequest(n)
       \/ startElection(n)
       \/ \E e \in elections[n] :
             \/ EnterWaiting(n, e) \/ declareLeader(n, e)
             \/ WaitReceive(n, e) \/ SendTimeout(n, e) \/ WaitTimeout(n, e)

Delivery ==
    \/ \E r \in requests : OnStartElection(r) \/ LoseRequest(r)
    \/ \E a \in announces : OnAnnounceLeader(a) \/ LoseAnnounce(a)
    \/ \E r \in reannounce : Reannounce(r)

MembershipStep(n) == \E m \in Node : NotifyJoin(n, m) \/ NotifyLeave(n, m)

Next ==
    \/ \E n \in Node : Start(n) \/ Crash(n) \/ EngineStep(n) \/ MembershipStep(n)
    \/ Delivery

Spec == Init /\ [][Next]_vars

(* Goroutines are scheduled, timers fire, memberlist converges and the      *)
(* network delivers or gives up.  Nothing obliges a node to start or crash. *)
Fairness ==
    /\ \A n \in Node : WF_vars(EngineStep(n)) /\ WF_vars(MembershipStep(n))
    /\ WF_vars(Delivery)

FairSpec == Spec /\ Fairness

-----------------------------------------------------------------------------
(* Properties.                                                              *)

\* A node in phase electing or waiting has the goroutine that will end that
\* phase: BeginElection refuses while the phase lasts (state.go:67-70), so a
\* phase whose goroutine has returned would keep the node out of every election.
NoOrphanElection ==
    \A n \in Node : InElection(st[n]) =>
        \E e \in elections[n] :
            /\ e.term = st[n].term
            /\ e.pc = "waiting" <=> st[n].phase = PhaseWaitingCoordinator

\* A running node without a leader is in an election or has one coming: every
\* path that clears leaderID (UpdateTerm, ClearLeaderIfMatches, ResetElection)
\* is followed by a startElection or by a request in electC.
NeverStranded ==
    \A n \in Node : up[n] /\ st[n].leader = NoLeader =>
        InElection(st[n]) \/ starts[n] > 0 \/ electC[n]

Forward(s, s2) ==
    \/ s2.term > s.term
    \/ s2.term = s.term /\ (s2.leader = NoLeader \/ s2.leader >= s.leader)

\* While a process runs, its term never falls, and within a term its leader is
\* only replaced by a higher one or given up (state.go:99-105).
StateNeverRegresses ==
    [][\A n \in Node : up[n] /\ up'[n] => Forward(st[n], st'[n])]_vars

\* No goroutine of an earlier election can disturb a later one: two elections of
\* a node never share a term, none is ahead of the node's state, and nothing in
\* internalC can be taken for a signal of an election that has not begun.
ElectionsSeparated ==
    \A n \in Node :
        /\ \A e \in elections[n] : e.term <= st[n].term
        /\ \A e, f \in elections[n] : e.term = f.term => e = f
        /\ \A i \in DOMAIN internalC[n] : internalC[n][i].term <= st[n].term

\* No call, event or goroutine is left and every view is right.
Settled == Calm /\ \A n \in Node : up[n] => elections[n] = {}

Agreed == \E l \in Node : up[l] /\ \A n \in Node : up[n] => st[n].leader = l

\* When nothing is left to do, the running nodes agree on a running leader: elections
\* that cross, the stale term of a restarted node and late timers have all been made up
\* for by the restarts of waitForCoordinator and by the announcements (engine.go:373-433).
SettledAgree == Settled /\ (\E n \in Node : up[n]) => Agreed

\* The Bully election: when nothing is left to do, nobody follows a node below one
\* that runs.  A lower node that has won stands down once a higher one joins, and is
\* not won over again by an older announcement (engine.go:195-217, state.go:95-112).
SettledHighest ==
    Settled => \A n, m \in Node : up[n] /\ up[m] => st[n].leader >= m

\* The running nodes come to agree on a running leader and keep it: the elections
\* that timers and join events start do not outbid each other for ever
\* (engine.go:195-217, 422-426).
EventuallyAgreed == <>[]((\E n \in Node : up[n]) => Agreed)

\* At rest nobody follows a node that is down, however many crashed and came back:
\* its leave event was handled after the last of its announcements (engine.go:219-242).
SettledLeaderRuns ==
    Settled => \A n \in Node : up[n] => \E l \in Node : up[l] /\ st[n].leader = l

\* "one elected leader acting as scheduler" (README.md:14): at rest, no two running
\* nodes take themselves for the leader.
SettledOneLeader ==
    Settled => \A n, m \in Node :
        up[n] /\ IsLeader(st[n], n) /\ up[m] /\ IsLeader(st[m], m) => n = m
=============================================================================
