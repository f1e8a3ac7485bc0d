--------------------------- MODULE ElectionState ---------------------------
(***************************************************************************)
(* The election state of one node (election/state.go).  Every method of    *)
(* State runs under the mutex s.mu, so each is an operator from the value  *)
(* of the struct before the call to its value after it.  A method that     *)
(* returns a boolean has a companion <Method>OK for that boolean.          *)
(***************************************************************************)
EXTENDS Naturals

NoLeader == 0                     \* leaderID 0: NODE_ID 0 is refused at startup

PhaseIdle               == "idle"
PhaseElecting           == "electing"
PhaseWaitingCoordinator == "waiting"
PhaseLeader             == "leader"

Phases == {PhaseIdle, PhaseElecting, PhaseWaitingCoordinator, PhaseLeader}

NewState == [leader |-> NoLeader, term |-> 0, phase |-> PhaseIdle]

IsLeader(s, selfID) == s.leader = selfID

InElection(s) == s.phase \in {PhaseElecting, PhaseWaitingCoordinator}

UpdateTerm(s, term) ==
    IF term > s.term
    THEN [leader |-> NoLeader, term |-> term, phase |-> PhaseIdle]
    ELSE s

BeginElectionOK(s) == ~InElection(s)

BeginElection(s) ==
    [leader |-> NoLeader, term |-> s.term + 1, phase |-> PhaseElecting]

EnterWaitingCoordinatorOK(s, term) == s.term = term /\ s.phase = PhaseElecting

EnterWaitingCoordinator(s) == [s EXCEPT !.phase = PhaseWaitingCoordinator]

\* Mutants of SetLeaderOK: the stale-term test, or the tie-break, left out.
SetLeaderIgnoringTerm(s, leaderID, term) ==
    ~(term = s.term /\ s.leader # NoLeader /\ leaderID < s.leader)

SetLeaderNoTieBreak(s, leaderID, term) == ~(term < s.term)

SetLeaderOK(s, leaderID, term) ==
    /\ ~(term < s.term)
    /\ ~(term = s.term /\ s.leader # NoLeader /\ leaderID < s.leader)

SetLeader(leaderID, term) ==
    [leader |-> leaderID, term |-> term, phase |-> PhaseLeader]

ClearLeaderIfMatches(s, leaderID) ==
    IF s.leader = leaderID
    THEN [s EXCEPT !.leader = NoLeader,
                   !.phase  = IF s.phase = PhaseLeader THEN PhaseIdle ELSE s.phase]
    ELSE s

ResetElection(s, term) ==
    IF s.term = term /\ InElection(s)
    THEN [s EXCEPT !.phase = PhaseIdle]
    ELSE s
=============================================================================
