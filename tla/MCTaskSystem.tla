---------------------------- MODULE MCTaskSystem ----------------------------
(* Instances of TaskSystem for TLC: the cfg files give the constants. *)
EXTENDS TaskSystem

Once  == [t \in Task |-> 1]
Twice == [t \in Task |-> 2]

\* Bound: a fault or a handover, not both.
OneTrouble == budget.faults + budget.handovers <= 1

OneTroubleSpec == SystemInit /\ [][SystemNext /\ OneTrouble']_systemVars
=============================================================================
