---------------------------- MODULE NodeProcess ----------------------------
(***************************************************************************)
(* The life of the node processes (cmd/node/main.go) around what they      *)
(* execute: started, told to stop by a signal, waiting in GracefulStop for *)
(* the RPC handlers at work, leaving the cluster, gone.  The handler that  *)
(* matters is AnnounceLeader, which sends to the election's internalC and  *)
(* waits while that is full (election/engine.go).  Executions are no       *)
(* handlers: nothing waits for them, and they end with the process.        *)
(***************************************************************************)
EXTENDS TaskExecutor

CONSTANTS
    InternalCap,   \* the capacity of internalC
    MaxHandlers    \* bound: AnnounceLeader handlers of one node at a time

ASSUME ProcessAssumption == InternalCap \in Nat \ {0} /\ MaxHandlers \in Nat

VARIABLES
    proc,       \* running, stopping (in GracefulStop), leaving (in Leave) or gone
    handlers,   \* AnnounceLeader handlers before their send
    signals     \* events in internalC

processVars == <<proc, handlers, signals>>

nodeVars == <<lifecycleVars, execVars, processVars>>

NodeTypeOK ==
    /\ phase \in [Task -> {"absent", "pending", "held", "completed", "failed"}]
    /\ ExecTypeOK
    /\ proc \in [Worker -> {"running", "stopping", "leaving", "gone"}]
    /\ handlers \in [Worker -> 0..MaxHandlers]
    /\ signals \in [Worker -> 0..InternalCap]
    /\ \A w \in Worker, t \in Task : proc[w] = "gone" => execs[w][t] = NoExec

NodeInit ==
    /\ Init /\ ExecInit
    /\ proc = [w \in Worker |-> "running"]
    /\ handlers = [w \in Worker |-> 0]
    /\ signals = [w \in Worker |-> 0]

-----------------------------------------------------------------------------
(* The election's handlers.                                                 *)

\* An announcement that SetLeader accepts, of which GracefulStop takes no more.
OnAnnounceLeader(w) ==
    /\ proc[w] = "running" /\ handlers[w] < MaxHandlers
    /\ handlers' = [handlers EXCEPT ![w] = @ + 1]
    /\ UNCHANGED <<proc, signals>>

\* Mutant: the send does not wait for room in internalC.
signalAtOnce(w) ==
    /\ proc[w] # "gone" /\ handlers[w] > 0
    /\ handlers' = [handlers EXCEPT ![w] = @ - 1]
    /\ signals' = [signals EXCEPT ![w] = @ + 1]
    /\ UNCHANGED proc

signalCoordinator(w) ==
    /\ proc[w] # "gone" /\ handlers[w] > 0 /\ signals[w] < InternalCap
    /\ handlers' = [handlers EXCEPT ![w] = @ - 1]
    /\ signals' = [signals EXCEPT ![w] = @ + 1]
    /\ UNCHANGED proc

\* Dropped when internalC is full.  The engine may handle one more event after the
\* signal to stop: select does not prefer ctx.Done.
signalRetry(w) ==
    /\ proc[w] # "gone" /\ signals[w] < InternalCap
    /\ signals' = [signals EXCEPT ![w] = @ + 1]
    /\ UNCHANGED <<proc, handlers>>

\* waitForCoordinator, the only reader: nothing makes a node wait again.
readSignal(w) ==
    /\ proc[w] # "gone" /\ signals[w] > 0
    /\ signals' = [signals EXCEPT ![w] = @ - 1]
    /\ UNCHANGED <<proc, handlers>>

-----------------------------------------------------------------------------
(* The process.                                                             *)

\* SIGINT or SIGTERM.
Signal(w) ==
    /\ proc[w] = "running"
    /\ proc' = [proc EXCEPT ![w] = "stopping"]
    /\ UNCHANGED <<handlers, signals>>

GracefulStop(w) ==
    /\ proc[w] = "stopping" /\ handlers[w] = 0
    /\ proc' = [proc EXCEPT ![w] = "leaving"]
    /\ UNCHANGED <<handlers, signals>>

\* The end of the process, and of its executions with it.
Exit(w) ==
    /\ proc' = [proc EXCEPT ![w] = "gone"]
    /\ handlers' = [handlers EXCEPT ![w] = 0]
    /\ signals' = [signals EXCEPT ![w] = 0]
    /\ execs' = [execs EXCEPT ![w] = [t \in Task |-> NoExec]]
    /\ UNCHANGED <<lifecycleVars, objects>>

\* main returns whether Leave reports an error or not.
Leave(w) == proc[w] = "leaving" /\ Exit(w)

Crash(w) == proc[w] # "gone" /\ Exit(w)

Start(w) ==
    /\ proc[w] = "gone"
    /\ proc' = [proc EXCEPT ![w] = "running"]
    /\ UNCHANGED <<handlers, signals>>

-----------------------------------------------------------------------------
ElectionHandlers(w) == OnAnnounceLeader(w) \/ signalCoordinator(w) \/ signalRetry(w) \/ readSignal(w)

\* AssignTask is an RPC too; an execution goes on while the process is there.
Executing(w, t) == (proc[w] = "running" /\ HandleAssignment(w, t)) \/ (proc[w] # "gone" /\ Execute(w, t))

StoreStep == (\E t \in Task : Submit(t)) \/ (\E S \in SUBSET Task : S # {} /\ Lose(S))

NodeNext ==
    \/ \E w \in Worker : (ElectionHandlers(w) \/ Signal(w) \/ GracefulStop(w) \/ Start(w))
                         /\ UNCHANGED <<lifecycleVars, execVars>>
    \/ \E w \in Worker : Leave(w) \/ Crash(w)
    \/ \E w \in Worker, t \in Task : Executing(w, t) /\ UNCHANGED processVars
    \/ StoreStep /\ UNCHANGED <<execVars, processVars>>

NodeSpec == NodeInit /\ [][NodeNext]_nodeVars
=============================================================================
