-------------------------- MODULE NodeProcessProofs --------------------------
(***************************************************************************)
(* Proofs about module NodeProcess, for any tasks, workers and URIs.       *)
(***************************************************************************)
EXTENDS NodeProcess, TLAPS

ProcTypeOK ==
    /\ proc \in [Worker -> {"running", "stopping", "leaving", "gone"}]
    /\ handlers \in [Worker -> 0..MaxHandlers]
    /\ signals \in [Worker -> 0..InternalCap]

PhaseTypeOK == phase \in [Task -> {"absent", "pending", "held", "completed", "failed"}]

ExecsTypeOK == execs \in [Worker -> [Task -> [pc : ExecPC, out : SUBSET SUBSET Task]]]

OneFile == \A w \in Worker, t \in Task : \A c, d \in execs[w][t].out : c = d

ObjectsTypeOK ==
    /\ DOMAIN objects \subseteq Stored \cup {Key(t) : t \in Task}
    /\ \A k \in DOMAIN objects : objects[k] \subseteq Task

EndsWithProcess == \A w \in Worker, t \in Task : proc[w] = "gone" => execs[w][t] = NoExec

LEMMA TypeParts == NodeTypeOK <=> PhaseTypeOK /\ ProcTypeOK /\ ExecsTypeOK /\ OneFile /\ ObjectsTypeOK /\ EndsWithProcess
  BY Zenon DEF NodeTypeOK, PhaseTypeOK, ExecTypeOK, ProcTypeOK, ExecsTypeOK, OneFile, ObjectsTypeOK, EndsWithProcess

LEMMA TypePartsNext == NodeTypeOK' <=> (PhaseTypeOK /\ ProcTypeOK /\ ExecsTypeOK /\ OneFile /\ ObjectsTypeOK /\ EndsWithProcess)'
  BY Zenon DEF NodeTypeOK, PhaseTypeOK, ExecTypeOK, ProcTypeOK, ExecsTypeOK, OneFile, ObjectsTypeOK, EndsWithProcess

\* One cell of execs changes, to a state of the right type.
LEMMA Cell ==
  ASSUME NodeTypeOK, NEW w \in Worker, NEW t \in Task, NEW e \in [pc : ExecPC, out : SUBSET SUBSET Task],
         Becomes(w, t, e), proc[w] # "gone", proc' = proc, \A c, d \in e.out : c = d
  PROVE  ExecsTypeOK' /\ OneFile' /\ EndsWithProcess'
  <1>1. ExecsTypeOK'
    BY TypeParts DEF Becomes, ExecsTypeOK
  <1>2. \A v \in Worker, u \in Task : execs'[v][u] = IF v = w /\ u = t THEN e ELSE execs[v][u]
    BY TypeParts DEF Becomes, ExecsTypeOK
  <1>3. OneFile'
    BY <1>2, TypeParts DEF OneFile
  <1>4. EndsWithProcess'
    BY <1>2, TypeParts DEF EndsWithProcess
  <1> QED BY <1>1, <1>3, <1>4

\* The same for a step that moves the execution and keeps its file.
LEMMA Moved ==
  ASSUME NodeTypeOK, NEW w \in Worker, NEW t \in Task, NEW pc \in ExecPC,
         GoTo(w, t, pc), proc[w] # "gone", proc' = proc
  PROVE  ExecsTypeOK' /\ OneFile' /\ EndsWithProcess'
  <1> DEFINE e == [execs[w][t] EXCEPT !.pc = pc]
  <1>1. e \in [pc : ExecPC, out : SUBSET SUBSET Task] /\ e.out = execs[w][t].out
    BY TypeParts DEF ExecsTypeOK
  <1>2. \A c, d \in e.out : c = d
    BY <1>1, TypeParts DEF OneFile
  <1>3. Becomes(w, t, e)
    BY DEF GoTo
  <1> HIDE DEF e
  <1> QED BY <1>1, <1>2, <1>3, Cell

LEMMA NoExecTyped == NoExec \in [pc : ExecPC, out : SUBSET SUBSET Task] /\ NoExec.out = {}
  BY DEF NoExec, ExecPC

\* Upload stores a set of tasks under a key of a task.
LEMMA PutTyped ==
  ASSUME NodeTypeOK, NEW w \in Worker, NEW t \in Task, objects' \in {objects, Put(w, t)}
  PROVE  ObjectsTypeOK'
  <1>1. ObjectsTypeOK /\ UNION execs[w][t].out \subseteq Task
    BY TypeParts DEF ExecsTypeOK
  <1>2. CASE objects' = objects
    BY <1>1, <1>2 DEF ObjectsTypeOK
  <1>3. CASE objects' = Put(w, t)
    BY <1>1, <1>3 DEF ObjectsTypeOK, Put
  <1> QED BY <1>2, <1>3

\* What the store does keeps the type of the phases.
LEMMA PhasesTyped ==
  ASSUME PhaseTypeOK,
         \/ \E t \in Task : Submit(t)
         \/ \E t \in Task, w \in Worker : Take(t, w) \/ Complete(t, w) \/ Fail(t, w)
         \/ \E S \in SUBSET Task : Lose(S)
         \/ UNCHANGED lifecycleVars
  PROVE  PhaseTypeOK'
  BY DEF PhaseTypeOK, Submit, Take, Complete, Fail, Lose, lifecycleVars

\* Every step of an execution keeps the types.
LEMMA ExecutionTyped ==
  ASSUME NodeTypeOK, NEW w \in Worker, NEW t \in Task, Executing(w, t), UNCHANGED processVars
  PROVE  NodeTypeOK'
  <1> DEFINE Good == ExecsTypeOK' /\ OneFile' /\ EndsWithProcess'
  <1>0. ProcTypeOK' /\ proc' = proc /\ (objects' = objects => ObjectsTypeOK')
    BY TypeParts DEF ProcTypeOK, ObjectsTypeOK, processVars
  <1>p. PhaseTypeOK'
    BY TypeParts, PhasesTyped
       DEF Executing, Execute, HandleAssignment, startTask, downloadScript, downloadInput, run, upload, report
  <1>1. SUFFICES Good /\ ObjectsTypeOK'
    BY <1>0, <1>p, TypePartsNext
  <1>2. proc[w] # "gone"
    BY DEF Executing
  <1>m. ASSUME NEW pc \in ExecPC, GoTo(w, t, pc) PROVE Good
    BY <1>0, <1>2, <1>m, Moved
  <1>n. ASSUME Becomes(w, t, NoExec) PROVE Good
    BY <1>0, <1>2, <1>n, NoExecTyped, Cell
  <1>d. ASSUME NEW uri, NEW name, NEW pc \in ExecPC, Download(w, t, uri, name, pc) PROVE Good
    <2> DEFINE out == IF HasOutput(t) /\ OutputName(t) = name THEN {objects[parseKey(uri)]} ELSE execs[w][t].out
    <2>1. CASE GoTo(w, t, "failed")
      BY <2>1, <1>m DEF ExecPC
    <2>2. CASE parseKey(uri) \in DOMAIN objects /\ Becomes(w, t, [pc |-> pc, out |-> out])
      <3>1. out \in SUBSET SUBSET Task /\ \A c, d \in out : c = d
        BY <2>2, TypeParts DEF ExecsTypeOK, OneFile, ObjectsTypeOK
      <3> HIDE DEF out
      <3> QED BY <2>2, <3>1, <1>0, <1>2, Cell
    <2> QED BY <1>d, <2>1, <2>2 DEF Download
  <1>3. CASE HandleAssignment(w, t)
    BY <1>3, <1>m, <1>0 DEF HandleAssignment, ExecPC
  <1>4. CASE startTask(w, t)
    BY <1>4, <1>m, <1>n, <1>0 DEF startTask, ExecPC
  <1>5. CASE downloadScript(w, t)
    BY <1>5, <1>d, <1>0 DEF downloadScript, ExecPC
  <1>6. CASE downloadInput(w, t)
    BY <1>6, <1>d, <1>0 DEF downloadInput, ExecPC
  <1>7. CASE run(w, t)
    <2>1. CASE GoTo(w, t, "failed")
      BY <2>1, <1>7, <1>m, <1>0 DEF run, ExecPC
    <2>2. ASSUME NEW out \in {execs[w][t].out, {{t}}}, Becomes(w, t, [pc |-> afterRun(t, out), out |-> out])
          PROVE  Good
      <3>1. out \in SUBSET SUBSET Task /\ \A c, d \in out : c = d
        <4>1. CASE out = execs[w][t].out
          BY <4>1, TypeParts DEF ExecsTypeOK, OneFile
        <4>2. CASE out = {{t}}
          BY <4>2
        <4> QED BY <4>1, <4>2
      <3>2. afterRun(t, out) \in ExecPC
        BY DEF afterRun, ExecPC
      <3> QED BY <2>2, <3>1, <3>2, <1>0, <1>2, Cell
    <2> QED BY <1>7, <2>1, <2>2, <1>0 DEF run
  <1>8. CASE upload(w, t)
    BY <1>8, <1>m, PutTyped DEF upload, ExecPC
  <1>9. CASE report(w, t)
    BY <1>9, <1>n, <1>0 DEF report
  <1> QED BY <1>3, <1>4, <1>5, <1>6, <1>7, <1>8, <1>9 DEF Executing, Execute

\* Type correctness: the capacity of internalC is kept, and no execution outlives
\* its process.
THEOREM NodeTyped == NodeSpec => []NodeTypeOK
  <1>1. NodeInit => NodeTypeOK
    <2> SUFFICES ASSUME NodeInit PROVE NodeTypeOK
      OBVIOUS
    <2>1. ProcTypeOK /\ PhaseTypeOK
      BY ProcessAssumption DEF NodeInit, Init, ProcTypeOK, PhaseTypeOK
    <2>2. ExecsTypeOK /\ OneFile /\ EndsWithProcess
      BY NoExecTyped DEF NodeInit, ExecInit, ExecsTypeOK, OneFile, EndsWithProcess
    <2>3. ObjectsTypeOK
      BY DEF NodeInit, ExecInit, ObjectsTypeOK
    <2> QED BY <2>1, <2>2, <2>3, TypeParts
  <1>2. ASSUME NodeTypeOK, [NodeNext]_nodeVars PROVE NodeTypeOK'
    <2>e. ASSUME UNCHANGED execVars PROVE ExecsTypeOK' /\ OneFile' /\ ObjectsTypeOK'
      BY <1>2, <2>e, TypeParts DEF execVars, ExecsTypeOK, OneFile, ObjectsTypeOK
    <2>p. ASSUME UNCHANGED lifecycleVars \/ StoreStep PROVE PhaseTypeOK'
      BY <1>2, <2>p, TypeParts, PhasesTyped DEF StoreStep
    <2>1. ASSUME NEW w \in Worker, ElectionHandlers(w) \/ Signal(w) \/ GracefulStop(w) \/ Start(w),
                 UNCHANGED <<lifecycleVars, execVars>>
          PROVE  NodeTypeOK'
      <3>1. ProcTypeOK'
        BY <1>2, <2>1, TypeParts, ProcessAssumption
           DEF ProcTypeOK, ElectionHandlers, OnAnnounceLeader, signalCoordinator, signalRetry, readSignal,
               Signal, GracefulStop, Start
      <3>2. EndsWithProcess'
        BY <1>2, <2>1, TypeParts
           DEF EndsWithProcess, ProcTypeOK, ElectionHandlers, OnAnnounceLeader, signalCoordinator, signalRetry,
               readSignal, Signal, GracefulStop, Start, execVars
      <3> QED BY <3>1, <3>2, <2>e, <2>p, <2>1, TypePartsNext
    <2>2. ASSUME NEW w \in Worker, Exit(w) PROVE NodeTypeOK'
      <3>1. ProcTypeOK'
        BY <1>2, <2>2, TypeParts, ProcessAssumption DEF ProcTypeOK, Exit
      <3>2. ExecsTypeOK'
        BY <1>2, <2>2, TypeParts, NoExecTyped DEF ExecsTypeOK, Exit
      <3>3. \A v \in Worker, t \in Task : execs'[v][t] = IF v = w THEN NoExec ELSE execs[v][t]
        BY <1>2, <2>2, TypeParts DEF ExecsTypeOK, Exit
      <3>4. OneFile' /\ EndsWithProcess'
        BY <3>3, <1>2, <2>2, TypeParts, NoExecTyped DEF OneFile, EndsWithProcess, Exit, ProcTypeOK
      <3>5. ObjectsTypeOK'
        BY <1>2, <2>2, TypeParts DEF ObjectsTypeOK, Exit
      <3> QED BY <3>1, <3>2, <3>4, <3>5, <2>p, <2>2, TypePartsNext DEF Exit
    <2>3. CASE (UNCHANGED lifecycleVars \/ StoreStep) /\ UNCHANGED <<execVars, processVars>>
      <3>1. ProcTypeOK' /\ EndsWithProcess'
        BY <1>2, <2>3, TypeParts DEF ProcTypeOK, EndsWithProcess, execVars, processVars
      <3> QED BY <3>1, <2>3, <2>e, <2>p, TypePartsNext
    <2> QED
      BY <1>2, <2>1, <2>2, <2>3, ExecutionTyped DEF NodeNext, nodeVars, Leave, Crash
  <1> QED BY <1>1, <1>2, PTL DEF NodeSpec

-----------------------------------------------------------------------------
(* The outputs.                                                             *)

\* No task that shares the key of t has an output named like a downloaded file.
Clean(t) == HasOutput(t) /\ \A u \in SharingKey(t) : OutputName(u) \notin {"task.py", "input"}

\* The object of t's output URI is an output.
Produced(t) == Key(t) \in DOMAIN objects /\ \E u \in SharingKey(t) : objects[Key(t)] = {u}

(* Of a task whose output has a name of its own: until the script has run    *)
(* there is no output file, what is uploaded is an output of the task, and   *)
(* before a success is reported the object is there.                         *)
ExecOutput(t, e) ==
    /\ e.pc \in {"none", "assigned", "script", "input", "run"} => e.out = {}
    /\ e.pc = "upload" => e.out = {{t}}
    /\ e.pc = "succeeded" => Produced(t)

OutputInv ==
    /\ \A w \in Worker, t \in Task : execs[w][t].pc = "upload" => HasOutput(t)
    /\ \A w \in Worker, t \in Task : Clean(t) => ExecOutput(t, execs[w][t])
    /\ \A t \in Task : Clean(t) /\ phase[t] = "completed" => Produced(t)

\* Nothing but an upload touches the bucket, and what it stores under the key of a
\* clean task is an output: once produced, always produced.
LEMMA StaysProduced ==
  ASSUME NodeTypeOK, OutputInv, NEW w \in Worker, NEW t \in Task, Execute(w, t),
         NEW u \in Task, Clean(u), Produced(u)
  PROVE  Produced(u)'
  <1>1. CASE objects' = objects
    BY <1>1 DEF Produced
  <1>2. CASE upload(w, t) /\ objects' = Put(w, t)
    <2>1. CASE Key(t) = Key(u) /\ HasOutput(t)
      <3>1. SharingKey(t) = SharingKey(u) /\ t \in SharingKey(u) /\ Clean(t)
        BY <2>1 DEF SharingKey, Clean
      <3>2. execs[w][t].out = {{t}}
        BY <1>2, <3>1 DEF OutputInv, ExecOutput, upload, At
      <3>3. objects' = [k \in DOMAIN objects \cup {Key(t)} |-> IF k = Key(t) THEN {t} ELSE objects[k]]
        BY <1>2, <3>2 DEF Put
      <3> QED BY <2>1, <3>1, <3>3 DEF Produced
    <2>2. CASE Key(t) # Key(u)
      BY <1>2, <2>2 DEF Put, Produced
    <2> QED BY <1>2, <2>1, <2>2 DEF OutputInv, upload, At
  <1> QED
    BY <1>1, <1>2 DEF Execute, startTask, downloadScript, downloadInput, run, upload, report

\* A step of an execution changes no other one.
LEMMA OthersStay ==
  ASSUME NodeTypeOK, NEW w \in Worker, NEW t \in Task, Executing(w, t),
         NEW v \in Worker, NEW u \in Task, v # w \/ u # t
  PROVE  execs'[v][u] = execs[v][u]
  <1>1. \E e : Becomes(w, t, e)
    BY DEF Executing, Execute, HandleAssignment, startTask, downloadScript, downloadInput, Download, run, upload,
           report, GoTo
  <1> QED BY <1>1, TypeParts DEF Becomes, ExecsTypeOK

\* A task becomes completed only when its execution reports a success.
LEMMA CompletedByReport ==
  ASSUME NodeTypeOK, NEW w \in Worker, NEW t \in Task, Executing(w, t),
         NEW u \in Task, phase'[u] = "completed"
  PROVE  phase[u] = "completed" \/ (u = t /\ execs[w][t].pc = "succeeded" /\ Execute(w, t))
  <1>1. PhaseTypeOK
    BY TypeParts
  <1>2. CASE HandleAssignment(w, t)
    BY <1>1, <1>2 DEF HandleAssignment, Take, PhaseTypeOK
  <1>3. CASE Execute(w, t) /\ UNCHANGED lifecycleVars
    BY <1>3 DEF lifecycleVars
  <1>4. CASE report(w, t) /\ At(w, t, "succeeded") /\ Complete(t, w)
    BY <1>1, <1>4 DEF Complete, PhaseTypeOK, At, Execute
  <1>5. CASE report(w, t) /\ At(w, t, "failed") /\ Fail(t, w)
    BY <1>1, <1>5 DEF Fail, PhaseTypeOK
  <1> QED
    BY <1>2, <1>3, <1>4, <1>5
       DEF Executing, Execute, startTask, downloadScript, downloadInput, run, upload, report

\* The execution that takes the step still keeps its output in order.
LEMMA OwnOutput ==
  ASSUME NodeTypeOK, OutputInv, NEW w \in Worker, NEW t \in Task, Executing(w, t)
  PROVE  /\ execs'[w][t].pc = "upload" => HasOutput(t)
         /\ Clean(t) => ExecOutput(t, execs[w][t])'
  <1> DEFINE Goal == /\ execs'[w][t].pc = "upload" => HasOutput(t)
                     /\ Clean(t) => ExecOutput(t, execs[w][t])'
  <1>0. /\ execs[w][t] \in [pc : ExecPC, out : SUBSET SUBSET Task]
        /\ Clean(t) => ExecOutput(t, execs[w][t])
        /\ Clean(t) => HasOutput(t) /\ OutputName(t) \notin {"task.py", "input"}
    BY TypeParts DEF ExecsTypeOK, OutputInv, Clean, SharingKey
  <1>b. ASSUME NEW e, Becomes(w, t, e) PROVE execs'[w][t] = e
    BY <1>b, TypeParts DEF Becomes, ExecsTypeOK
  <1>f. ASSUME GoTo(w, t, "failed") PROVE Goal
    BY <1>f, <1>b, <1>0 DEF GoTo, ExecOutput
  <1>n. ASSUME Becomes(w, t, NoExec) PROVE Goal
    BY <1>n, <1>b DEF NoExec, ExecOutput
  <1>d. ASSUME NEW uri, NEW name \in {"task.py", "input"}, NEW pc \in {"input", "run"},
               execs[w][t].pc \in {"script", "input"}, Download(w, t, uri, name, pc)
        PROVE  Goal
    <2>1. CASE ~GoTo(w, t, "failed")
      <3> DEFINE out == IF HasOutput(t) /\ OutputName(t) = name THEN {objects[parseKey(uri)]} ELSE execs[w][t].out
      <3>1. execs'[w][t] = [pc |-> pc, out |-> out]
        BY <1>b, <1>d, <2>1 DEF Download
      <3>2. Clean(t) => out = {}
        BY <1>0, <1>d DEF ExecOutput
      <3> HIDE DEF out
      <3> QED BY <3>1, <3>2 DEF ExecOutput
    <2> QED BY <2>1, <1>f
  <1>1. CASE HandleAssignment(w, t)
    BY <1>1, <1>b, <1>0 DEF HandleAssignment, GoTo, At, ExecOutput
  <1>2. CASE startTask(w, t)
    <2>1. CASE GoTo(w, t, "script")
      BY <1>2, <2>1, <1>b, <1>0 DEF startTask, GoTo, At, ExecOutput
    <2> QED BY <1>2, <2>1, <1>f, <1>n DEF startTask
  <1>3. CASE downloadScript(w, t)
    BY <1>3, <1>d DEF downloadScript, At
  <1>4. CASE downloadInput(w, t)
    BY <1>4, <1>d DEF downloadInput, At
  <1>5. CASE run(w, t)
    <2>1. ASSUME NEW out \in {execs[w][t].out, {{t}}}, Becomes(w, t, [pc |-> afterRun(t, out), out |-> out])
          PROVE  Goal
      <3>1. execs'[w][t] = [pc |-> afterRun(t, out), out |-> out]
        BY <2>1, <1>b
      <3>2. Clean(t) => out \in {{}, {{t}}}
        BY <1>5, <1>0 DEF run, At, ExecOutput
      <3>3. /\ afterRun(t, out) \in {"succeeded", "failed", "upload"}
            /\ afterRun(t, out) = "succeeded" => ~HasOutput(t)
            /\ afterRun(t, out) = "upload" => HasOutput(t) /\ out # {}
        BY DEF afterRun
      <3> QED BY <3>1, <3>2, <3>3, <1>0 DEF ExecOutput
    <2> QED BY <1>5, <2>1, <1>f DEF run
  <1>6. CASE upload(w, t)
    <2>1. CASE objects' = Put(w, t) /\ GoTo(w, t, "succeeded")
      <3>1. execs'[w][t].pc = "succeeded"
        BY <2>1, <1>b, <1>0 DEF GoTo
      <3>2. ASSUME Clean(t) PROVE Produced(t)'
        <4>1. execs[w][t].out = {{t}} /\ t \in SharingKey(t)
          BY <3>2, <1>0, <1>6 DEF upload, At, ExecOutput, SharingKey
        <4>2. objects' = [k \in DOMAIN objects \cup {Key(t)} |-> IF k = Key(t) THEN {t} ELSE objects[k]]
          BY <2>1, <4>1 DEF Put
        <4> QED BY <4>1, <4>2 DEF Produced
      <3> QED BY <3>1, <3>2 DEF ExecOutput
    <2> QED BY <1>6, <2>1, <1>f DEF upload
  <1>7. CASE report(w, t)
    BY <1>7, <1>n DEF report
  <1> QED BY <1>1, <1>2, <1>3, <1>4, <1>5, <1>6, <1>7 DEF Executing, Execute

\* A completed task has its output in the bucket, however often its executions are
\* given up, repeated, cut off by the end of a process or late.
THEOREM CompletedOutputs == NodeSpec => []CompletedHasOutput
  <1>1. NodeInit => OutputInv
    <2> SUFFICES ASSUME NodeInit PROVE OutputInv
      OBVIOUS
    <2>1. \A t \in Task : phase[t] = "absent" /\ \A w \in Worker : execs[w][t] = NoExec
      BY DEF NodeInit, Init, ExecInit
    <2> QED BY <2>1 DEF OutputInv, ExecOutput, NoExec
  <1>2. ASSUME NodeTypeOK, OutputInv, [NodeNext]_nodeVars PROVE OutputInv'
    <2>1. ASSUME NEW w \in Worker, NEW t \in Task, Executing(w, t), UNCHANGED processVars PROVE OutputInv'
      <3>1. ASSUME NEW u \in Task, Clean(u), Produced(u) PROVE Produced(u)'
        <4>1. CASE HandleAssignment(w, t)
          BY <3>1, <4>1 DEF HandleAssignment, Produced
        <4> QED BY <1>2, <2>1, <3>1, <4>1, StaysProduced DEF Executing
      <3>2. \A v \in Worker, u \in Task : execs'[v][u].pc = "upload" => HasOutput(u)
        BY <1>2, <2>1, OwnOutput, OthersStay DEF OutputInv
      <3>3. ASSUME NEW v \in Worker, NEW u \in Task, Clean(u) PROVE ExecOutput(u, execs[v][u])'
        <4>1. CASE v = w /\ u = t
          BY <1>2, <2>1, <3>3, <4>1, OwnOutput
        <4>2. CASE v # w \/ u # t
          <5>1. execs'[v][u] = execs[v][u]
            BY <1>2, <2>1, <4>2, OthersStay
          <5> QED BY <1>2, <3>1, <3>3, <5>1 DEF OutputInv, ExecOutput
        <4> QED BY <4>1, <4>2
      <3>4. ASSUME NEW u \in Task, Clean(u), phase'[u] = "completed" PROVE Produced(u)'
        <4>1. Produced(u)
          BY <1>2, <2>1, <3>4, CompletedByReport DEF OutputInv, ExecOutput
        <4> QED BY <3>1, <3>4, <4>1
      <3> QED BY <3>2, <3>3, <3>4 DEF OutputInv, Clean, HasOutput, SharingKey, OutputName, Key
    <2>2. ASSUME NEW w \in Worker, Exit(w) PROVE OutputInv'
      <3>1. \A v \in Worker, t \in Task : execs'[v][t] = IF v = w THEN NoExec ELSE execs[v][t]
        BY <1>2, <2>2, TypeParts DEF ExecsTypeOK, Exit
      <3>2. objects' = objects /\ phase' = phase
        BY <2>2 DEF Exit, lifecycleVars
      <3>3. \A t \in Task : Produced(t)' = Produced(t) /\ Clean(t)' = Clean(t) /\ HasOutput(t)' = HasOutput(t)
        BY <3>2 DEF Produced, Clean, HasOutput, SharingKey, OutputName, Key
      <3>4. \A v \in Worker, t \in Task : v # w /\ ExecOutput(t, execs[v][t]) => ExecOutput(t, execs[v][t])'
        BY <3>1, <3>3 DEF ExecOutput
      <3>5. \A t \in Task : ExecOutput(t, execs[w][t])'
        BY <3>1 DEF ExecOutput, NoExec
      <3>6. \A v \in Worker, t \in Task : execs'[v][t].pc = "upload" => HasOutput(t)'
        BY <1>2, <3>1, <3>3 DEF OutputInv, NoExec
      <3>7. \A v \in Worker, t \in Task : Clean(t)' => ExecOutput(t, execs[v][t])'
        BY <1>2, <3>3, <3>4, <3>5 DEF OutputInv
      <3>8. \A t \in Task : Clean(t)' /\ phase'[t] = "completed" => Produced(t)'
        BY <1>2, <3>2, <3>3 DEF OutputInv
      <3> QED BY <3>6, <3>7, <3>8 DEF OutputInv
    <2>3. ASSUME UNCHANGED execVars, \A t \in Task : phase'[t] = "completed" => phase[t] = "completed"
          PROVE  OutputInv'
      BY <1>2, <2>3 DEF execVars, OutputInv, ExecOutput, Produced, Clean, HasOutput, SharingKey, OutputName, Key
    <2>4. CASE StoreStep /\ UNCHANGED <<execVars, processVars>>
      <3>1. \A t \in Task : phase'[t] = "completed" => phase[t] = "completed"
        BY <1>2, <2>4, TypeParts DEF StoreStep, Submit, Lose, PhaseTypeOK
      <3> QED BY <2>3, <2>4, <3>1 DEF execVars
    <2>5. CASE UNCHANGED <<lifecycleVars, execVars>>
      BY <2>3, <2>5 DEF lifecycleVars, execVars
    <2> QED
      BY <1>2, <2>1, <2>2, <2>4, <2>5 DEF NodeNext, nodeVars, Leave, Crash
  <1>3. OutputInv => CompletedHasOutput
    BY DEF OutputInv, CompletedHasOutput, Clean, Produced
  <1> QED BY <1>1, <1>2, <1>3, NodeTyped, PTL DEF NodeSpec
=============================================================================
