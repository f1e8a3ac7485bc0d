---------------------------- MODULE TaskExecutor ----------------------------
(***************************************************************************)
(* How a worker executes a task (worker/task_executor.go) with the object  *)
(* storage (storage/client.go): one step per call that leaves the process. *)
(* The task's life in the store is that of TaskLifecycle; an execution     *)
(* goes on, and uploads, whether its worker still holds the task or not.   *)
(***************************************************************************)
EXTENDS TaskLifecycle, Sequences

CONSTANTS
    ExecutableURI, InputURI, OutputURI,   \* of each task; a URI is split at its slashes
    Stored                                \* the keys of the objects users have put into the bucket

NoURI == <<>>

ASSUME ExecutorAssumption ==
    \A t \in Task : ExecutableURI[t] \in Seq(STRING) /\ InputURI[t] \in Seq(STRING) /\ OutputURI[t] \in Seq(STRING)

VARIABLES
    objects,    \* the bucket: for each key the tasks the object is an output of, none for a user's
    execs       \* runTask of each worker for each task: where it is, and what the output path holds

execVars == <<objects, execs>>

-----------------------------------------------------------------------------
(* URIs.                                                                    *)

\* The bucket of the URI is dropped: the configured one is always used.
parseKey(uri) ==
    IF Len(uri) >= 4 /\ uri[1] = "s3:" /\ uri[2] = "" THEN SubSeq(uri, 4, Len(uri)) ELSE uri

\* filepath.Base: the last name of a path, whatever slashes follow it.
Base(uri) ==
    LET names == SelectSeq(uri, LAMBDA s : s # "")
    IN IF names = <<>> THEN "/" ELSE names[Len(names)]

HasOutput(t) == OutputURI[t] # NoURI

OutputName(t) == Base(OutputURI[t])

Key(t) == parseKey(OutputURI[t])

\* The tasks whose output is stored under the key of t's.
SharingKey(t) == {u \in Task : HasOutput(u) /\ Key(u) = Key(t)}

-----------------------------------------------------------------------------
(* Before MarkRunning; before each of the calls of Execute; before           *)
(* ReportResult with either outcome.                                         *)
ExecPC == {"none", "assigned", "script", "input", "run", "upload", "succeeded", "failed"}

(* out: the contents of the file at the output path, or nothing.             *)
NoExec == [pc |-> "none", out |-> {}]

ExecTypeOK ==
    /\ execs \in [Worker -> [Task -> [pc : ExecPC, out : SUBSET SUBSET Task]]]
    /\ \A w \in Worker, t \in Task : \A c, d \in execs[w][t].out : c = d
    /\ DOMAIN objects \subseteq Stored \cup {Key(t) : t \in Task}
    /\ \A k \in DOMAIN objects : objects[k] \subseteq Task

ExecInit ==
    /\ objects = [k \in Stored |-> {}]
    /\ execs = [w \in Worker |-> [t \in Task |-> NoExec]]

At(w, t, pc) == execs[w][t].pc = pc

Becomes(w, t, e) == execs' = [execs EXCEPT ![w][t] = e]

GoTo(w, t, pc) == Becomes(w, t, [execs[w][t] EXCEPT !.pc = pc])

-----------------------------------------------------------------------------
\* The dispatch of a task that has been assigned to w reaches it.  Bound: w has no
\* other execution of the task.
HandleAssignment(w, t) ==
    /\ At(w, t, "none")
    /\ Take(t, w) /\ GoTo(w, t, "assigned")
    /\ UNCHANGED objects

\* MarkRunning is refused or lost, and runTask returns; or Execute makes its
\* directory and looks at the output name.
startTask(w, t) ==
    /\ At(w, t, "assigned")
    /\ \/ Becomes(w, t, NoExec)
       \/ phase[t] = "held" /\ holder[t] = w
          /\ \/ GoTo(w, t, "failed")
             \/ (HasOutput(t) => OutputName(t) \notin {".", "/"}) /\ GoTo(w, t, "script")
    /\ UNCHANGED <<lifecycleVars, objects>>

(* Download: the object becomes the file `name`, which may be the output    *)
(* path, and Execute goes on at pc; or one of its calls fails.              *)
Download(w, t, uri, name, pc) ==
    \/ GoTo(w, t, "failed")
    \/ /\ parseKey(uri) \in DOMAIN objects
       /\ Becomes(w, t, [pc |-> pc, out |-> IF HasOutput(t) /\ OutputName(t) = name
                                            THEN {objects[parseKey(uri)]} ELSE execs[w][t].out])

downloadScript(w, t) ==
    /\ At(w, t, "script")
    /\ Download(w, t, ExecutableURI[t], "task.py", IF InputURI[t] # NoURI THEN "input" ELSE "run")
    /\ UNCHANGED <<lifecycleVars, objects>>

downloadInput(w, t) ==
    /\ At(w, t, "input")
    /\ Download(w, t, InputURI[t], "input", "run")
    /\ UNCHANGED <<lifecycleVars, objects>>

\* Mutant: without an output file there is nothing to upload.
uploadIfThere(t, out) == IF HasOutput(t) /\ out # {} THEN "upload" ELSE "succeeded"

\* After the script: os.Stat looks for the output of a task that has one.
afterRun(t, out) ==
    IF ~HasOutput(t) THEN "succeeded" ELSE IF out = {} THEN "failed" ELSE "upload"

\* The script fails; or it ends, with or without having written its output.
run(w, t) ==
    /\ At(w, t, "run")
    /\ \/ GoTo(w, t, "failed")
       \/ \E out \in {execs[w][t].out, {{t}}} : Becomes(w, t, [pc |-> afterRun(t, out), out |-> out])
    /\ UNCHANGED <<lifecycleVars, objects>>

\* The bucket with the file at the output path as the object of t's output URI.
Put(w, t) ==
    [k \in DOMAIN objects \cup {Key(t)} |-> IF k = Key(t) THEN UNION execs[w][t].out ELSE objects[k]]

\* Upload: an error is returned whether the object has been stored or not.
upload(w, t) ==
    /\ At(w, t, "upload")
    /\ \/ objects' = Put(w, t) /\ GoTo(w, t, "succeeded")
       \/ objects' \in {objects, Put(w, t)} /\ GoTo(w, t, "failed")
    /\ UNCHANGED lifecycleVars

\* ReportResult, which is refused if w does not hold the task, and may be lost.
\* Execute has removed its directory.
report(w, t) ==
    /\ \/ At(w, t, "succeeded") /\ (Complete(t, w) \/ UNCHANGED lifecycleVars)
       \/ At(w, t, "failed") /\ (Fail(t, w) \/ UNCHANGED lifecycleVars)
    /\ Becomes(w, t, NoExec)
    /\ UNCHANGED objects

Execute(w, t) ==
    \/ startTask(w, t) \/ downloadScript(w, t) \/ downloadInput(w, t) \/ run(w, t) \/ upload(w, t) \/ report(w, t)

-----------------------------------------------------------------------------
(* Properties.                                                              *)

\* A completed task that has an output URI has an object under its key, and it is
\* what a script wrote for this URI: Execute returns nil only after os.Stat and
\* Upload (task_executor.go:87-95), and an execution that has been given up but
\* still uploads replaces it by another output only.  Tasks whose URIs differ in the
\* bucket alone share the key (client.go:105-113); an output named like one of the
\* two downloaded files is left out: it is there before the script runs.
CompletedHasOutput ==
    \A t \in Task :
        phase[t] = "completed" /\ HasOutput(t) /\ (\A u \in SharingKey(t) : OutputName(u) \notin {"task.py", "input"}) =>
            Key(t) \in DOMAIN objects /\ \E u \in SharingKey(t) : objects[Key(t)] = {u}
=============================================================================
