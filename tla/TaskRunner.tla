----------------------------- MODULE TaskRunner -----------------------------
(***************************************************************************)
(* The task runner (taskrunner/cmd/run.go, core/ and tasks/): what the     *)
(* pods of a handler job do.  A pod reads the experiment once, makes all   *)
(* the tasks of its action and runs them one after the other.  The         *)
(* collect task adds its results to those it has read and writes them to   *)
(* the status.  Meanwhile others write the experiment, or delete it.       *)
(*                                                                         *)
(* A write is refused unless the writer's copy is the stored version, and  *)
(* may fail for any other reason, before or after it has taken effect.  A  *)
(* copy with which a write can succeed has the stored results and those    *)
(* this attempt has measured, so copies are modelled without results.      *)
(*                                                                         *)
(* Of the tasks other than collect, whether they can be made and whether   *)
(* they may fail is modelled.                                              *)
(***************************************************************************)
EXTENDS Integers, Sequences, SequencesExt, FiniteSetsExt

CONSTANTS
    Job,             \* the jobs there may be, numbered in the order they are created
    NumAttempt,      \* reads of the experiment before a pod gives up
    BackoffLimit,    \* pods after the first that a job may have
    MaxExperiments,  \* bound on the experiments created under the name
    MaxPending       \* bound on watch events that are not delivered yet

VARIABLES
    action,      \* the tasks of the handler's action, none if it is not there
    store,       \* the experiment in the API server
    results,     \* the collected results in its status
    pending,     \* watch events for it on their way to the controller
    pods,        \* the current pod of each job
    fresh        \* whose copy of the experiment is the stored version

serverVars == <<store, results, pending>>

(* load is a collect task with loadOnly, strict one whose ignoreFailure is *)
(* false.  A condition holds, does not hold, or cannot be evaluated.       *)
Task ==
    [kind : {"run", "collect", "load", "readiness", "http", "slack", "unknown", "neither"},
     if : {"true", "false", "bad"},
     strict : BOOLEAN,
     flaw : {"none", "malformed", "no versions", "bad object name"}]

Attempt == 1 .. BackoffLimit + 1

(* What the collect tasks of an attempt have measured, and which of the    *)
(* experiments of this name its pod had read.                              *)
Sample == [job : Job, attempt : Attempt, inc : 0..MaxExperiments]

(* inc tells the experiments of the same name apart; 0 is none.            *)
Experiment == [inc : 0..MaxExperiments, stage : {"Running", "Finishing", "Completed"}]

NewExperiment(inc) == [inc |-> inc, stage |-> "Running"]

NoExperiment == NewExperiment(0)

Pod ==
    [pc : {"none", "fetch", "run", "done", "error", "gone"}, attempt : Attempt,
     try : 0..NumAttempt, next : Nat \ {0}, inc : 0..MaxExperiments]

PodIn(pc, attempt) == [pc |-> pc, attempt |-> attempt, try |-> 0, next |-> 1, inc |-> 0]

(* A pod that has ended keeps nothing but which experiment it has run for. *)
Over(p, pc) == [PodIn(pc, p.attempt) EXCEPT !.inc = p.inc]

NoPod == PodIn("none", 1)

Alive(j) == pods[j].pc \in {"fetch", "run"}

(* Mutant of MayRetry: no backoff limit. *)
MayRetryAlways(j) == pods[j].pc = "error"

MayRetry(j) == pods[j].pc = "error" /\ pods[j].attempt <= BackoffLimit

(* The job is over: its pod has succeeded, or the last one has failed.     *)
JobComplete(j) == pods[j].pc = "done"

JobFailed(j) == pods[j].pc = "error" /\ ~MayRetry(j)

Publish(e, collected) ==
    /\ Len(pending) < MaxPending
    /\ store' = e
    /\ results' = collected
    /\ pending' = Append(pending, e)

SetPod(j, p) == pods' = [pods EXCEPT ![j] = p]

-----------------------------------------------------------------------------
(***************************************************************************)
(* run, before the first task                                              *)
(***************************************************************************)

runscriptMade(t) == t.flaw # "malformed"

collectMade(t) == t.flaw \notin {"malformed", "no versions"}

readinessMade(t) == t.flaw \notin {"malformed", "bad object name"}

httpMade(t) == t.flaw # "malformed"

slackMade(t) == t.flaw # "malformed"

MakeTask(t) ==
    \/ t.kind \in {"collect", "load"} /\ collectMade(t)
    \/ t.kind = "readiness" /\ readinessMade(t)
    \/ t.kind = "http" /\ httpMade(t)
    \/ t.kind = "slack" /\ slackMade(t)

(* GetActionSpec, GetAction: an action that is not there has no tasks, and *)
(* one task that cannot be made fails the pod before any task runs.        *)
AllMade ==
    \A i \in DOMAIN action :
        \/ action[i].kind = "run" /\ runscriptMade(action[i])
        \/ MakeTask(action[i])

Started(p) == [p EXCEPT !.pc = "run", !.try = 0, !.inc = store.inc]

Prepared(p) == IF AllMade THEN Started(p) ELSE Over(Started(p), "error")

ReadExperiment(j) ==
    /\ pods[j].pc = "fetch"
    /\ store.inc # 0
    /\ SetPod(j, Prepared(pods[j]))
    /\ fresh' = fresh \cup {j}
    /\ UNCHANGED <<action, serverVars>>

(* Mutant of LastTry: attempts are not counted. *)
LastTryNever(try) == FALSE

LastTry(try) == try = NumAttempt

(* GetTypedObject: it is not there or cannot be read.  After the last      *)
(* attempt the error is reported with the name of an experiment that is    *)
(* nil, which fails the pod no less.                                       *)
ReadFails(j) ==
    /\ pods[j].pc = "fetch"
    /\ LET try == pods[j].try + 1
       IN  SetPod(j, IF LastTry(try) THEN Over(pods[j], "error") ELSE [pods[j] EXCEPT !.try = try])
    /\ UNCHANGED <<action, serverVars, fresh>>

(***************************************************************************)
(* Action.Run                                                              *)
(***************************************************************************)
AtTask(j) == pods[j].pc = "run" /\ pods[j].next <= Len(action)

TaskOf(j) == action[pods[j].next]

Passed(p) == [p EXCEPT !.next = @ + 1]

(* Which tasks may fail.  Notifications report failures only if told so.   *)
scriptFails(t) == t.kind = "run"

collectFails(t) == t.kind \in {"collect", "load"}

readinessFails(t) == t.kind = "readiness"

httpFails(t) == t.kind = "http" /\ t.strict

slackFails(t) == t.kind = "slack" /\ t.strict

MayFail(t) ==
    scriptFails(t) \/ collectFails(t) \/ readinessFails(t) \/ httpFails(t) \/ slackFails(t)

SkipTask(j) ==
    /\ AtTask(j)
    /\ TaskOf(j).if = "false"
    /\ SetPod(j, Passed(pods[j]))
    /\ UNCHANGED <<action, serverVars, fresh>>

TaskMayFail(t) == t.if = "bad" \/ (t.if = "true" /\ MayFail(t))

(* Mutant of TaskFails: the error is logged and the loop goes on. *)
TaskFailsAndGoesOn(j) ==
    /\ AtTask(j)
    /\ TaskMayFail(TaskOf(j))
    /\ SetPod(j, Passed(pods[j]))
    /\ UNCHANGED <<action, serverVars, fresh>>

(* The condition does not compile or evaluate, or the task fails.          *)
TaskFails(j) ==
    /\ AtTask(j)
    /\ TaskMayFail(TaskOf(j))
    /\ SetPod(j, Over(pods[j], "error"))
    /\ UNCHANGED <<action, serverVars, fresh>>

TaskSucceeds(j) ==
    /\ AtTask(j)
    /\ TaskOf(j).if = "true"
    /\ TaskOf(j).kind # "collect"
    /\ SetPod(j, Passed(pods[j]))
    /\ UNCHANGED <<action, serverVars, fresh>>

(* CollectTask.Run: all versions have been measured.  The results join     *)
(* those of the experiment as it was read (SetAggregatedBuiltinHists),     *)
(* which are the stored ones if the write goes through.                    *)
SampleOf(j) == [job |-> j, attempt |-> pods[j].attempt, inc |-> pods[j].inc]

Aggregated(j) == results \cup {SampleOf(j)}

(* Mutant of ResultsWritten: a patch in place of the update, which does    *)
(* not mind what the experiment has become.                                *)
ResultsPatched(j) == store.inc # 0 /\ Publish(store, Aggregated(j)) /\ fresh' = {j}

(* UpdateInClusterExperimentStatus: an answer that is lost leaves the pod  *)
(* with a copy that is out of date.                                        *)
ResultsWritten(j) == j \in fresh /\ Publish(store, Aggregated(j)) /\ fresh' \in {{j}, {}}

(* There is no client, no connection, or the version is not the stored one.*)
ResultsNotWritten == UNCHANGED <<serverVars, fresh>>

(* Whether the write has failed is not looked at.                          *)
Collect(j) ==
    /\ AtTask(j)
    /\ TaskOf(j).if = "true"
    /\ TaskOf(j).kind = "collect"
    /\ SetPod(j, Passed(pods[j]))
    /\ ResultsWritten(j) \/ ResultsNotWritten
    /\ UNCHANGED action

ActionDone(j) ==
    /\ pods[j].pc = "run"
    /\ pods[j].next > Len(action)
    /\ SetPod(j, Over(pods[j], "done"))
    /\ UNCHANGED <<action, serverVars, fresh>>

(***************************************************************************)
(* The job controller                                                      *)
(***************************************************************************)

(* Another pod takes its turn. *)
RetryPod(j) ==
    /\ MayRetry(j)
    /\ SetPod(j, PodIn("fetch", Min({pods[j].attempt, BackoffLimit}) + 1))
    /\ fresh' = fresh \ {j}
    /\ UNCHANGED <<action, serverVars>>

(* activeDeadlineSeconds is over. *)
DeadlineExceeded(j) ==
    /\ Alive(j)
    /\ SetPod(j, Over([pods[j] EXCEPT !.attempt = BackoffLimit + 1], "error"))
    /\ UNCHANGED <<action, serverVars, fresh>>

PodStep(j) ==
    \/ ReadExperiment(j) \/ ReadFails(j)
    \/ SkipTask(j) \/ TaskFails(j) \/ TaskSucceeds(j) \/ Collect(j) \/ ActionDone(j)
    \/ DeadlineExceeded(j)

=============================================================================
