----------------------------- MODULE HandlerJobs ----------------------------
(***************************************************************************)
(* The life of a handler job: launched by the controller (LaunchHandler in *)
(* controllers/handler.go), run by the task runner, observed, and swept    *)
(* once its experiment is gone (cleanupDeletedExperiments in               *)
(* experiment_controller.go).                                              *)
(*                                                                         *)
(* One name of an experiment and the one handler job it gives rise to.     *)
(* Experiments come and go under that name; the job is known by its name   *)
(* only and survives its experiment.                                       *)
(***************************************************************************)
EXTENDS TaskRunner

CONSTANTS
    Actions          \* what the handler's action may be

ASSUME HandlerJobsAssumption ==
    /\ Job \subseteq Nat \ {0}
    /\ {NumAttempt, BackoffLimit, MaxExperiments, MaxPending} \subseteq Nat \ {0}
    /\ Actions \subseteq Seq(Task)

VARIABLES
    cache,       \* the controller's copy of the experiment
    named,       \* the job that has the name, 0 if none
    created,     \* how many jobs have been created
    jobCache,    \* the controller's copy of the job and its state
    pc,          \* where the controller is
    obj,         \* the experiment in its memory
    incs,        \* how many experiments have been created
    takenBy,     \* the experiments that have taken each job for theirs
    remains      \* something of an earlier experiment was there when this one was created

vars == <<action, store, results, pending, pods, fresh, cache, named, created, jobCache, pc, obj,
          incs, takenBy, remains>>

jobVars == <<named, created, pods>>
workerVars == <<pc, obj>>
historyVars == <<incs, takenBy, remains>>

Controller == 0

NoJob == [id |-> 0, state |-> "absent"]

(* What a watch shows of the job. *)
JobState(j) ==
    CASE JobComplete(j) -> "complete" [] JobFailed(j) -> "failed" [] OTHER -> "running"

JobNow == IF named = 0 THEN NoJob ELSE [id |-> named, state |-> JobState(named)]

Init ==
    /\ action \in Actions
    /\ store = NewExperiment(1)
    /\ results = {}
    /\ pending = <<>>
    /\ pods = [j \in Job |-> NoPod]
    /\ fresh = {}
    /\ cache = store
    /\ named = 0
    /\ created = 0
    /\ jobCache = NoJob
    /\ pc = "idle"
    /\ obj = NoExperiment
    /\ incs = 1
    /\ takenBy = [j \in Job |-> {}]
    /\ remains = FALSE

-----------------------------------------------------------------------------
(***************************************************************************)
(* The surroundings                                                        *)
(***************************************************************************)
CreateExperiment ==
    /\ store.inc = 0
    /\ incs < MaxExperiments
    /\ incs' = incs + 1
    /\ Publish(NewExperiment(incs + 1), {})
    /\ fresh' = {}
    /\ remains' = (named # 0 \/ jobCache # NoJob \/ pc # "idle" \/ \E j \in Job : Alive(j))
    /\ UNCHANGED <<action, cache, jobVars, jobCache, workerVars, takenBy>>

DeleteExperiment ==
    /\ store.inc # 0
    /\ Publish(NoExperiment, {})
    /\ fresh' = {}
    /\ UNCHANGED <<action, cache, jobVars, jobCache, workerVars, historyVars>>

(* Others write the experiment. *)
Edit ==
    /\ store.inc # 0
    /\ Publish(store, results)
    /\ fresh' = {}
    /\ UNCHANGED <<action, cache, jobVars, jobCache, workerVars, historyVars>>

Deliver ==
    /\ pending # <<>>
    /\ cache' = Head(pending)
    /\ pending' = Tail(pending)
    /\ UNCHANGED <<action, store, results, fresh, jobVars, jobCache, workerVars, historyVars>>

(* The job informer catches up. *)
JobSeen ==
    /\ jobCache # JobNow
    /\ jobCache' = JobNow
    /\ UNCHANGED <<action, serverVars, fresh, cache, jobVars, workerVars, historyVars>>

(* The pods of a deleted job are killed some time later; until then they   *)
(* go on.                                                                  *)
PodKilled(j) ==
    /\ j # named
    /\ Alive(j)
    /\ SetPod(j, PodIn("gone", 1))
    /\ UNCHANGED <<action, serverVars, fresh, cache, named, created, jobCache, workerVars, historyVars>>

PodRuns(j) ==
    /\ PodStep(j) \/ (j = named /\ RetryPod(j))
    /\ UNCHANGED <<cache, named, created, jobCache, workerVars, historyVars>>

(* The controller stops; its successor lists everything and starts over.   *)
Restart ==
    /\ pc # "idle"
    /\ cache' = store
    /\ pending' = <<>>
    /\ jobCache' = JobNow
    /\ pc' = "idle"
    /\ obj' = NoExperiment
    /\ fresh' = fresh \ {Controller}
    /\ UNCHANGED <<action, store, results, jobVars, historyVars>>

Surroundings ==
    \/ CreateExperiment \/ DeleteExperiment \/ Edit \/ Deliver \/ JobSeen \/ Restart
    \/ \E j \in Job : PodKilled(j) \/ PodRuns(j)

-----------------------------------------------------------------------------
(***************************************************************************)
(* Reconcile                                                               *)
(***************************************************************************)
Goto(label) ==
    /\ pc' = label
    /\ obj' = IF label = "idle" THEN NoExperiment ELSE obj

(* updateStatusInAnalysis keeps the results that the collect task has      *)
(* stored (iterate.go:109).  Mutant: the analysis of the service replaces  *)
(* all of it.                                                              *)
CarriedOverNot(collected) == {}

CarriedOver(collected) == collected

(* updateStatus: a conflict is taken for success. *)
EndRequest(e, collected) ==
    /\ IF Controller \in fresh THEN Publish(e, collected) ELSE UNCHANGED serverVars
    /\ fresh' = IF Controller \in fresh THEN {} ELSE fresh
    /\ Goto("idle")

(* A request for the name finds the experiment. *)
Begin ==
    /\ pc = "idle"
    /\ cache.inc # 0
    /\ cache.stage # "Completed"
    /\ pc' = "act"
    /\ obj' = cache
    /\ fresh' = IF pending = <<>> THEN fresh \cup {Controller} ELSE fresh \ {Controller}
    /\ UNCHANGED <<serverVars, jobVars, takenBy>>

(* GetHandlerStatus: the job of that name, whoever it was for, is running. *)
HandlerRunning ==
    /\ pc = "act"
    /\ jobCache.state = "running"
    /\ Goto("idle")
    /\ UNCHANGED <<serverVars, fresh, jobVars, takenBy>>

(* Mutant of Ended: a job that is not found has ended. *)
EndedOrGone == jobCache.state # "running"

Ended == jobCache.state \in {"complete", "failed"}

HandlerEnded ==
    /\ pc = "act"
    /\ Ended
    /\ EndRequest([obj EXCEPT !.stage = "Completed"], results)
    /\ takenBy' = [j \in Job |-> takenBy[j] \cup IF j = jobCache.id THEN {obj.inc} ELSE {}]
    /\ UNCHANGED jobVars

(* The handler is not due yet. *)
Iterate ==
    /\ pc = "act"
    /\ obj.stage = "Running"
    /\ jobCache = NoJob
    /\ EndRequest(obj, CarriedOver(results))
    /\ UNCHANGED <<jobVars, takenBy>>

(* LaunchHandler: a job of that name that exists already will do. *)
LaunchHandler ==
    /\ pc = "act"
    /\ jobCache = NoJob
    /\ IF named = 0
         THEN /\ created + 1 \in Job
              /\ created' = created + 1
              /\ named' = created + 1
              /\ SetPod(created + 1, PodIn("fetch", 1))
         ELSE UNCHANGED jobVars
    /\ takenBy' = [takenBy EXCEPT ![named'] = @ \cup {obj.inc}]
    /\ Goto("save")
    /\ UNCHANGED <<serverVars, fresh>>

SaveLaunch ==
    /\ pc = "save"
    /\ EndRequest([obj EXCEPT !.stage = "Finishing"], results)
    /\ UNCHANGED <<jobVars, takenBy>>

(***************************************************************************)
(* cleanupDeletedExperiments, in a request for this name or another one    *)
(* that has no experiment                                                  *)
(***************************************************************************)

(* Mutant of Listed: jobs that have ended are left alone. *)
ListedRunning == jobCache.state = "running"

(* identifyExperimentsFromHandlers *)
Listed == jobCache # NoJob

(* Mutant of Deleted: any experiment without a job of its own is gone.     *)
DeletedOrCompleted == cache.inc = 0 \/ cache.stage # "Running"

(* identifyDeletedExperiments *)
Deleted == cache.inc = 0

Sweep ==
    /\ pc = "idle"
    /\ Listed
    /\ Deleted
    /\ Goto("delete")
    /\ UNCHANGED <<serverVars, fresh, jobVars, takenBy>>

(* The job is deleted by its name; whether that works is not looked at.    *)
DeleteJob ==
    /\ pc = "delete"
    /\ named' = 0
    /\ Goto("idle")
    /\ pods' = [j \in Job |-> IF Alive(j) \/ pods[j] = NoPod THEN pods[j] ELSE PodIn("gone", 1)]
    /\ takenBy' = [j \in Job |-> IF j = named THEN {} ELSE takenBy[j]]
    /\ UNCHANGED <<serverVars, fresh, created>>

DeleteFails ==
    /\ pc = "delete"
    /\ Goto("idle")
    /\ UNCHANGED <<serverVars, fresh, jobVars, takenBy>>

Reconcile ==
    /\ \/ Begin \/ HandlerRunning \/ HandlerEnded \/ Iterate \/ LaunchHandler \/ SaveLaunch
       \/ Sweep \/ DeleteJob \/ DeleteFails
    /\ UNCHANGED <<action, cache, jobCache, incs, remains>>

Next == Surroundings \/ Reconcile

Spec == Init /\ [][Next]_vars

-----------------------------------------------------------------------------
(* Every variable keeps its type. *)
TypeOK ==
    /\ action \in Actions
    /\ {store, cache, obj} \subseteq Experiment
    /\ pending \in Seq(Experiment)
    /\ results \subseteq Sample
    /\ pods \in [Job -> Pod]
    /\ fresh \subseteq Job \cup {Controller}
    /\ {named, created, jobCache.id} \subseteq Job \cup {0}
    /\ jobCache.state \in {"absent", "running", "complete", "failed"}
    /\ pc \in {"idle", "act", "save", "delete"}
    /\ incs \in 1..MaxExperiments
    /\ takenBy \in [Job -> SUBSET (1..MaxExperiments)]
    /\ remains \in BOOLEAN

(* A sweep deletes jobs by their name, from a list that may be old, and    *)
(* decides by a cache that may be old whether their experiment is gone     *)
(* (experiment_controller.go:564).  Still it never deletes a job that the  *)
(* experiment there is has taken for its own.                              *)
SweepSparesTheLiving ==
    [][named # 0 /\ named' = 0 => store.inc \notin takenBy[named]]_vars

(* Jobs are named by experiment (handler.go:286).  If nothing of an        *)
(* earlier one was left when it was created, an experiment that has        *)
(* completed has had a job of its own, which has not run for another one.  *)
HandlerRanOnIt ==
    store.stage = "Completed" /\ ~remains =>
        \E j \in Job : store.inc \in takenBy[j] /\ pods[j].inc \in {0, store.inc}

(* The collect task writes the whole status it has read when its pod       *)
(* started (collect.go:383), and the controller writes the whole status it *)
(* has read: neither takes back what the other has stored.                 *)
StatusKept ==
    [][store.inc # 0 /\ store'.inc = store.inc =>
          /\ results \subseteq results'
          /\ store.stage = "Finishing" => store'.stage # "Running"
          /\ store.stage = "Completed" => store'.stage = "Completed"]_vars

(* "If any task run results in an error, exit immediately" (run.go:103),   *)
(* and tasks are made before the first one runs: in whatever attempt, no   *)
(* task is reached past one that cannot be made or evaluated, no job with  *)
(* such a task succeeds, and results come from collect tasks before it.    *)
SoundUpTo(n) == AllMade /\ \A i \in 1..n : action[i].if # "bad"

FailureEndsAction ==
    /\ \A j \in Job :
          /\ pods[j].pc = "run" => SoundUpTo(pods[j].next - 1)
          /\ pods[j].pc = "done" => SoundUpTo(Len(action))
    /\ results # {} => \E i \in DOMAIN action : action[i].kind = "collect" /\ SoundUpTo(i)

(* The results in the status of an experiment are its own: pods outlive    *)
(* their job and their experiment, start again under its old name, and     *)
(* write the whole status without looking at the answer (collect.go:383),  *)
(* yet what was measured for one experiment never counts for the next.     *)
ResultsAreItsOwn == \A s \in results : s.inc = store.inc

(***************************************************************************)
(* Fairness: watch events arrive, pods run, the controller goes on and     *)
(* keeps having requests for names without an experiment, and a deletion   *)
(* that is tried again and again succeeds in the end.                      *)
(***************************************************************************)
Fairness ==
    /\ WF_pending(Deliver)
    /\ WF_jobCache(JobSeen)
    /\ \A j \in Job : WF_pods(PodRuns(j))
    /\ WF_pc(Reconcile)
    /\ SF_pc(Reconcile /\ DeleteJob)

FairSpec == Spec /\ Fairness

(* A handler job ends, whatever its tasks do: reads of the experiment and  *)
(* pods are limited.  (The lifecycle depends on it.)                       *)
JobsEnd == \A j \in Job : (j = named) ~> (j # named \/ JobComplete(j) \/ JobFailed(j))

(* The job of an experiment that was deleted is swept in the end, although *)
(* errors are ignored and only requests for deleted names sweep, unless a  *)
(* new experiment takes the name.                                          *)
SweepsClean == (named # 0 /\ store.inc = 0) ~> (named = 0 \/ store.inc # 0)

=============================================================================
