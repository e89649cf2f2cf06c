------------------------ MODULE ExperimentLifecycle ------------------------
(***************************************************************************)
(* One experiment from creation to completion: what Reconcile              *)
(* (controllers/experiment_controller.go) and doIteration (iterate.go) do  *)
(* with its status and its handler jobs.                                   *)
(*                                                                         *)
(* The worker reads the experiment and the jobs from two informer caches   *)
(* that trail the API server independently, creates jobs, and writes the   *)
(* status under the version it has read.  Between any two steps others may *)
(* write the experiment, jobs may end, and the controller may restart.     *)
(* What the other experiments do to the target is reduced to when it is    *)
(* free (module TargetLock); metrics, analytics and weights to how their   *)
(* calls turn out.                                                         *)
(***************************************************************************)
EXTENDS Integers, Sequences, FiniteSetsExt

CONSTANTS
    IterationsPerLoop,   \* spec.duration
    MaxLoops,
    Strategies,          \* what spec.strategy.actions may have as keys
    HasMetrics,          \* spec.criteria names metrics
    MaxPending,          \* bound on watch events that are not delivered yet
    FreshStatus,         \* TRUE: reconciles start on an up-to-date status
    FreshJobs,           \* TRUE: they see at least the jobs the controller has created
    Faults               \* the calls and validations that may fail

ASSUME ConstantsAssumption ==
    /\ IterationsPerLoop \in Nat \ {0}
    /\ MaxLoops \in Nat \ {0}
    /\ Strategies \subseteq SUBSET {"start", "finish", "loop"}
    /\ MaxPending \in Nat \ {0}
    /\ {HasMetrics, FreshStatus, FreshJobs} \subseteq BOOLEAN
    /\ Faults \subseteq {"tasks", "metrics", "versions", "analytics", "weights", "create", "status"}

(***************************************************************************)
(* The handler jobs, numbered in the order checkHandlersStatus visits      *)
(* them.  The finish, rollback and failure handlers are one job: their     *)
(* default names are the same and there are no others.                     *)
(***************************************************************************)
Start == 0
Finish == 1
Loop(k) == 1 + k

LoopJob == {Loop(k) : k \in 1..MaxLoops}

Job == {Start, Finish} \cup LoopJob

JobState == {"absent", "running", "complete", "failed"}

(* "New" is an experiment whose status has no stage yet.                   *)
StageOrder == <<"New", "Waiting", "Initializing", "Running", "Finishing", "Completed">>

Stage == {StageOrder[i] : i \in 1..6}

Rank == [s \in Stage |-> CHOOSE i \in 1..6 : StageOrder[i] = s]

After(s, t) == Rank[s] > Rank[t]

(* The message recorded with the Completed condition. *)
Message == {"none", "succeeded", "rolled back", "failed",
            "handler completed", "handler failed", "launch failed"}

MaxIterations == IterationsPerLoop * MaxLoops

Status ==
    [stage : Stage, acquired : BOOLEAN, failed : BOOLEAN, message : Message,
     metrics : BOOLEAN, started : BOOLEAN, iterations : 0..MaxIterations]

NewStatus ==
    [stage |-> "New", acquired |-> FALSE, failed |-> FALSE, message |-> "none",
     metrics |-> FALSE, started |-> FALSE, iterations |-> 0]

VARIABLES
    actions,     \* keys of spec.strategy.actions; does not change
    store,       \* status in the API server
    pending,     \* watch events for it on their way to the informer
    cache,       \* the informer's copy
    jobs,        \* the jobs in the cluster
    jobCache,    \* the job informer's copy
    queued,      \* the experiment's key is in the work queue
    timer,       \* a RequeueAfter is armed
    elapsed,     \* the interval has passed since the stored LastUpdateTime
    free,        \* the target may be acquired
    pc,          \* where Reconcile is
    obj,         \* instance.Status in memory
    current      \* the stored object is the version that was read

vars == <<actions, store, pending, cache, jobs, jobCache, queued, timer, elapsed, free, pc, obj, current>>

cluster == <<jobs, jobCache>>
memory == <<pc, obj, current>>

-----------------------------------------------------------------------------
(* advanceStage *)
Advance(o, s) == IF After(s, o.stage) THEN [o EXCEPT !.stage = s] ELSE o

(* endExperiment: the final stage and its message. *)
Ended(o, msg) == [Advance(o, "Completed") EXCEPT !.message = msg]

(* recordExperimentFailed *)
Failed(o) == [o EXCEPT !.failed = TRUE]

(* completeIteration *)
Iterated(o) == [o EXCEPT !.iterations = @ + 1]

(* Mutants of MoreIterationsNeeded: one iteration too many, one too few.   *)
MoreIterationsNeededLate(o) == o.iterations <= MaxIterations

MoreIterationsNeededEarly(o) == o.iterations + 1 < MaxIterations

MoreIterationsNeeded(o) == o.iterations < MaxIterations

CompletedLoop(o) == o.iterations % IterationsPerLoop = 0

LoopsDone(o) == o.iterations \div IterationsPerLoop

(* sufficientTimePassedSincePreviousIteration: certain for the first       *)
(* iteration and for the stored LastUpdateTime, open for an older one.     *)
EnoughTime(o) ==
    {b \in BOOLEAN : /\ o.iterations = 0 => b
                     /\ o.iterations = store.iterations /\ o.iterations > 0 => b = elapsed}

(* GetHandler: a handler without actions is no handler. *)
Handler ==
    {j \in Job : CASE j = Start -> "start" \in actions
                   [] j = Finish -> "finish" \in actions
                   [] OTHER -> "loop" \in actions}

(* Mutants of Stops: running handlers are not waited for; a finish handler *)
(* that has completed does not end the experiment.                         *)
StopsWhenFailed(j) == jobCache[j] = "failed" \/ (j = Finish /\ jobCache[j] = "complete")

StopsUnlessComplete(j) == jobCache[j] \in {"running", "failed"}

(* checkHandlerStatus, as the cache shows the jobs: those that stop the    *)
(* request.  A start or loop handler that has completed does not.          *)
Stops(j) == \/ jobCache[j] \in {"running", "failed"}
            \/ j = Finish /\ jobCache[j] = "complete"

StoppingJobs == {j \in Handler : Stops(j)}

FirstStop == Min(StoppingJobs)

Init ==
    /\ actions \in Strategies
    /\ store = NewStatus
    /\ pending = <<NewStatus>>
    /\ cache = NewStatus
    /\ jobs = [j \in Job |-> "absent"]
    /\ jobCache = jobs
    /\ queued = FALSE
    /\ timer = FALSE
    /\ elapsed = FALSE
    /\ free \in BOOLEAN
    /\ pc = "idle"
    /\ obj = NewStatus
    /\ current = FALSE

(***************************************************************************)
(* The surroundings of the controller.                                     *)
(***************************************************************************)
Publish(s) ==
    /\ Len(pending) < MaxPending
    /\ store' = s
    /\ pending' = Append(pending, s)

(* A user changes the spec, or a task writes its results. *)
Edit ==
    /\ Publish(store)
    /\ current' = FALSE
    /\ UNCHANGED <<actions, cache, cluster, queued, timer, elapsed, free, pc, obj>>

Deliver ==
    /\ pending # <<>>
    /\ cache' = Head(pending)
    /\ pending' = Tail(pending)
    /\ queued' = TRUE
    /\ UNCHANGED <<actions, store, cluster, timer, elapsed, free, memory>>

(* A handler job ends. *)
JobEnds(j) ==
    /\ jobs[j] = "running"
    /\ \E s \in {"complete", "failed"} : jobs' = [jobs EXCEPT ![j] = s]
    /\ UNCHANGED <<actions, store, pending, cache, jobCache, queued, timer, elapsed, free, memory>>

(* The job informer hears of a job.  A job it has not had yet is added, as *)
(* it was created or as it is by now, and the controller's predicate drops *)
(* additions; a change of a known job enqueues its experiment.             *)
JobAdded(j) ==
    /\ jobCache[j] = "absent"
    /\ jobs[j] # "absent"
    /\ \E s \in {"running", jobs[j]} : jobCache' = [jobCache EXCEPT ![j] = s]
    /\ UNCHANGED <<actions, store, pending, cache, jobs, queued, timer, elapsed, free, memory>>

(* Mutant of JobUpdated: the predicate drops updates as well.              *)
JobUpdatedDropped(j) ==
    /\ jobCache[j] = "running"
    /\ jobs[j] # "running"
    /\ jobCache' = [jobCache EXCEPT ![j] = jobs[j]]
    /\ UNCHANGED <<actions, store, pending, cache, jobs, queued, timer, elapsed, free, memory>>

JobUpdated(j) ==
    /\ jobCache[j] = "running"
    /\ jobs[j] # "running"
    /\ jobCache' = [jobCache EXCEPT ![j] = jobs[j]]
    /\ queued' = TRUE
    /\ UNCHANGED <<actions, store, pending, cache, jobs, timer, elapsed, free, memory>>

TimePasses ==
    /\ ~elapsed
    /\ elapsed' = TRUE
    /\ UNCHANGED <<actions, store, pending, cache, cluster, queued, timer, free, memory>>

TimerFires ==
    /\ timer
    /\ timer' = FALSE
    /\ queued' = TRUE
    /\ UNCHANGED <<actions, store, pending, cache, cluster, elapsed, free, memory>>

(* The holder of the target is gone and its release triggers this one.     *)
TargetReleased ==
    /\ ~free
    /\ free' = TRUE
    /\ queued' = TRUE
    /\ UNCHANGED <<actions, store, pending, cache, cluster, timer, elapsed, memory>>

(* The controller stops; its successor lists everything and starts over.   *)
Restart ==
    /\ cache' = store
    /\ pending' = <<>>
    /\ jobCache' = jobs
    /\ queued' = TRUE
    /\ timer' = FALSE
    /\ pc' = "idle"
    /\ obj' = NewStatus
    /\ current' = FALSE
    /\ UNCHANGED <<actions, store, jobs, elapsed, free>>

Surroundings ==
    \/ Edit \/ Deliver \/ TimePasses \/ TimerFires \/ TargetReleased \/ Restart
    \/ \E j \in Job : JobEnds(j) \/ JobAdded(j) \/ JobUpdated(j)

-----------------------------------------------------------------------------
(***************************************************************************)
(* How a request ends.  Reconcile leaves the caches and the target alone.  *)
(***************************************************************************)

(* Mutant of UpdateStatus: the write ignores the resourceVersion.          *)
UpdateStatusBlind(o) ==
    /\ Publish(o)
    /\ elapsed' = (elapsed /\ o.iterations = store.iterations)

(* updateStatus: the write takes effect only on the version that was read; *)
(* a conflict is taken for success.                                        *)
UpdateStatus(o) ==
    IF current
      THEN /\ Publish(o)
           /\ elapsed' = (elapsed /\ o.iterations = store.iterations)
      ELSE UNCHANGED <<store, pending, elapsed>>

Done ==
    /\ pc' = "idle"
    /\ obj' = NewStatus
    /\ current' = FALSE

(* A write fails otherwise, with or without an effect: the request returns *)
(* an error, so that the key is put back.                                  *)
WriteFails(o) ==
    /\ "status" \in Faults
    /\ UpdateStatus(o) \/ UNCHANGED <<store, pending, elapsed>>
    /\ Done
    /\ queued' = TRUE
    /\ UNCHANGED <<jobs, timer>>

EndRequest(o) ==
    \/ /\ UpdateStatus(o)
       /\ Done
       /\ UNCHANGED <<jobs, queued, timer>>
    \/ WriteFails(o)

EndRequestAndWait(o) ==
    \/ /\ UpdateStatus(o)
       /\ Done
       /\ timer' = TRUE
       /\ UNCHANGED <<jobs, queued>>
    \/ WriteFails(o)

(* endRequest of a status that has not changed *)
Leave ==
    /\ Done
    /\ UNCHANGED <<store, pending, elapsed, jobs, queued, timer>>

(* Mutant of Retry: the error is swallowed. *)
RetryNever ==
    /\ Done
    /\ UNCHANGED <<store, pending, elapsed, jobs, queued, timer>>

(* Reconcile returns an error: the key is put back. *)
Retry ==
    /\ Done
    /\ queued' = TRUE
    /\ UNCHANGED <<store, pending, elapsed, jobs, timer>>

GoOn(label, o) ==
    /\ pc' = label
    /\ obj' = o
    /\ UNCHANGED <<store, pending, elapsed, jobs, queued, timer, current>>

(* LaunchHandler: a job that exists already, perhaps from an earlier       *)
(* attempt, is as good as a new one.                                       *)
Created(j) == [jobs EXCEPT ![j] = IF @ = "absent" THEN "running" ELSE @]

(* Mutant of Launch: a job that cannot be created goes unnoticed.          *)
LaunchUnchecked(j, o, launched) ==
    /\ \/ jobs' = Created(j)
       \/ "create" \in Faults /\ jobs' = jobs
    /\ pc' = "save"
    /\ obj' = launched
    /\ UNCHANGED <<store, pending, elapsed, queued, timer, current>>

(* launchHandlerWrapper: the job exists before the status says so.  A job  *)
(* that cannot be created ends the experiment with the status as it was    *)
(* before the launch.                                                      *)
Launch(j, o, launched) ==
    \/ /\ jobs' = Created(j)
       /\ pc' = "save"
       /\ obj' = launched
       /\ UNCHANGED <<store, pending, elapsed, queued, timer, current>>
    \/ /\ "create" \in Faults
       /\ EndRequest(Ended(o, "launch failed"))

(* failExperiment after recordExperimentFailed *)
Fail(o) == EndRequest(Ended(Failed(o), "failed"))

-----------------------------------------------------------------------------
(***************************************************************************)
(* Reconcile, up to the first look at the handlers.                        *)
(***************************************************************************)
Begin ==
    /\ pc = "idle"
    /\ queued
    /\ FreshStatus => pending = <<>>
    /\ FreshJobs => \A j \in Job : jobs[j] # "absent" => jobCache[j] # "absent"
    /\ pc' = "check"
    /\ obj' = cache
    /\ current' = (pending = <<>>)
    /\ queued' = FALSE
    /\ UNCHANGED <<store, pending, elapsed, jobs, timer>>

InitializeStatus ==
    /\ pc = "check"
    /\ obj.stage = "New"
    /\ EndRequest([obj EXCEPT !.stage = "Waiting"])

AlreadyCompleted ==
    /\ pc = "check"
    /\ obj.stage = "Completed"
    /\ Leave

(***************************************************************************)
(* checkHandlersStatus                                                     *)
(***************************************************************************)
Checking == pc = "check" /\ obj.stage \notin {"New", "Completed"}

(* Completed loops are visited before the handler that stops the request.  *)
LoopJobVisited ==
    \E j \in LoopJob :
        jobCache[j] = "complete" /\ \A i \in StoppingJobs : j < i

(* Wait for a handler.  Weights observed after a completed loop may have   *)
(* changed the status.                                                     *)
HandlerRunning ==
    /\ Checking
    /\ StoppingJobs # {}
    /\ jobCache[FirstStop] = "running"
    /\ Leave \/ (LoopJobVisited /\ EndRequest(obj))

HandlerFinished ==
    /\ Checking
    /\ StoppingJobs # {}
    /\ jobCache[FirstStop] = "complete"
    /\ EndRequest(Ended(obj, "handler completed"))

HandlerFailed ==
    /\ Checking
    /\ StoppingJobs # {}
    /\ jobCache[FirstStop] = "failed"
    /\ EndRequest(Ended(Failed(obj), "handler failed"))

(* The weights cannot be observed after a loop: the failure is recorded in *)
(* memory and the error returned, without a write.                         *)
LoopWeightsFail ==
    /\ Checking
    /\ "weights" \in Faults
    /\ LoopJobVisited
    /\ Retry

HandlersDone ==
    /\ Checking
    /\ StoppingJobs = {}
    /\ GoOn("act", obj)

(***************************************************************************)
(* From validation to the iterations.                                      *)
(***************************************************************************)
InvalidTasks ==
    /\ pc = "act"
    /\ "tasks" \in Faults
    /\ EndRequest(Ended(obj, "failed"))

AcquireTarget ==
    /\ pc = "act"
    /\ ~obj.acquired
    /\ IF free THEN EndRequest([obj EXCEPT !.acquired = TRUE]) ELSE Leave

StartInitializing ==
    /\ pc = "act"
    /\ obj.acquired
    /\ obj.stage = "Waiting"
    /\ EndRequest(Advance(obj, "Initializing"))

Initialized == pc = "act" /\ obj.acquired /\ obj.stage # "Waiting"

(* Mutant of StartNotLaunched: decided from the stage. *)
StartNotLaunchedYet == Start \in Handler /\ obj.stage = "Waiting"

(* The prerequisite reads the cache a second time. *)
StartNotLaunched == Start \in Handler /\ jobCache[Start] = "absent"

LaunchStart ==
    /\ Initialized
    /\ StartNotLaunched
    /\ Launch(Start, obj, obj)

Started == Initialized /\ ~StartNotLaunched

ShouldReadMetrics(o) == HasMetrics /\ ~o.metrics

ReadMetrics ==
    /\ Started
    /\ ShouldReadMetrics(obj)
    /\ \/ EndRequest([obj EXCEPT !.metrics = TRUE])
       \/ "metrics" \in Faults /\ Fail(obj)

StartRunning ==
    /\ Started
    /\ ~ShouldReadMetrics(obj)
    /\ After("Running", obj.stage)
    /\ \/ EndRequest(Advance(obj, "Running"))
       \/ "weights" \in Faults /\ Fail(Advance(obj, "Running"))

Running == Started /\ ~ShouldReadMetrics(obj) /\ ~After("Running", obj.stage)

InvalidVersions ==
    /\ Running
    /\ "versions" \in Faults
    /\ Fail(obj)

(* setStartTimeIfNotSet: a write of its own, for which a conflict is an    *)
(* error as any other.                                                     *)
StartTimeIsSet ==
    /\ current
    /\ Publish([obj EXCEPT !.started = TRUE])
    /\ pc' = "iterate"
    /\ obj' = [obj EXCEPT !.started = TRUE]
    /\ UNCHANGED <<elapsed, jobs, queued, timer, current>>

SetStartTime ==
    /\ Running
    /\ ~obj.started
    /\ \/ StartTimeIsSet
       \/ ~current /\ Retry
       \/ WriteFails([obj EXCEPT !.started = TRUE])

KeepStartTime ==
    /\ Running
    /\ obj.started
    /\ GoOn("iterate", obj)

(***************************************************************************)
(* doIteration                                                             *)
(***************************************************************************)

(* The handler that ends the experiment, or its end when there is none:    *)
(* finishExperiment and rollbackExperiment.                                *)
Terminate(o, msg) ==
    IF Finish \in Handler
      THEN Launch(Finish, o, Advance(o, "Finishing"))
      ELSE EndRequest(Ended(o, msg))

FinishExperiment ==
    /\ pc = "iterate"
    /\ ~MoreIterationsNeeded(obj)
    /\ Terminate(obj, "succeeded")

TooEarly ==
    /\ pc = "iterate"
    /\ MoreIterationsNeeded(obj)
    /\ FALSE \in EnoughTime(obj)
    /\ Retry

Iterating ==
    /\ pc = "iterate"
    /\ MoreIterationsNeeded(obj)
    /\ TRUE \in EnoughTime(obj)

(* The analytics service or the redistribution of weights fails. *)
IterationFails ==
    /\ Iterating
    /\ Faults \cap {"analytics", "weights"} # {}
    /\ Fail(obj)

RollbackExperiment ==
    /\ Iterating
    /\ Terminate(obj, "rolled back")

CompleteIteration ==
    /\ Iterating
    /\ LET o == Iterated(obj)
       IN  IF CompletedLoop(o) /\ Loop(LoopsDone(o)) \in Handler
             THEN Launch(Loop(LoopsDone(o)), o, o)
             ELSE EndRequestAndWait(o)

(* The status write after a launch. *)
SaveLaunch ==
    /\ pc = "save"
    /\ EndRequest(obj)

Reconcile ==
    /\ \/ Begin \/ InitializeStatus \/ AlreadyCompleted
       \/ HandlerRunning \/ HandlerFinished \/ HandlerFailed \/ LoopWeightsFail
       \/ HandlersDone
       \/ InvalidTasks \/ AcquireTarget \/ StartInitializing \/ LaunchStart
       \/ ReadMetrics \/ StartRunning \/ InvalidVersions
       \/ SetStartTime \/ KeepStartTime
       \/ FinishExperiment \/ TooEarly \/ IterationFails \/ RollbackExperiment
       \/ CompleteIteration \/ SaveLaunch
    /\ UNCHANGED <<actions, cache, jobCache, free>>

Next == Surroundings \/ Reconcile

Spec == Init /\ [][Next]_vars

-----------------------------------------------------------------------------
(* Every variable keeps its type. *)
TypeOK ==
    /\ actions \in Strategies
    /\ store \in Status
    /\ pending \in Seq(Status)
    /\ cache \in Status
    /\ jobs \in [Job -> JobState]
    /\ jobCache \in [Job -> JobState]
    /\ {queued, timer, elapsed, free, current} \subseteq BOOLEAN
    /\ pc \in {"idle", "check", "act", "iterate", "save"}
    /\ obj \in Status

(* One handler at a time (experiment_controller.go:504, "If a handler was  *)
(* launched the caller should wait for completion"): the jobs of a start,  *)
(* loop or finish handler never run beside each other.                     *)
OneHandlerAtATime ==
    \A i, j \in Job : jobs[i] = "running" /\ jobs[j] = "running" => i = j

(* The stage goes past Initializing, "a start handler, if any, is running" *)
(* (constants.go:118), only when that handler has completed, although the  *)
(* cache is read twice on the way.                                         *)
StartHandlerFirst ==
    Start \in Handler /\ store.stage \in {"Running", "Finishing"} => jobs[Start] = "complete"

(* Jobs are created before the status that speaks of them, so a crash or a *)
(* conflict leaves a job without its status but never a status without its *)
(* job: Finishing has a finish job, a completed loop its loop job, unless  *)
(* that job could not be created and the experiment has ended there.       *)
StatusHasItsJobs ==
    store.message # "launch failed" =>
        /\ store.stage = "Finishing" => jobs[Finish] # "absent"
        /\ "loop" \in actions =>
              \A k \in 1..MaxLoops :
                  store.iterations >= k * IterationsPerLoop => jobs[Loop(k)] # "absent"

(* A loop handler runs at most once its loop is over but for the iteration *)
(* whose write may still be lost, however often iterations are repeated    *)
(* after conflicts, stale reads and restarts.                              *)
LoopHandlersOnTime ==
    \A k \in 1..MaxLoops :
        jobs[Loop(k)] # "absent" => store.iterations >= k * IterationsPerLoop - 1

(* An experiment that reports success has run all its iterations and none  *)
(* of its handlers has failed.                                             *)
SuccessIsEarned ==
    store.message = "succeeded" =>
        /\ store.iterations = MaxIterations
        /\ ~store.failed
        /\ \A j \in Job : jobs[j] # "failed"

(* Nothing is lost for good: when no event, timer, retry or job is left    *)
(* that could reconcile the experiment again, it has completed or it waits *)
(* for its target.                                                         *)
Quiescent ==
    /\ pc = "idle" /\ ~queued /\ ~timer
    /\ pending = <<>>
    /\ jobCache = jobs
    /\ \A j \in Job : jobs[j] # "running"

NeverStalls == Quiescent => store.stage = "Completed" \/ ~free

(* Whatever is written from stale reads, no status that was stored is ever *)
(* taken back: stages only advance, iterations are counted one by one, and *)
(* what was acquired, read, started, failed or completed stays so.         *)
StatusNeverRegresses ==
    [][/\ Rank[store.stage] <= Rank[store'.stage]
       /\ store'.iterations \in {store.iterations, store.iterations + 1}
       /\ store.acquired => store'.acquired
       /\ store.metrics => store'.metrics
       /\ store.started => store'.started
       /\ store.failed => store'.failed
       /\ store.stage = "Completed" => store' = store]_vars

(* "Finishing indicates an experiment has completed its iterations"        *)
(* (constants.go:125): none is counted from then on.                       *)
NoIterationWhenFinishing ==
    [][store.stage = "Finishing" => store'.iterations = store.iterations]_vars

(***************************************************************************)
(* Fairness: events, timers and time arrive, jobs end, the worker goes on. *)
(* Edits and restarts come to an end, since each may cost a write; and so  *)
(* do requests that cannot read the weights or write the status.           *)
(***************************************************************************)
RequestFails ==
    /\ pc # "idle"
    /\ Retry
    /\ ~TooEarly
    /\ SetStartTime => current

InterferenceEnds == <>[][~Edit /\ ~Restart /\ ~RequestFails]_vars

Fairness ==
    /\ InterferenceEnds
    /\ WF_vars(Deliver)
    /\ WF_vars(TimePasses)
    /\ WF_vars(TimerFires)
    /\ \A j \in Job :
          WF_vars(JobEnds(j)) /\ WF_vars(JobAdded(j)) /\ WF_vars(JobUpdated(j))
    /\ WF_vars(Reconcile)

FairSpec == Spec /\ Fairness

(* An experiment that has acquired its target completes, and gives it up.  *)
EventuallyCompletes == store.acquired ~> store.stage = "Completed"

=============================================================================
