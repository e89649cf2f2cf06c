# TLA+ models of the iter8 experiment controller

This directory keeps formal models of etc3, the controller of iter8: TLA+
modules, the TLC configurations that check them, and proofs checked by TLAPS.
File and line references are to the repository's sources.

## 1. Inventory

etc3 runs *experiments* on versions of an application in Kubernetes. The
controller reconciles `Experiment` objects; handler jobs run the *task runner*;
`iter8ctl` prints experiments. Nothing is shared in memory between these
programs: they meet in the API server.

| Component | State it keeps | Operations | Interaction |
|---|---|---|---|
| Target acquisition (`controllers/target.go`) | conditions `Completed`, `TargetAcquired` and `InitTime` in each status | `acquireTarget`, `nextWaitingExperiment`, `triggerNextExperiment`, `triggerWaitingExperiments` | reads all experiments from the informer cache; sends release events on a channel that feeds the work queue |
| Reconcile pipeline (`experiment_controller.go`) | stage, conditions and message in the status; nothing between requests | `Reconcile`, `advanceStage`, `endRequest`, `endExperiment`, `finishExperiment`, `rollbackExperiment`, `failExperiment`, `updateStatus`, `checkHandlersStatus`, `launchHandlerWrapper`, `cleanupDeletedExperiments` | called by the work queue; writes under the resourceVersion it has read |
| Iterations (`iterate.go`) | `CompletedIterations`, `LastUpdateTime`, `StartTime` | `doIteration`, `completedLoop`, `mustRollback` | calls analytics, weights, handlers |
| Handler jobs (`handler.go`) | one job per handler (and loop) in the iter8 namespace | `LaunchHandler`, `GetHandlerStatus` | created through the API server, read through the job informer |
| Status (`api/v2alpha2/status.go`, `constants.go`, `recorder.go`) | the status record | `InitializeStatus`, `MarkCondition`, `After` | in memory of one request |
| Weights (`weights.go`) | weights in the application's objects, `CurrentWeightDistribution` | `redistributeWeight`, `updateObservedWeights` | dynamic client, no cache |
| Validation (`validatation.go`) | none | `IsExperimentValid`, `IsVersionInfoValid` | pure, but records failures |
| Metrics reader (`metrics.go`) | `Status.Metrics` | `ReadMetrics` | reads metric objects |
| Analytics client (`client.go`, `main.go`) | none | `Invoke` | HTTP |
| Process (`main.go`, `config.go`, `util.go`) | informers, work queue | start, restart | controller-runtime |
| Task runner (`taskrunner/`) | the experiment as read at start | `Action.Run`, the tasks | jobs; `collect` writes the status |
| iter8ctl (`iter8ctl/`) | none | `assert`, `describe`, `debug` | reads experiments and logs |

What is hard in this code:

- **Two caches, one worker, no lock.** Each decision is made from informer
  caches that trail the API server, and the experiment and job informers trail it
  independently. Optimistic concurrency protects one object, never a relation
  between two objects.
- **Conflicts count as success.** `updateStatus` swallows them, so a request
  may do everything but the write.
- **Wake-ups.** A waiting experiment depends on another experiment's release
  event, which is computed once, from the cache, and lives in memory.
- **Crashes** between creating a job and recording it, or between completing
  and triggering the successor.
- **Counting** iterations, loops and the last of each.
- **Failure paths** that skip a record or a write.

What makes each component correct: a target has at most one holder, goes to the
earliest contender, and nobody waits for a free one (target acquisition); stages
only advance and a stored status is never taken back (status, pipeline);
handlers run in order and one at a time (handlers); iterations are counted once
and success means all of them ran (iterations); every experiment that has a target
completes (pipeline); weights follow the recommendation and sum to 100
(weights); metrics are complete and reading them ends (metrics); a task's results
survive the controller's writes (task runner); an assertion says what the
status says (iter8ctl).

## 2. Plan

| Order | Module | Contents | State |
|---|---|---|---|
| 1 | `TicketLock` | abstract specification of taking turns on a target | done |
| 2 | `TargetLock`, `MCTargetLock` | many experiments, one worker, informer, queue, release events; implements `TicketLock` | done |
| 3 | `TargetLockProofs` | types, watch invariant, exclusion and order under fresh reads, monotone status | done |
| 4 | `ExperimentLifecycle` | one experiment with its handler jobs, two caches, crashes, failures | done |
| 5 | `ExperimentSpec`, `MetricsReader`, `WeightControl` | defaults and validation; reading metrics one by one; patching and observing weights | done |
| 6 | `RunningStage`, `MCRunning` | the calls of one experiment to the cluster and to analytics, from its metrics to its end; composes the three above | done |
| 7 | `Iter8ctl` | assertions, the best version and the logs, on the experiments of `RunningStage` | done |
| 8 | `TaskRunner`, `CollectResults`, `HandlerJobs`, `MCHandlerJobs` | pods that run the tasks of a handler; the job that the controller launches, waits for and sweeps; names used again | done |
| 9 | `Readiness` | the retry loop of the readiness task against its invariant | done |
| 10 | `HandlerJobsProofs` | what holds of the jobs for any number of them | done |
| 11 | `ExperimentLifecycleProofs` | status, jobs, wake-ups and the order of handlers, for any handlers, loops and iterations | done |
| 12 | `RunningStageProofs` | recommendation, rollback, metrics, weights and validation, for any specifications and catalogue | done |
| 13 | `TakingTurnsProofs` | exclusion on stale caches with distinct InitTimes, the refinement of `TicketLock`, no stranded waiter | done |
| 14 | `RecursiveFunctions`, `Iter8ctlProofs` | loops over sequences as recursive functions; the best version and the order of the logs, for any versions, values and lines | done |
| 15 | `ExperimentContract`, `MCLifecycle`, `ExperimentContractProofs` | abstract stage machine (handlers in order, iterations, one end), implemented by `ExperimentLifecycle` on fresh jobs | done |
| 16 | `Controller` | `TargetLock` composed with a reduced life cycle, replacing the fairness assumed of a holder's end | open |

Every invariant and action property that a passing run checks is proved. `Controller` would
add a liveness argument (that a holder ends), which only TLC could check, on a
product of two state spaces that are each explored to their bounds; until then
`life_stale` shows of one experiment what `TargetLock` assumes of every holder.

## 3. What is modelled

### Target acquisition: `TicketLock`, `TargetLock`, `MCTargetLock`

`TargetLock` has one record per experiment name: a phase and the `InitTime` in
seconds. The phase is what the lock reads of conditions: `new` (no InitTime),
`waiting`, `owner` (`TargetAcquired` and not `Completed`), `done`, and
`unborn`/`gone` around the object's life. `store` is the API server; `pending`
is the watch stream in the order of the writes; `cache` is the informer's copy;
`queue` is the work queue as a set, because a key is in it once; `released` are
the events on `ReleaseEvents`. The worker (`MaxConcurrentReconciles` is 1 by
default and not changed) holds `cur` and the `obj` it has read, and `current`
says whether the stored object still has the version that was read.

A request takes one or two steps. `Begin` is the read from the cache. One of
`InitializeStatus`, `AlreadyCompleted`, `AcquireTarget`, `KeepWaiting`,
`Proceed` or `EndExperiment` is the rest, with the status write where the code
has one. `endExperiment` writes first and then looks for the next experiment, so
`EndExperiment` leaves the worker at `trigger` and `TriggerNext` is a step of its
own, between which watch events may arrive or the process may stop. A key
without an object leads to `TriggerWaiting`. `UpdateStatus` writes if the
version is current and drops the write as a conflict otherwise. Any other failure
(`experiment_controller.go:391`) is an error that puts the key back: the object is gone, or
the API server cannot be reached, or it has written and its answer is lost. The second
status write of `endExperiment` repeats the first, and it looks for the next experiment
whatever has become of them.

Surroundings are `Create`, `Delete`, `Edit` (someone else writes the object: the
version changes), `Deliver`, `DeliverRelease`, `Wake` (timers, retries and jobs
of a holder), `Resync`, `Tick` and `Restart`. Two constants choose how bad they are:
`FreshReads` lets requests start only when all watch events have been
delivered; `CoarseClock` lets two experiments have equal InitTimes. The code
guarantees neither `FreshReads` nor distinct times: results that need them say so,
and the runs `lock_tie` and `lock_stranded` show what happens without.

`TicketLock` is what taking turns promises: join with a ticket not smaller than
the ones before, acquire when nobody holds and nobody is earlier, leave. The
refinement mapping in `MCTargetLock` reads mode and ticket off the stored objects.

### One experiment: `ExperimentLifecycle`

State: the handlers (`actions`); the stored status (`store`: stage, conditions, message, whether metrics and
StartTime are set, iterations), its watch stream and cache; the jobs in the cluster and
the job informer's copy (`jobs`, `jobCache`); the work queue bit `queued`, an armed
`RequeueAfter` (`timer`), whether the interval has passed (`elapsed`), whether the
target can be had (`free`); and the worker: `pc`, `obj`, `current`.

One pass of `Reconcile` is cut where its outcome can depend on
what happens in between: `check` (after the read of the experiment), `act` (after
the first read of the jobs; the start handler's prerequisite is the second),
`iterate` (after `setStartTimeIfNotSet`, a write of its own), `save` (after a job has
been created, before the status write). Within each part there is one action per
return of the code, in its order: the guards of later actions negate the
earlier returns through `Checking`, `Initialized`, `Started`, `Running` and
`Iterating`. `Terminate` is `finishExperiment` and `rollbackExperiment`;
`Launch` is `launchHandlerWrapper` with its error branch.

Finish, rollback and failure handlers are one job, because
`GetFinishHandler`, `GetRollbackHandler` and `GetFailureHandler` always return the same
name. Jobs are numbered in the order `checkHandlersStatus` visits them. The job informer's
additions do not enqueue anything (`experiment_controller.go:211`); updates do.

Abstractions: the analytics answer, objectives, metrics and weights are only how
the calls turn out (`Faults` lists the ones that may fail); a post that fails
altogether crashes the process (`main.go:77`), which is `Restart`; the wording
of conditions is a small set of messages; the two writes of `endExperiment`
and of the first request are one each, since nothing tells them apart. A status write that
fails other than by a conflict (`WriteFails`, fault `"status"`) returns an error, and the key is
back in the queue although nothing was written; jobs may have been created before.
`sufficientTimePassedSincePreviousIteration` is decided by `elapsed` for the stored
`LastUpdateTime` and left open for an older one.

`actions` is the set of keys of `spec.strategy.actions`, chosen at the start: a handler
without actions is no handler (`GetHandler`).

`FreshJobs` lets requests start only when the job cache shows every job the controller
has created (their later states may still be old); `FreshStatus` does the same for
the status. Neither is guaranteed by the code.

### What the user is promised: `ExperimentContract`, `MCLifecycle`

`ExperimentContract` is the life of an experiment as its user sees it: the stage, the iterations
counted, whether it failed, what the `Completed` condition says, and the state of
each handler. It has no requests, copies, retries or restarts. Each action
says when a change may happen: a handler starts only while no other runs, none has failed
and the finish handler has not started; an iteration is counted between handlers, the last
one of a loop once the loop's handler has started; the experiment ends in one of seven
ways, each with what must be true of iterations and handlers then.

`MCLifecycle` maps the life cycle to it: the stored status and the jobs are what the
user sees. Everything in a request that neither writes nor creates a job is a stutter; a
launch is a step of its own because the job exists before the status says so. So the
contract's `Iterate` for the last iteration of a loop finds the loop's handler started, however far it has
come. `LateLaunches` weakens the contract where the code's promise is weaker: on a
stale status a handler may start for an experiment that has already ended. It is
`~FreshStatus`; section 4 describes how that happens.

### What a running experiment does to the cluster: `RunningStage` and its parts

`ExperimentLifecycle` treats metrics, weights and analysis as calls that
succeed or fail. `RunningStage` is the complement: it opens those calls and
reduces handlers and counting to the question when they have ended. The first loop
handler (`loopJob`) is launched before the status is written, so it may end while its
iteration is not stored yet, or never will be.

- `ExperimentSpec` (definitions only): the specification of an experiment, its
  defaults (`defaults.go`) and the rules of validation (`validatation.go`).
- `MetricsReader`: `catalog` are the metric objects, `found` the code's
  `metricsCache`, `todo` the references that the recursion still has before
  it. One step is one read; metrics may be deleted between two.
- `WeightControl`: `actual` are the weights in the objects, `patches` the map
  of `redistributeWeight`, `unread` and `seen` the progress of
  `updateObservedWeights`. One step is one request to the API server; others may
  change a weight between any two, and a patch may fail. `addPatch` turns a field path into
  a JSON pointer (`weights.go:127`) that only reaches fields without an index at their end,
  and the server refuses a whole patch for one that reaches nothing: `Applicable` are the
  weights that change. `WeightsConverge` asks only for those (`PatchedFields`).
- `RunningStage`: the stored experiment, its watch stream and cache, and the
  worker (`pc`, `obj`, `current`). Its actions follow `Reconcile` from
  `check` over `act` to `iterate`, `patch` and `observe`, with one
  action per return. An analysis gives all traffic to one version or forgets
  the last version, has a winner or none, and says which objective some version
  fails; `satisfiesObjectives` is assumed to have an entry per objective, which
  `doIteration` asks for in a comment (`iterate.go:98`) and does not check.
- `MCRunning`: twelve specifications: a canary with its weights in two objects and a
  circle of metrics, a blue-green A/B experiment with one missing reference,
  two with nothing but weights, one whose weight is the last entry of a list, which patches
  do not reach, an A/B/N one with three versions,
  fixed split and unweighted ones without references, a conformance
  experiment, and three invalid ones. `versionInfo` may be there from the
  start or come later; nothing else of a specification changes.

The names of versions, objects that carry weights, namespaces and metrics are
constants, so that the theorems know what a specification is made of.

The deployment pattern is dereferenced in `updateObservedWeights` although its
default is filled in later in the same request when weights are observed after
a loop. `NoNilPattern` shows that this is never reached: a loop handler is launched only
by an iteration whose weights have been observed, which has shown that the references suffice.

### iter8ctl: `Iter8ctl`

Definitions; the properties of them are in `MCRunning` and are about the experiments of
the run `running`: for whatever values an analysis has of the versions, the best version
(`GetAnnotatedMetricStrs`) is the first unbeaten one, and the logs (`Debug`) of the
handlers that have run come out filtered, each once and by precedence. `Logs` is the loop over
the lines, which sorts after each. `Sort` is what `sort.Sort` of Go 1.16 (`go.mod`) does with up
to twelve of them: one pass that exchanges entries six apart (`Shell`), then insertion sort, in
which each entry sinks to its `Place`. The pass does nothing to fewer than seven lines, and then
those of one precedence stay in the order in which they were written, as the comment at
`debug.go:33` wants; from seven on they may change places. `InOrder` says so, and the run has blocks of
seven and twelve lines beside the short sequences. Beyond twelve lines Go sorts by quicksort, with a comparison
that looks at positions; that is not modelled. A line's precedence is
the same for the last loop handler and the finish handler, so their logs may mix.
`PromotedIsWinner` relates `assert` to the stored experiments.

### Handler jobs and their pods: `TaskRunner`, `HandlerJobs`, `CollectResults`

`HandlerJobs` has one name under which experiments are created and deleted,
and the one handler job it gives rise to. `inc` tells the experiments apart,
and jobs are numbered as they are created; the code can do neither, so `takenBy` and
`remains` only serve the properties. `named` is the job that has the name now,
`jobCache` what the job informer shows. `LaunchHandler` takes a job of that name that
exists already for its own; `Sweep` and `DeleteJob` are
`cleanupDeletedExperiments`, with its list and its look at the experiments
(both from caches) before, and its deletion by name after whatever else
happens. Pods of a deleted job go on until they are killed.

`TaskRunner` is a pod: it reads the experiment (up to `NumAttempt` times),
makes all tasks, then runs them; `fresh` are those whose copy is the stored
version. The first task that fails ends the attempt (`FailureEndsAction`). The collect task
goes on whatever becomes of its write, since the error is dropped
(`collect.go:383`): `ResultsWritten`, with or without an answer, if the copy is fresh, or
`ResultsNotWritten`, which is possible at any time (no client, no connection, a conflict). So a job may succeed
and its results be lost, and no property says otherwise; what is stored belongs to the experiment
it was measured for (`ResultsAreItsOwn`). `RetryPod` and `DeadlineExceeded` are the
job controller's, with the limits of the template the tests deploy
(`test/handlers/handler.yaml`: `backoffLimit: 1` and `activeDeadlineSeconds`). Copies
of the experiment are modelled without results: a write only counts on a copy that
is the stored version, and then the results in it are the stored ones.

`CollectResults` is `aggregate` and the loop over the versions of a task (`Totals`). A
member of `results` in `TaskRunner` only says which job and attempt has stored something;
`AggregatesAll` in `MCHandlerJobs` gives each of them every measurement of a small set and
aggregates them one task after the other.

### `Readiness`

The two loops of the readiness task with objects that come and go. The
inner loop counts `objIndex` and looks at `ObjRefs[i]`, as the code does.

## 4. Runs

| Run | Question | Bounds | Result |
|---|---|---|---|
| `lock_fresh` | exclusion, no stranded waiter, order, refinement of `TicketLock`, with fresh reads and ties | 3 experiments, 1 target, 2 seconds, 2 events in flight | holds |
| `lock_stale` | monotone status and the refinement (which includes exclusion and order) on a stale cache, distinct InitTimes | 2 experiments, 3 seconds, 3 events | holds |
| `lock_live` | does everyone waiting get a turn, without resync? | 2 experiments, fresh reads | holds |
| `lock_tie` | exclusion with stale reads and ties | 2 experiments, 1 second | violated |
| `lock_stranded` | no stranded waiter with stale reads | 2 experiments | violated |
| `life_fresh` | the refinement of `ExperimentContract`; start handler first, no handler beside another or after a failure, true outcomes, no iteration while finishing | 2 loops of 2, four sets of handlers, fresh jobs, stale status, all seven faults | holds |
| `life_stale` | jobs before status, loop handlers on time, no stall, monotone status, completion | 2 loops of 1, all handlers, both caches stale; creating jobs, observing weights and writing the status may fail | holds |
| `life_overlap` | handlers one at a time with a stale job cache | 1 loop of 1 | violated |
| `running` | metrics, weights, recommendation, rollback; requests end and weights converge; what iter8ctl makes of it | 12 specifications, 1 event in flight, stale reads for three of them, loop handlers for four, finish handlers for two | holds |
| `rollback` | does a rollback recommend the baseline? | the same | violated |
| `jobs` | own jobs, failed tasks end actions, results are the experiment's own and kept, sums of results, sweeps, jobs end | 2 experiments under one name, 2 jobs of up to 2 pods, 1 event in flight, 3 actions | holds |
| `readiness` | `objIndex` counts good objects | 2 objects, up to 2 references, 2 retries | violated |

Why the bounds are enough to be interesting. Three experiments let a holder, the
right successor and a wrong one exist at once; two are enough for every
pairwise conflict, which is all that exclusion on a stale cache needs (the same
run with three experiments and two events also passes). Two seconds
give ties and strict order. A worker adds at most two events per request, so two
or three pending events include a cache that misses the worker's own last write and someone
else's. Two loops of two iterations distinguish the first, a middle and the last
iteration, and the last of a loop from others; with one iteration per loop every
iteration launches a handler, the worst case for jobs that are not visible yet. The
safety half of `life_stale` also passes with two loops of two. Deadlock is not checked: the
bounds on the clock and on pending events stop a behaviour that has used them
up, and a completed experiment has nothing left to do.

In `running`, two versions per experiment (three in one) are enough for a weight that is
missing, two objects that are patched one by one, and a winner that is not the
baseline; one event in flight is a cache that misses the last write, and the
specifications that may start on it are three so that the run stays small: the
behaviour on stale reads differs by whether weights are shifted, kept, or absent, and
each of the three is one of those. In `jobs`, the second experiment is the one that may
take over what the first has left; two jobs are the old and the new one; the
actions have one task each that collects, that is skipped, that cannot be
evaluated, that fails, and that cannot be made.

The violation of one property by `FreshJobs = FALSE` stands for its relatives:
`StartHandlerFirst`, `NoIterationWhenFinishing` and `SuccessIsEarned` are violated
under it as well.
With `FreshStatus = TRUE` the contract promises more (`LateLaunches` is off); that run passes too, with
all seven faults. `FailureStopsHandlers` implies `OneHandlerAtATime`, and `OutcomeIsTrue` says more
than `SuccessIsEarned`; the weaker ones are kept for `life_overlap` and for the proofs.

### What the violations show

1. `lock_tie`. Both experiments are initialised in one second; the first acquires; the
   second reads a cache in which the first is still waiting, finds nobody strictly
   earlier, and acquires. Each write is valid for its own object.
2. `lock_stranded`. The holder completes and looks for a successor in a cache that does
   not show the successor's initialisation; that successor then reads a cache in
   which the holder still holds. Nothing will reconcile it until a resync.
3. `life_overlap`. The last iteration launches the loop handler and writes the
   status; the watch event of that write arrives before the job's. The next request sees
   no running handler and no iterations left, and launches the finish handler.
4. `rollback`. In one iteration a candidate wins and is recommended; in the next it
   fails an objective that rolls the experiment back. `doIteration` returns before it derives a
   recommendation from the new analysis (`iterate.go:115` and `:131`), and the one
   at the start of the request (`experiment_controller.go:196`) is that of the old one.
   While the finish handler runs, the status recommends the failing candidate.
5. `readiness`. With two objects, the first attempt checks the first object twice and
   the task succeeds; the second is never looked at (`readiness.go:184`). Neither is `err`
   cleared, so an attempt after a failure checks nothing (`:181`), although the task
   promises that the "total number of trials" is one more than the retries (`:74`).

A handler may start late. "If experiment already completed, stop"
(`experiment_controller.go:110`) is decided on the copy that a request has read, and the
job is created before the status write that would meet the conflict (`:531`). So the first
iteration's request writes the start time, which queues another request, and then rolls
the experiment back; the other one starts before the rollback's event arrives, finds the experiment running
and no handler launched, counts an iteration in memory and launches the loop handler of an
experiment that has completed and whose target is free for the next one. TLC finds it as a violation of
`NothingStartsAfterEnd` when `FreshStatus` is `FALSE` and two loops of one iteration have a loop
handler; `EndIsQuiet` proves that it takes a stale status. It is why the contract has `LateLaunches`.

Also met while modelling, and followed by the models as the code has it: the start
job may become visible between the two reads of it in one request, which then goes on
beside it (`experiment_controller.go:123` and `:160`, against the comment at `:155`);
after a rollback an iteration may be counted in stage Finishing; when `AreTasksValid` finds an
invalid task or a job cannot be created (`experiment_controller.go:133` and `:531`), the experiment
ends without `Failed`, which `constants.go:82` defines as unable to complete, and only the
message tells: the contract has ends of their own for them; the loop handler runs after the
last loop too (`iterate.go:139` and `defaults.go:122` say it does not);
`endExperiment` does not update `CurrentWeightDistribution`, which the comment at
`experiment_controller.go:315` says it does; the computed weight of the one missing
version is negative when the others sum to more than 100 (`weights.go:361`);
`InitializeObjectives` assigns its defaults to copies (`defaults.go:317`), which does
no harm because `GetRollbackOnFailure` fills them in again; the results of a collect task
whose write fails for whatever reason are lost and the job succeeds (`collect.go:383`); a weight
with an index at the end of its field path is never patched (`weights.go:127`); the task runner
reports a failed fetch with the name of an experiment that is nil (`run.go:86`);
`readJobSpec` swallows the error of a malformed template (`handler.go:184`);
`iter8ctl` takes the last experiment of an unsorted list for the latest
(`experiment.go:120`, against `cmd/assert.go:19`). An experiment created while something
of an earlier one of its name is left (`remains`) may complete on the earlier one's job;
`HandlerRanOnIt` holds only without such remains, and is violated if the condition is dropped.

## 5. Fairness

`TargetLock`: watch and release events arrive (weak fairness). The work queue is first in,
first out, so a key that is repeatedly in the queue when the worker is idle is
eventually taken, although crashes empty the queue in between: strong fairness
of `Begin` and of the worker's steps for each key. `HolderEnds` says that
a holder's work ends, which `life_stale` shows of the life cycle. Edits by others come
to an end, since each can cost the controller a conflict, and so do writes that fail
(`FailuresEnd`), since each costs a request. There is no fairness of
`Resync` (ten hours by default) and none of `Restart`: both are allowed and never required.

`ExperimentLifecycle`: watch events, job events, timers and time arrive, jobs end
(they run a bounded list of tasks and Kubernetes bounds their retries), the worker
continues (weak fairness of `Reconcile`: the experiment's key is in the queue and
errors put it back). Edits and restarts come to an end, and so do requests that fail and leave nothing but a
key in the queue (`RequestFails`): status writes that fail, and weights that cannot be observed after a
loop, for which a request returns an error without a write (`experiment_controller.go:458`).
They are tried again for as long as that lasts, so completion really depends on it.

`RunningStage`: watch events arrive, the worker goes on, loop and finish handlers end. For
`WeightsConverge` the interference ends as well: edits, restarts, changes of weights by
others and failing patches. This is stronger than the code guarantees and as strong as the
property needs: the weights are not repaired unless an iteration with the same
recommendation sees, in a status of its own, that they differ.

`HandlerJobs`: watch and job events arrive, pods run (Kubernetes restarts them until the
limits), the worker goes on and keeps having requests for names without an experiment
(job updates and other deletions cause them). Deletions are strongly fair: one that is
tried infinitely often succeeds infinitely often; without that an API server that always refuses
would leave the job there for ever.

## 6. Proofs

### `TargetLockProofs`

For every set of experiments and targets and every bound:

| Theorem | Statement | Assumes |
|---|---|---|
| `TypeCorrect` | `Spec => []TypeOK` | `ConstantsAssumption` |
| `WatchInvariant` | `Spec => []WatchInv` | `ConstantsAssumption` |
| `FreshMutualExclusion` | `Spec => []MutualExclusion` | and `FreshReads` |
| `FreshOrder` | `Spec => AcquiresInOrder` | and `FreshReads` |
| `StatusMonotone` | `Spec => StatusNeverRegresses` | `ConstantsAssumption`, any staleness |

None of the safety properties is inductive: nothing in `MutualExclusion` connects what
the worker has read with what is stored. `WatchInv` does, in three parts.
*CacheFollowsStore*: for each experiment, the last undelivered event, or the cache if
there is none, is the stored object. *InstanceIsCurrent*: while `current` holds,
`obj` equals the stored object, so a write that takes effect is a function of what is
stored; this alone gives `StatusMonotone`. *SeesContenders*: with fresh reads, while
a reconcile is under way every stored contender is in the cache with the same record,
and any undelivered event about it carries that record too (until the worker's own
write, the others can only create, delete or edit). So what `CanAcquire` finds on the
cache holds of the store, which gives exclusion and order. Each conjunct is proved action by
action; lemmas about `Append` and `Tail` of the event sequence are stated once.

### `TakingTurnsProofs`

It extends `TargetLockProofs` to what `TargetLock` promises as a whole, again for every set of
experiments and targets and every bound, under `ConstantsAssumption`:

| Theorem | Statement | Also assumes |
|---|---|---|
| `DistinctTimesExclude` | `Spec => []MutualExclusion` | `~CoarseClock` |
| `TakenInOrder` | `Spec => AcquiresInOrder` | `FreshReads \/ ~CoarseClock` |
| `ImplementsTicketLock` | `Spec => TakesTurns` | `FreshReads \/ ~CoarseClock` |
| `NobodyStranded` | `Spec => []NoStrandedWaiter` | `FreshReads` |

The conditions are those of the runs, and `lock_tie` and `lock_stranded` show that they are needed:
with neither, two experiments run for one target; without fresh reads, a waiter may be forgotten.

On a stale cache the worker may miss contenders, so exclusion cannot come from what it
sees. It comes from what it cannot miss: events arrive in the order of the writes, and
with distinct InitTimes the order of initialisations is the order of InitTimes.
`VersionsInv` says that cache, undelivered events and stored object are versions of one
object in this order (`Later`: phases advance, an InitTime once set stays).
`InOrderOfTimes` says that whoever is shown as initialised is shown after everyone who was
initialised before; so an experiment that sees itself waiting sees all earlier
contenders, and one that it takes for gone or done is so. `HoldersFirst` follows in both
cases, fresh reads or distinct times: no stored contender was initialised before a holder of its target. From it
come exclusion (two holders would have equal times), order, and the refinement, step by step: a
write of the worker is `Join`, `Acquire` or `Leave` of `TicketLock`, a deletion is
`Leave`, and everything else a stutter.

`NoStrandedWaiter` is about the end of activity and says nothing of how it is reached.
`WakeInv` does: while somebody waits, the target is held or *due*. Due means that
the worker is about to look for the next one (`trigger`, `sweep`), that a deleted key
is still noticed and will cause such a search, or that a waiter whose turn it is
will be reconciled or is being reconciled. What makes it inductive is that a search with fresh
reads finds such a waiter (`Sight`), the least InitTime among the waiting being
attained, and that the write that makes a worker's own write fail also brings its key
back (`ConflictNoticed`).

### `HandlerJobsProofs`

For any jobs and experiments, any actions and any limits on attempts, assuming
`HandlerJobsAssumption` (numbers are numbers, an action is a sequence of tasks):

| Theorem | Statement | Rests on |
|---|---|---|
| `TypeCorrect` | `Spec => []TypeOK` | `TypeInv` |
| `FailuresEndActions` | `Spec => []FailureEndsAction` | `TypeInv` |
| `ResultsOfTheirOwn` | `Spec => []ResultsAreItsOwn` | `TypeInv`, `StoreInv`, `CopyInv` |
| `NothingTakenBack` | `Spec => StatusKept` | `TypeInv`, `StoreInv` |
| `SweepsSpare` | `Spec => SweepSparesTheLiving` | `TypeInv`, `StoreInv`, `NumbersInv`, `SweepInv` |
| `HandlerRan` | `Spec => []HandlerRanOnIt` | `TypeInv`, `StoreInv`, `SweepInv`, `OwnJobs` |

The types are not inductive: that `try` stays within its bound needs that a pod that
reads the experiment has an attempt left (`PodsInv`), and that `takenBy` has experiments
only, that the controller never acts on none. `FailureEndsAction` is inductive because it speaks of
running pods too: each has passed its tasks so far. `CopyInv` says that a running pod whose copy is the
stored version has read the experiment that is there; other pods write nothing.
`StoreInv` is the watch: it ends with the stored experiment, and a controller whose
write would go through has the stored experiment in its hands and it has not completed.
For sweeps the argument is about time. `SweepInv` says that once the controller has
*met* the experiment that is there (in its cache, in its hands, or through a job taken
for its own), nothing before its creation is on its way any more; a sweep begins
on a cache without experiment, so the one that is there has not been met, and while the
sweep is under way the controller, being one worker, cannot meet it through a job.
`NumbersInv` (experiments are numbered in order) is what makes a new one unmet.
`OwnJobs` says which jobs concern the experiment that is there (the named one, the one the
job cache shows, any whose pod runs): if nothing was left at its creation, they
have run for it or not at all, even those that a stale copy of its predecessor has launched.
A completed experiment keeps the job it has taken because sweeps spare it.
What a step does to pods, store, memory and `takenBy` is stated once each
(`Bystanders`, `Writes`, `MemoryStep`, `TakenStep`).

### `ExperimentLifecycleProofs`

For any sets of handlers, loops, iterations, bounds and faults, assuming
`ConstantsAssumption` (the bounds are numbers, handlers and faults are among those
the code knows):

| Theorem | Statement | Also assumes |
|---|---|---|
| `TypeCorrect` | `Spec => []TypeOK` | |
| `WritesAreFresh` | `Spec => [](TypeInv /\ VersionInv)` | |
| `StatusMonotone` | `Spec => StatusNeverRegresses` | |
| `JobsBeforeStatus` | `Spec => []StatusHasItsJobs` | |
| `LoopsOnTime` | `Spec => []LoopHandlersOnTime` | |
| `NothingIsLost` | `Spec => []NeverStalls` | |
| `HandlersTakeTurns` | `Spec => []OneHandlerAtATime` | `FreshJobs` |
| `StartComesFirst` | `Spec => []StartHandlerFirst` | `FreshJobs` |
| `SuccessEarned` | `Spec => []SuccessIsEarned` | `FreshJobs` |
| `FinishingIsFinal` | `Spec => NoIterationWhenFinishing` | `FreshJobs` |

The assumptions on the right are those under which the runs check the
same properties, and each is needed (see section 4). The first six hold however
stale both caches are.

Everything rests on `VersionInv`: the cache, or the last event under way to it, is
the stored status, and while `current` holds the object in the worker's hands
is the stored one, or, at `save`, the stored one after the step that created a
job. A write that takes effect is therefore a function of what is stored.
`StatusStep` says once what such a function may do (`MayWrite`): stages advance,
conditions are kept, iterations are counted by one. `JobInv` adds what a stored
or cached status says about jobs (`SavesItsJobs`, `NothingAhead`): a request
creates the job before it writes, so a status that counts on a job is never older
than the job. `TriggerInv` follows what will bring the next request (the queue, a
timer, a watch event, a job that runs), for `NothingIsLost`. With `FreshJobs`, `SeesItsJobs` says
that in a request the job cache has every job the cluster has; from it
`StartInv`, `SuccessInv` and `FinishInv` follow the order of handlers: which jobs exist
and have ended in each stage, of the stored status and of every older
copy of it.

### `ExperimentContractProofs`

It extends `ExperimentLifecycleProofs` from single properties to the promise as a whole, again for
any sets of handlers, loops, iterations, bounds and faults, under `ConstantsAssumption`:

| Theorem | Statement | Also assumes |
|---|---|---|
| `ImplementsContract` | `Spec => KeepsContract` | `FreshJobs` |
| `FailureIsLast` | `Spec => []FailureStopsHandlers` | `FreshJobs` |
| `OutcomesHold` | `Spec => []OutcomeIsTrue` | `FreshJobs` |
| `EndIsQuiet` | `Spec => NothingStartsAfterEnd` | `FreshJobs`, `FreshStatus` |

`FreshJobs` is needed: `life_overlap` breaks the contract without it. `FreshStatus` is needed for the
last one, as section 4 shows. The refinement holds with all faults,
because the contract says which ends record a failure and which do not.

The stored status alone does not determine what a step may do, since a request acts on what it
has read. `LifeInv` adds to the invariants of the previous section what the steps need.
*CopiesInv*: every copy that a request may act on, the cache, the events under way and
the object in hand, is behind the stored status, in stage and iterations, and counts on
no job that is not there. *OrderInv*: a handler that runs or has failed is alone, the finish
handler is the last, the start handler the first; this holds of the jobs whatever
copy launches one, since `checkHandlersStatus` looks at the jobs and not at the status.
*FreshObj*: with an up-to-date status, what a request acts on is stored. *SaveInv*: between the launch
and the write, the object in hand is the stored one after exactly the change the job was
launched for, and nothing has been started beside it. With these, each action is matched with
one of the contract: `StepKept` has one lemma for each part of a request.

### `RunningStageProofs`

For any specifications of experiments, metric objects and number of iterations, assuming
`RunningStageAssumption` (the constants have their types):

| Theorem | Statement |
|---|---|
| `TypeCorrect` | `Spec => []TypeOK` |
| `RecommendationFollows` | `Spec => []RecommendationFollowsWinner` |
| `FailingEndsIt` | `Spec => []NoFailingIteration` |
| `PromotionIsRight` | `Spec => []PromotedIsWinner` |
| `NeverNil` | `Spec => []NoNilPattern` |
| `DistributionKnown` | `Spec => []DistributionIsKnown` |
| `MetricsAreComplete` | `Spec => []MetricsComplete` |

They are parts of one inductive invariant, `StageInv`, about every copy of the experiment: stored,
under way, cached, in hand. `TypeInv` carries the types, which
need that requests only read metrics and patch weights of valid
experiments. `AnalysisInv` says which copies are *consistent*: at rest, an experiment
is not analysed before it runs, no running one has a rollback due, and the recommendation
follows the analysis, unless it has failed or is to be rolled back; the one
in hand is exempt between a new analysis and the end of the step, and at `patch` and
`observe` no rollback is due. `PatternInv` is the argument sketched in section 3: as long as the
deployment pattern is missing, no loop handler has been launched.
`DistInv` says that `updateObservedWeights` leaves no version out (each is unread, has no
reference, or is seen), so that a stored distribution has all versions. `MetricsInv` says that
the references read and those still to read cover all criteria and are closed
under `sampleSize`, which is why nothing is missing when none is left to read.

That the distribution sums to 100 is a fact about sums over versions, which is an
induction over data. Where it is needed it is proved from the recursive function
`Sums` by a least counterexample among the natural numbers (`WFMin`) instead.

### `RecursiveFunctions`, `Iter8ctlProofs` and what collect tasks add up to

The prover has no induction over sequences. Loops over a sequence are therefore written as recursive
functions of the number of rounds, and `RecursiveFunctions` proves what is needed of
them from the well-foundedness of the natural numbers: `RoundsExist` (a function with
such an equation exists and has the type that a round keeps, so `CHOOSE` picks one) and
`StepByStep` (a set of numbers up to `n` that has 0 and, with each number, the next,
has all). Both look at a least counterexample.

| Theorem | Statement |
|---|---|
| `FirstUnbeaten` | the loop of `GetAnnotatedMetricStrs` ends with the first of the versions with a value that no other beats, for any number of versions and any integer values |
| `BestMarked` | `Spec => []BestIsMarked`, for the specification of `RunningStage` and under its assumption |
| `DebugSorts` | the loop of `Debug` ends with exactly the wanted lines, each once and by precedence, and fewer than seven of them in the order in which they came where the precedence is the same, for any lines up to twelve |
| `LogsAreInOrder` | `Spec => []LogsInOrder`, for the specification of `RunningStage` and under its assumption |
| `NothingIsLostOnTheWay` (`HandlerJobsProofs`) | for any tasks, versions and return codes, each quantity of each version is the sum of what the tasks have measured of it, and the maximum the largest |
| `AggregatedAll` (`HandlerJobsProofs`) | `Spec => []AggregatesAll`, for the specification of `HandlerJobs` and under its assumption |

For the best version, `BestOfFirst` is what the loop keeps: no version visited beats the best, and
the best beats all before it. For the logs it is that the lines so far are the wanted ones of
those read, in order. `ShellRearranges` shows that the pass only changes places, and none of
fewer than seven lines; `SinkKeepsOrder` that an entry may be put behind the last one it
does not precede; `SortSorts` combines them. For the results it is,
for each version and quantity, that the total is the sum of the shares so far, and for the
maximum that it is one of those measured and no smaller than the others (`Largest`);
`AggregatedAll` adds that there are finitely many results, so that tasks can be numbered.

Of all these modules: the parts of the inductive invariants were checked by TLC, as invariants of
the runs `lock_fresh`, `lock_stale`, `life_fresh`, `life_stale`, `running` and
`jobs`, before they were proved.

### Only model-checked

Liveness (`EveryWaiterServed`, `EventuallyCompletes`, `RequestsEnd`, `WeightsConverge`,
`JobsEnd`, `SweepsClean`), which is beyond the prover (fairness and ENABLED), and the
violations. No invariant and no action property of a passing run is only model-checked.

## 7. Not modelled

Besides the modules of the plan: builders, registration and generated code have no
behaviour; configuration, logging and events to users are wording; two controller
replicas without leader election (`main.go:127`) are excluded, as the deployment runs
one; an error of a cached List or Get other than "not found" does not occur with
informers and is left out. In `TargetLock` and
`ExperimentLifecycle` a name is created once; `HandlerJobs` uses it again. Of the task
runner, templates, secrets and the outgoing calls are data; of iter8ctl, the layout
of `describe`. `Controller` of the plan is open.
