---------------------------- MODULE RunningStage ----------------------------
(***************************************************************************)
(* What an experiment that holds its target does with the cluster and the  *)
(* analytics service: from Initializing, where it reads its metrics, over  *)
(* the iterations to its end (Reconcile in experiment_controller.go and    *)
(* doIteration in iterate.go), with all the calls it makes on the way      *)
(* (modules MetricsReader and WeightControl) as steps of their own.        *)
(*                                                                         *)
(* Iterations are not counted and handlers are reduced to when they have   *)
(* ended; module ExperimentLifecycle is about those.                       *)
(***************************************************************************)
EXTENDS MetricsReader, WeightControl, FiniteSetsExt

CONSTANTS
    VersionName, WeightObject, Namespace, MetricName,
    Specs,         \* the specifications to look at
    Catalog,       \* the metric objects there are at first: from key to sampleSize
    WithLoopHandler,     \* those with a loop handler
    WithFinishHandler,   \* those with a finish and rollback handler
    WithStaleCache,      \* those whose reconciles may start on an outdated status
    Weight,        \* the weights others may set
    MaxPending     \* bound on watch events that are not delivered yet

ASSUME RunningStageAssumption ==
    /\ ExperimentNamespace \in Namespace
    /\ \A key \in DOMAIN Catalog :
          key \in Namespace \X MetricName /\ Catalog[key] \in Seq(MetricRef(Namespace, MetricName))
    /\ Specs \subseteq Specification(VersionName, WeightObject, MetricRef(Namespace, MetricName))
    /\ \A s \in Specs : HasVersionInfo(s)
    /\ WithLoopHandler \cup WithFinishHandler \cup WithStaleCache \subseteq Specs
    /\ 0 \in Weight /\ Weight \subseteq 0..100
    /\ MaxPending \in Nat \ {0}

VARIABLES
    spec,        \* spec, the versions included
    store,       \* the experiment in the API server: its status, and whether it has versions yet
    pending,     \* watch events for it on their way to the informer
    cache,       \* the informer's copy
    loopJob,     \* the first loop handler
    finishJob,   \* the finish or rollback handler
    pc,          \* where Reconcile is
    obj,         \* the experiment in memory
    current      \* the stored object is the version that was read

vars == <<spec, store, pending, cache, loopJob, finishJob, pc, obj, current,
          metricVars, weightVars>>

cluster == <<spec, loopJob, finishJob>>
server == <<store, pending>>

(* The specification as the object shows it: versionInfo may be supplied   *)
(* by the start handler or later.                                          *)
SpecOf(o) == IF o.versioned THEN spec ELSE [spec EXCEPT !.versions = <<>>]

Names == NamesOf(spec)

(* The answers of the analytics service: weights, a winner or none, and    *)
(* the objectives that some version fails.  Those looked at give all the   *)
(* traffic to one version, or forget the last; a candidate that wins is    *)
(* the one that gets the traffic, and a baseline that wins makes no        *)
(* difference to no winner; at most one objective fails.                   *)
Split(names, favourite) == [n \in names |-> IF n = favourite THEN 100 ELSE 0]

Recommendations ==
    {Split(Names, n) : n \in Names} \cup {Split(Names \ {Last(spec.versions).name}, Baseline(spec))}

Analyses ==
    {a \in [weights : Recommendations, winner : (Names \ {Baseline(spec)}) \cup {"none"},
            failing : {{}} \cup {{i} : i \in DOMAIN spec.criteria.objectives}] :
       a.winner = "none" \/ a.weights = Split(Names, a.winner)}

(* status.analysis is nil. *)
NoAnalysis == [weights |-> <<>>, winner |-> "none", failing |-> {}]

NewObject(versioned) ==
    [versioned |-> versioned, stage |-> "Initializing", metrics |-> {}, dist |-> <<>>,
     analysis |-> NoAnalysis, recommended |-> "none", failed |-> FALSE]

(* The weights that are in a field of some object, and those that patches  *)
(* reach.                                                                  *)
Fields == {v.name : v \in {u \in Range(spec.versions) : HasField(u)}}

PatchedFields ==
    {v.name : v \in {u \in Range(spec.versions) :
                        /\ HasField(u)
                        /\ \A w \in Range(spec.versions) :
                              w.ref.object = u.ref.object => w.ref.path # "indexed"}}

Init ==
    /\ spec \in Specs
    /\ \E versioned \in BOOLEAN : store = NewObject(versioned)
    /\ pending = <<>>
    /\ cache = store
    /\ loopJob = "absent"
    /\ finishJob = IF spec \in WithFinishHandler THEN "absent" ELSE "no handler"
    /\ pc = "idle"
    /\ obj = store
    /\ current = FALSE
    /\ catalog = Catalog
    /\ todo = <<>>
    /\ found = <<>>
    /\ actual = [n \in Fields |-> 0]
    /\ patches = <<>>
    /\ unread = <<>>
    /\ seen = <<>>

-----------------------------------------------------------------------------
(***************************************************************************)
(* The surroundings of the controller.                                     *)
(***************************************************************************)
Publish(o) ==
    /\ Len(pending) < MaxPending
    /\ store' = o
    /\ pending' = Append(pending, o)

(* A user or a task writes the experiment; versionInfo may come with it.   *)
Edit ==
    /\ \E versioned \in {store.versioned, TRUE} : Publish([store EXCEPT !.versioned = versioned])
    /\ current' = FALSE
    /\ UNCHANGED <<cluster, cache, pc, obj, metricVars, weightVars>>

Deliver ==
    /\ pending # <<>>
    /\ cache' = Head(pending)
    /\ pending' = Tail(pending)
    /\ UNCHANGED <<cluster, store, pc, obj, current, metricVars, weightVars>>

(* Only of interest for a metric that is still to be read.                 *)
MetricDeleted ==
    /\ pc = "read metrics"
    /\ \E key \in DOMAIN catalog \ DOMAIN found : DeleteMetric(key)
    /\ UNCHANGED <<cluster, server, cache, pc, obj, current, weightVars>>

Drift ==
    /\ \E name \in Names, weight \in Weight : DriftTo(name, weight)
    /\ UNCHANGED <<cluster, server, cache, pc, obj, current, metricVars>>

LoopHandlerCompletes ==
    /\ loopJob = "running"
    /\ loopJob' = "complete"
    /\ UNCHANGED <<spec, finishJob, server, cache, pc, obj, current, metricVars, weightVars>>

FinishHandlerEnds ==
    /\ finishJob = "running"
    /\ finishJob' \in {"complete", "failed"}
    /\ UNCHANGED <<spec, loopJob, server, cache, pc, obj, current, metricVars, weightVars>>

(* The controller stops, as it does when a post to the analytics service   *)
(* fails and leaves no response to look at.                                *)
Restart ==
    /\ pc # "idle"
    /\ cache' = store
    /\ pending' = <<>>
    /\ pc' = "idle"
    /\ obj' = store
    /\ current' = FALSE
    /\ Forget
    /\ DropWeightWork
    /\ UNCHANGED <<cluster, store>>

Surroundings ==
    \/ Edit \/ Deliver \/ MetricDeleted \/ Drift
    \/ LoopHandlerCompletes \/ FinishHandlerEnds \/ Restart

-----------------------------------------------------------------------------
(***************************************************************************)
(* How a request ends: obj has no meaning while there is none.             *)
(***************************************************************************)
Done ==
    /\ pc' = "idle"
    /\ obj' = store'
    /\ current' = FALSE

(* updateStatus: a conflict is taken for success. *)
EndRequest(o) ==
    /\ IF current THEN Publish(o) ELSE UNCHANGED server
    /\ Done
    /\ UNCHANGED finishJob

Leave ==
    /\ UNCHANGED <<server, finishJob>>
    /\ Done

(* endExperiment and failExperiment *)
End(o) == EndRequest([o EXCEPT !.stage = "Completed"])

Fail(o) == End([o EXCEPT !.failed = TRUE])

GoOn(label, o) ==
    /\ pc' = label
    /\ obj' = o
    /\ UNCHANGED <<server, current, finishJob>>

(* finishExperiment and rollbackExperiment: the handler, if there is one,  *)
(* is launched before the status is written.                               *)
Terminate(o) ==
    IF finishJob = "no handler"
      THEN End(o)
      ELSE /\ IF current THEN Publish([o EXCEPT !.stage = "Finishing"]) ELSE UNCHANGED server
           /\ finishJob' = "running"
           /\ Done

-----------------------------------------------------------------------------
Begin ==
    /\ pc = "idle"
    /\ spec \in WithStaleCache \/ pending = <<>>
    /\ pc' = "check"
    /\ obj' = cache
    /\ current' = (pending = <<>>)
    /\ UNCHANGED <<server, finishJob, metricVars, weightVars>>

(* It has completed, or a handler is running. *)
NothingToDo ==
    /\ pc = "check"
    /\ obj.stage = "Completed" \/ "running" \in {loopJob, finishJob}
    /\ Leave
    /\ UNCHANGED <<metricVars, weightVars>>

FinishHandlerEnded ==
    /\ pc = "check"
    /\ obj.stage # "Completed"
    /\ \/ finishJob = "complete" /\ End(obj)
       \/ finishJob = "failed" /\ Fail(obj)
    /\ UNCHANGED <<metricVars, weightVars>>

Active ==
    pc = "check" /\ obj.stage # "Completed" /\ finishJob \in {"no handler", "absent"}

(* A loop handler that runs may not be in the job cache yet.               *)
HandlersDone ==
    /\ Active
    /\ loopJob # "complete"
    /\ GoOn("act", obj)
    /\ UNCHANGED <<metricVars, weightVars>>

(* Every request after a loop handler has completed observes the weights   *)
(* anew; without versionInfo there is nothing to observe.                  *)
ObserveAfterLoop ==
    /\ Active
    /\ loopJob = "complete"
    /\ GoOn("observe after loop", obj)
    /\ StartObserving(SpecOf(obj))
    /\ UNCHANGED metricVars

(***************************************************************************)
(* Metrics                                                                 *)
(***************************************************************************)
StartReadingMetrics ==
    /\ pc = "act"
    /\ ShouldReadMetrics(spec, obj.metrics)
    /\ GoOn("read metrics", obj)
    /\ StartReading(spec)
    /\ UNCHANGED weightVars

ReadOneMetric ==
    /\ pc = "read metrics"
    /\ ReadMetric
    /\ GoOn("read metrics", obj)
    /\ UNCHANGED weightVars

MetricsRead ==
    /\ pc = "read metrics"
    /\ \/ AllRead /\ EndRequest([obj EXCEPT !.metrics = DOMAIN found])
       \/ MetricUnavailable /\ Fail(obj)
    /\ Forget
    /\ UNCHANGED weightVars

(***************************************************************************)
(* On to Running, and the validation of every request from then on.        *)
(***************************************************************************)
MetricsKnown == pc = "act" /\ ~ShouldReadMetrics(spec, obj.metrics)

StartRunning ==
    /\ MetricsKnown
    /\ obj.stage = "Initializing"
    /\ GoOn("observe at start", [obj EXCEPT !.stage = "Running"])
    /\ StartObserving(SpecOf(obj))
    /\ UNCHANGED metricVars

(* identfiedWinner and SetVersionRecommendedForPromotion *)
identfiedWinner(analysis) == analysis.winner

(* Mutant of Recommending: an earlier recommendation is kept.              *)
RecommendingOnce(o) ==
    LET winner == identfiedWinner(o.analysis)
    IN  [o EXCEPT !.recommended =
            IF @ # "none" THEN @ ELSE IF winner = "none" THEN Baseline(spec) ELSE winner]

Recommending(o) ==
    LET winner == identfiedWinner(o.analysis)
    IN  [o EXCEPT !.recommended = IF winner = "none" THEN Baseline(spec) ELSE winner]

ValidateVersions ==
    /\ MetricsKnown
    /\ obj.stage # "Initializing"
    /\ IF IsVersionInfoValid(SpecOf(obj))
         THEN GoOn("iterate", Recommending(obj))
         ELSE Fail(obj)
    /\ UNCHANGED <<metricVars, weightVars>>

(***************************************************************************)
(* Iterations                                                              *)
(***************************************************************************)

(* versionsMustRollback: some version fails an objective that is meant to  *)
(* roll the experiment back.                                               *)
mustRollback(s, analysis) ==
    \E i \in analysis.failing :
        GetRollbackOnFailure(s.criteria.objectives[i], GetDeploymentPattern(s))

(* Mutant of GoesOn: decided before the new analysis is recorded.          *)
GoesOnBefore(analysis) == ~mustRollback(spec, obj.analysis)

GoesOn(analysis) == ~mustRollback(spec, analysis)

(* As many iterations as wanted have been made. *)
FinishExperiment ==
    /\ pc = "iterate"
    /\ Terminate(obj)
    /\ UNCHANGED <<metricVars, weightVars>>

InvokeFails ==
    /\ pc = "iterate"
    /\ Fail(obj)
    /\ UNCHANGED <<metricVars, weightVars>>

Invoked(analysis) == [obj EXCEPT !.analysis = analysis]

RollbackExperiment ==
    /\ pc = "iterate"
    /\ \E analysis \in Analyses :
          mustRollback(spec, analysis) /\ Terminate(Invoked(analysis))
    /\ UNCHANGED <<metricVars, weightVars>>

RedistributeWeight ==
    /\ pc = "iterate"
    /\ shouldRedistribute(spec)
    /\ \E analysis \in Analyses :
          /\ GoesOn(analysis)
          /\ IF RecommendationMissing(spec, analysis.weights)
               THEN Fail(Invoked(analysis)) /\ UNCHANGED weightVars
               ELSE /\ GoOn("patch", Invoked(analysis))
                    /\ StartPatching(spec, analysis.weights, obj.dist)
    /\ UNCHANGED metricVars

KeepWeights ==
    /\ pc = "iterate"
    /\ ~shouldRedistribute(spec)
    /\ \E analysis \in Analyses :
          GoesOn(analysis) /\ GoOn("observe", Invoked(analysis))
    /\ StartObserving(spec)
    /\ UNCHANGED metricVars

ApplyPatch ==
    /\ pc = "patch"
    /\ \E object \in DOMAIN patches : PatchWeight(object)
    /\ GoOn("patch", obj)
    /\ UNCHANGED metricVars

LosePatch ==
    /\ pc = "patch"
    /\ \E object \in DOMAIN patches : PatchFails(object)
    /\ GoOn("patch", obj)
    /\ UNCHANGED metricVars

Redistributed ==
    /\ pc = "patch"
    /\ AllPatched
    /\ GoOn("observe", obj)
    /\ StartObserving(spec)
    /\ UNCHANGED metricVars

(***************************************************************************)
(* The weights are observed in three places.                               *)
(***************************************************************************)
Observing == pc \in {"observe after loop", "observe at start", "observe"}

ObserveOne ==
    /\ Observing
    /\ ObserveWeight(SpecOf(obj))
    /\ GoOn(pc, obj)
    /\ UNCHANGED metricVars

(* The defaults are filled in only after the handlers have been checked.   *)
SpecObserved ==
    IF pc = "observe after loop" THEN SpecOf(obj) ELSE InitializeSpec(SpecOf(obj))

WeightsKnown == Observing /\ Observed /\ ~DistributionUnknown(SpecObserved)

(* Mutant of NewDistribution: what was recommended is taken for what is.   *)
AssumedDistribution ==
    IF SpecOf(obj).versions = <<>> THEN obj.dist
    ELSE [i \in DOMAIN spec.versions |->
            LET n == spec.versions[i].name
            IN  [name |-> n, value |-> IF n \in DOMAIN obj.analysis.weights
                                         THEN obj.analysis.weights[n] ELSE 0]]

NewDistribution ==
    IF SpecOf(obj).versions = <<>> THEN obj.dist ELSE ObservedDistribution(spec)

WithDistribution == [obj EXCEPT !.dist = NewDistribution]

ObservedAfterLoop ==
    /\ WeightsKnown
    /\ pc = "observe after loop"
    /\ GoOn("act", WithDistribution)
    /\ DropWeightWork
    /\ UNCHANGED metricVars

ObservedAtStart ==
    /\ WeightsKnown
    /\ pc = "observe at start"
    /\ EndRequest(WithDistribution)
    /\ DropWeightWork
    /\ UNCHANGED metricVars

(* The end of an iteration; at the end of a loop its handler is launched   *)
(* before the status is written.                                           *)
CompleteIteration ==
    /\ WeightsKnown
    /\ pc = "observe"
    /\ EndRequest(Recommending(WithDistribution))
    /\ DropWeightWork
    /\ UNCHANGED metricVars

LaunchLoopHandler ==
    /\ WeightsKnown
    /\ pc = "observe"
    /\ spec \in WithLoopHandler
    /\ loopJob = "absent"
    /\ loopJob' = "running"
    /\ GoOn("save", Recommending(WithDistribution))
    /\ DropWeightWork
    /\ UNCHANGED metricVars

SaveLaunch ==
    /\ pc = "save"
    /\ EndRequest(obj)
    /\ UNCHANGED <<metricVars, weightVars>>

(* After a loop the error is returned without a write; otherwise the       *)
(* experiment fails.                                                       *)
WeightsUnknown ==
    /\ Observing
    /\ \/ ObservationFails(SpecOf(obj))
       \/ Observed /\ DistributionUnknown(SpecObserved) /\ ~PatternMissing(SpecObserved)
    /\ IF pc = "observe after loop" THEN Leave ELSE Fail(obj)
    /\ DropWeightWork
    /\ UNCHANGED metricVars

(* The dereference of a deployment pattern that is nil. *)
NilPattern ==
    /\ Observing
    /\ Observed
    /\ PatternMissing(SpecObserved)
    /\ GoOn("panic", obj)
    /\ DropWeightWork
    /\ UNCHANGED metricVars

Reconcile ==
    /\ \/ LaunchLoopHandler
       \/ /\ \/ NothingToDo \/ FinishHandlerEnded \/ HandlersDone \/ ObserveAfterLoop
             \/ StartReadingMetrics \/ ReadOneMetric \/ MetricsRead
             \/ StartRunning \/ ValidateVersions
             \/ FinishExperiment \/ InvokeFails \/ RollbackExperiment
             \/ RedistributeWeight \/ KeepWeights \/ ApplyPatch \/ LosePatch \/ Redistributed
             \/ ObserveOne \/ ObservedAfterLoop \/ ObservedAtStart \/ CompleteIteration
             \/ SaveLaunch \/ WeightsUnknown \/ NilPattern
          /\ UNCHANGED loopJob
    /\ UNCHANGED <<spec, cache>>

Next == Surroundings \/ (Begin /\ UNCHANGED <<spec, cache, loopJob>>) \/ Reconcile

Spec == Init /\ [][Next]_vars

-----------------------------------------------------------------------------
MetricKey == DOMAIN Catalog

Dist == Seq([name : Names, value : Int])

Object ==
    [versioned : BOOLEAN, stage : {"Initializing", "Running", "Finishing", "Completed"},
     metrics : SUBSET MetricKey, dist : Dist, analysis : Analyses \cup {NoAnalysis},
     recommended : Names \cup {"none"}, failed : BOOLEAN]

(* Every variable keeps its type. *)
TypeOK ==
    /\ spec \in Specs
    /\ {store, cache, obj} \cup Range(pending) \subseteq Object
    /\ current \in BOOLEAN
    /\ loopJob \in {"absent", "running", "complete"}
    /\ finishJob \in {"no handler", "absent", "running", "complete", "failed"}
    /\ pc \in {"idle", "check", "act", "read metrics", "iterate", "patch", "observe",
               "observe at start", "observe after loop", "save", "panic"}
    /\ DOMAIN catalog \subseteq MetricKey /\ DOMAIN found \subseteq MetricKey
    /\ actual \in [Fields -> Weight \cup {100}]
    /\ \A object \in DOMAIN patches : DOMAIN patches[object] \subseteq Names
    /\ Range(unread) \subseteq DOMAIN spec.versions
    /\ seen \in Dist

(* status.metrics is all the analytics service needs: once it is stored it *)
(* has every metric the criteria name and, with a metric, the one it       *)
(* refers to by sampleSize (metrics.go, ReadMetrics), although metrics     *)
(* are read one by one while others disappear.                             *)
MetricsComplete ==
    store.metrics # {} =>
        /\ Range(NamedMetrics(spec)) \subseteq store.metrics
        /\ \A key \in store.metrics :
              \A i \in DOMAIN Catalog[key] : Key(key[1], Catalog[key][i]) \in store.metrics

(* After an iteration the recorded distribution has a weight for every     *)
(* version, and they add up to 100 if one had to be computed; only a fixed *)
(* split may leave gaps (weights.go:358, "otherwise we'll leave gaps in    *)
(* the observed weights").                                                 *)
DistributionIsKnown ==
    store.stage = "Running" /\ store.analysis # NoAnalysis =>
        LET missing == Cardinality(MissingVersions(spec))
        IN  /\ {d.name : d \in Range(store.dist)} = Names \/ (missing > 1 /\ spec.deployment = "FixedSplit")
            /\ missing = 1 => Total(store.dist) = 100

(* While it is running, an experiment recommends the winner of the stored  *)
(* analysis, or the baseline as long as there is none (status.go:105).     *)
RecommendationFollowsWinner ==
    store.stage = "Running" /\ store.recommended # "none" =>
        store.recommended =
            IF store.analysis.winner = "none" THEN Baseline(spec) ELSE store.analysis.winner

(* An experiment goes on only with versions that fail no objective meant   *)
(* to roll it back: its weights are never shifted, nor is it ever seen     *)
(* running, on an analysis that asks for a rollback.                       *)
NoFailingIteration ==
    /\ store.stage = "Running" => ~mustRollback(spec, store.analysis)
    /\ pc = "patch" => ~mustRollback(spec, obj.analysis)

(* The deployment pattern, which has a default in memory only, is never    *)
(* dereferenced while it is nil: weights are observed after a loop handler *)
(* before the defaults are filled in, but then an iteration has shown that *)
(* they suffice (weights.go:366).                                          *)
NoNilPattern == pc # "panic"

(* The comment on versionRecommendedForPromotion (experiment_types.go:306):*)
(* "Will be set to the winner ... or to the current baseline in the case   *)
(* of a rollback".  An experiment that finishes on an analysis that asks   *)
(* for a rollback recommends the baseline.                                 *)
RollbackRecommendsBaseline ==
    store.stage = "Finishing" /\ mustRollback(spec, store.analysis) =>
        store.recommended = Baseline(spec)

(***************************************************************************)
(* Fairness: the worker goes on, watch events arrive.  Edits, restarts and *)
(* changes of the weights by others come to an end, and patches stop       *)
(* failing.                                                                *)
(***************************************************************************)
InterferenceEnds == <>[][~Edit /\ ~Restart /\ ~Drift /\ ~LosePatch]_vars

Fairness ==
    /\ InterferenceEnds
    /\ WF_vars(Deliver)
    /\ WF_vars(LoopHandlerCompletes)
    /\ WF_vars(FinishHandlerEnds)
    /\ WF_vars(Begin /\ UNCHANGED <<spec, cache, loopJob>>)
    /\ WF_vars(Reconcile)

FairSpec == Spec /\ Fairness

(* Every request ends, also when metrics refer to each other in a circle.  *)
RequestsEnd == (pc # "idle") ~> (pc = "idle")

(* A patch that fails is only logged (weights.go:81) and one is skipped    *)
(* when the recorded weight, perhaps out of date, is the recommended one   *)
(* already (weights.go:122).  Still, if the recommendation stays the same, *)
(* the weights in the cluster become the recommended ones, and stay so, as *)
(* long as the experiment runs, wherever the object has no weight that is  *)
(* addressed by an index: those patches never apply.                       *)
Settled(weights) ==
    /\ store.stage = "Running" /\ store.analysis.weights = weights
    /\ pc \in {"patch", "observe"} => obj.analysis.weights = weights

WeightsConverge ==
    \A favourite \in UNION {NamesOf(s) : s \in Specs} :
        <>[](/\ favourite \in Names /\ shouldRedistribute(spec)
             /\ Settled(Split(Names, favourite)))
          => <>[](\A n \in PatchedFields : actual[n] = Split(Names, favourite)[n])

=============================================================================
