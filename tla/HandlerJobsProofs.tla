------------------------- MODULE HandlerJobsProofs -------------------------
(***************************************************************************)
(* Theorems about HandlerJobs for any number of jobs and experiments, any  *)
(* actions and any limits on attempts, and about CollectResults for any    *)
(* tasks, versions and return codes.                                       *)
(***************************************************************************)
EXTENDS MCHandlerJobs, RecursiveFunctions, FiniteSetTheorems, SequenceTheorems, TLAPS

LEMMA ConstantsOK ==
    /\ Controller \notin Job
    /\ Job \subseteq Nat
    /\ NumAttempt \in Nat /\ NumAttempt >= 1
    /\ BackoffLimit \in Nat /\ BackoffLimit >= 1
    /\ MaxExperiments \in Nat /\ MaxExperiments >= 1
    /\ Actions \subseteq Seq(Task)
BY HandlerJobsAssumption DEF Controller

-----------------------------------------------------------------------------
(***************************************************************************)
(* Pods.                                                                   *)
(***************************************************************************)

(* A pod that reads the experiment has an attempt left and is at the first *)
(* task.                                                                   *)
PodsInv ==
    /\ pods \in [Job -> Pod]
    /\ \A j \in Job : pods[j].pc = "fetch" => pods[j].try < NumAttempt /\ pods[j].next = 1

LEMMA PodTypes ==
    /\ NoPod \in Pod
    /\ \A n \in Attempt : PodIn("fetch", n) \in Pod /\ PodIn("gone", n) \in Pod
    /\ \A p \in Pod : Over(p, "error") \in Pod /\ Over(p, "done") \in Pod
    /\ \A n \in Attempt : PodIn("fetch", n).try = 0 /\ PodIn("fetch", n).next = 1
    /\ \A p : Over(p, "error").pc = "error" /\ Over(p, "done").pc = "done"
    /\ \A n : PodIn("fetch", n).pc = "fetch" /\ PodIn("gone", n).pc = "gone"
    /\ NoPod.pc = "none"
    /\ 1 \in Attempt
BY ConstantsOK DEF NoPod, PodIn, Over, Pod, Attempt

LEMMA StartedType ==
    ASSUME NEW p \in Pod, store.inc \in 0..MaxExperiments
    PROVE  Started(p) \in Pod /\ Started(p).pc = "run"
<1>. DEFINE q == [p EXCEPT !.pc = "run"]
            r == [q EXCEPT !.try = 0]
<1>1. q \in Pod /\ q.pc = "run"
  BY DEF Pod
<1>2. r \in Pod /\ r.pc = "run"
  <2>. HIDE DEF q
  <2>. QED BY <1>1, ConstantsOK DEF Pod
<1>3. [r EXCEPT !.inc = store.inc] \in Pod /\ [r EXCEPT !.inc = store.inc].pc = "run"
  <2>. HIDE DEF r
  <2>. QED BY <1>2 DEF Pod
<1>. QED BY <1>3 DEF Started

LEMMA MinAttempt ==
    ASSUME NEW n \in Attempt, n <= BackoffLimit
    PROVE  Min({n, BackoffLimit}) = n
BY ConstantsOK DEF Min, Attempt

(* A pod that has been set to something well typed.                        *)
LEMMA SetPodInv ==
    ASSUME PodsInv, NEW j \in Job, NEW p \in Pod, SetPod(j, p),
           p.pc = "fetch" => p.try < NumAttempt /\ p.next = 1
    PROVE  PodsInv'
BY DEF PodsInv, SetPod

LEMMA PodStepInv ==
    ASSUME PodsInv, NEW j \in Job, PodStep(j), store.inc \in 0..MaxExperiments
    PROVE  PodsInv'
<1>. DEFINE p == pods[j]
<1>1. p \in Pod
  BY DEF PodsInv
<1>2. CASE ReadExperiment(j)
  <2>1. Started(p) \in Pod /\ Started(p).pc = "run"
    BY <1>1, StartedType
  <2>2. Over(Started(p), "error") \in Pod /\ Over(Started(p), "error").pc = "error"
    BY <2>1, PodTypes
  <2>3. Prepared(p) \in Pod /\ Prepared(p).pc # "fetch"
    BY <2>1, <2>2 DEF Prepared
  <2>. QED BY <1>2, <2>3, SetPodInv DEF ReadExperiment
<1>3. CASE ReadFails(j)
  <2>1. p.try < NumAttempt /\ p.try \in Nat /\ p.next = 1 /\ p.pc = "fetch"
    BY <1>1, <1>3 DEF ReadFails, PodsInv, Pod
  <2>2. CASE LastTry(p.try + 1)
    BY <1>1, <1>3, <2>2, PodTypes, SetPodInv DEF ReadFails
  <2>3. CASE ~LastTry(p.try + 1)
    <3>1. p.try + 1 < NumAttempt /\ p.try + 1 \in 0..NumAttempt
      BY <2>1, <2>3, ConstantsOK DEF LastTry
    <3>2. [p EXCEPT !.try = p.try + 1] \in Pod
      BY <1>1, <3>1 DEF Pod
    <3>3. /\ [p EXCEPT !.try = p.try + 1].try = p.try + 1
          /\ [p EXCEPT !.try = p.try + 1].next = 1
      BY <1>1, <2>1 DEF Pod
    <3>. QED BY <1>3, <2>3, <3>1, <3>2, <3>3, SetPodInv DEF ReadFails
  <2>. QED BY <2>2, <2>3
<1>4. CASE SkipTask(j) \/ TaskSucceeds(j) \/ Collect(j)
  <2>1. Passed(p) \in Pod /\ Passed(p).pc = p.pc
    BY <1>1 DEF Passed, Pod
  <2>2. p.pc = "run" /\ SetPod(j, Passed(p))
    BY <1>4 DEF SkipTask, TaskSucceeds, Collect, AtTask
  <2>. QED BY <2>1, <2>2, SetPodInv
<1>5. CASE TaskFails(j)
  BY <1>1, <1>5, PodTypes, SetPodInv DEF TaskFails
<1>6. CASE ActionDone(j)
  BY <1>1, <1>6, PodTypes, SetPodInv DEF ActionDone
<1>7. CASE DeadlineExceeded(j)
  <2>1. [p EXCEPT !.attempt = BackoffLimit + 1] \in Pod
    BY <1>1, ConstantsOK DEF Pod, Attempt
  <2>. QED BY <1>7, <2>1, PodTypes, SetPodInv DEF DeadlineExceeded
<1>. QED BY <1>2, <1>3, <1>4, <1>5, <1>6, <1>7 DEF PodStep

LEMMA RetryPodInv ==
    ASSUME PodsInv, NEW j \in Job, RetryPod(j)
    PROVE  PodsInv'
<1>1. pods[j].attempt \in Attempt /\ pods[j].attempt <= BackoffLimit
  BY DEF PodsInv, Pod, RetryPod, MayRetry
<1>2. SetPod(j, PodIn("fetch", pods[j].attempt + 1))
  BY <1>1, MinAttempt DEF RetryPod
<1>3. pods[j].attempt + 1 \in Attempt
  BY <1>1, ConstantsOK DEF Attempt
<1>. QED BY <1>2, <1>3, PodTypes, ConstantsOK, SetPodInv

LEMMA PodsNext ==
    ASSUME PodsInv, store.inc \in 0..MaxExperiments, [Next]_vars
    PROVE  PodsInv'
<1>1. ASSUME NEW j \in Job, PodRuns(j)
      PROVE  PodsInv'
  BY <1>1, PodStepInv, RetryPodInv DEF PodRuns
<1>2. ASSUME NEW j \in Job, PodKilled(j)
      PROVE  PodsInv'
  BY <1>2, PodTypes, SetPodInv DEF PodKilled
<1>3. CASE LaunchHandler
  <2>1. CASE named = 0
    <3>1. created + 1 \in Job /\ SetPod(created + 1, PodIn("fetch", 1))
      BY <1>3, <2>1 DEF LaunchHandler
    <3>2. 0 < NumAttempt
      BY ConstantsOK
    <3>. QED BY <3>1, <3>2, PodTypes, SetPodInv
  <2>2. CASE named # 0
    BY <1>3, <2>2 DEF LaunchHandler, jobVars, PodsInv
  <2>. QED BY <2>1, <2>2
<1>4. CASE DeleteJob
  BY <1>4, PodTypes DEF DeleteJob, PodsInv
<1>5. CASE UNCHANGED pods
  BY <1>5 DEF PodsInv
<1>6. CASE \/ CreateExperiment \/ DeleteExperiment \/ Edit \/ Deliver \/ JobSeen \/ Restart
           \/ Begin \/ HandlerRunning \/ HandlerEnded \/ Iterate \/ SaveLaunch
           \/ Sweep \/ DeleteFails \/ UNCHANGED vars
  <2>1. UNCHANGED pods
    BY <1>6 DEF CreateExperiment, DeleteExperiment, Edit, Deliver, JobSeen, Restart, Begin,
       HandlerRunning, HandlerEnded, Iterate, SaveLaunch, Sweep, DeleteFails, vars, jobVars
  <2>. QED BY <1>5, <2>1
<1>. QED BY <1>1, <1>2, <1>3, <1>4, <1>6 DEF Next, Surroundings, Reconcile

-----------------------------------------------------------------------------
(***************************************************************************)
(* Type correctness.                                                       *)
(***************************************************************************)

(* An experiment in the controller's hands is one.                         *)
TypeInv ==
    /\ TypeOK
    /\ PodsInv
    /\ pc \in {"act", "save"} => obj.inc # 0

LEMMA TypesOfExperiments ==
    /\ NoExperiment \in Experiment
    /\ \A n \in 1..MaxExperiments : NewExperiment(n) \in Experiment
    /\ \A e \in Experiment : e.inc \in 0..MaxExperiments /\ (e.inc # 0 => e.inc \in 1..MaxExperiments)
    /\ \A e \in Experiment, s \in {"Running", "Finishing", "Completed"} :
          [e EXCEPT !.stage = s] \in Experiment
BY ConstantsOK DEF NoExperiment, NewExperiment, Experiment

LEMMA PublishType ==
    ASSUME TypeOK, NEW e \in Experiment, NEW c \in SUBSET Sample, Publish(e, c)
    PROVE  /\ store' \in Experiment /\ results' \subseteq Sample
           /\ pending' \in Seq(Experiment)
BY DEF Publish, TypeOK

LEMMA EndRequestType ==
    ASSUME TypeOK, NEW e \in Experiment, EndRequest(e, results)
    PROVE  /\ store' \in Experiment /\ results' \subseteq Sample
           /\ pending' \in Seq(Experiment)
           /\ fresh' \subseteq Job \cup {Controller}
           /\ pc' = "idle" /\ obj' = NoExperiment
<1>1. CASE Controller \in fresh
  <2>1. results \in SUBSET Sample
    BY DEF TypeOK
  <2>. QED BY <1>1, <2>1, PublishType DEF EndRequest, Goto
<1>2. CASE Controller \notin fresh
  BY <1>2 DEF EndRequest, Goto, TypeOK, serverVars
<1>. QED BY <1>1, <1>2

LEMMA JobNowType ==
    ASSUME TypeOK
    PROVE  JobNow.id \in Job \cup {0} /\ JobNow.state \in {"absent", "running", "complete", "failed"}
BY DEF TypeOK, JobNow, JobState, NoJob

LEMMA InitType == Init => TypeInv
<1>. SUFFICES ASSUME Init PROVE TypeInv
  OBVIOUS
<1>1. 1 \in 1..MaxExperiments
  BY ConstantsOK
<1>2. {store, cache, obj} \subseteq Experiment
  BY <1>1, TypesOfExperiments DEF Init
<1>3. pods \in [Job -> Pod]
  BY PodTypes DEF Init
<1>4. PodsInv
  BY <1>3, PodTypes DEF Init, PodsInv
<1>5. pending \in Seq(Experiment)
  BY DEF Init
<1>. QED BY <1>1, <1>2, <1>3, <1>4, <1>5 DEF Init, TypeInv, TypeOK, NoJob

LEMMA SurroundingsType ==
    ASSUME TypeInv, Surroundings, PodsInv'
    PROVE  TypeInv'
<1>. USE DEF TypeInv
<1>1. pods' \in [Job -> Pod]
  BY DEF PodsInv
<1>2. CASE CreateExperiment
  <2>1. incs + 1 \in 1..MaxExperiments
    BY <1>2, ConstantsOK DEF CreateExperiment, TypeOK
  <2>2. NewExperiment(incs + 1) \in Experiment
    BY <2>1, TypesOfExperiments
  <2>3. /\ store' \in Experiment /\ results' \subseteq Sample
        /\ pending' \in Seq(Experiment)
    BY <1>2, <2>2, PublishType DEF CreateExperiment
  <2>4. remains' \in BOOLEAN
    BY <1>2 DEF CreateExperiment
  <2>. QED BY <1>1, <1>2, <2>1, <2>3, <2>4 DEF CreateExperiment, TypeOK, jobVars, workerVars
<1>3. CASE DeleteExperiment
  <2>1. /\ store' \in Experiment /\ results' \subseteq Sample
        /\ pending' \in Seq(Experiment)
    BY <1>3, TypesOfExperiments, PublishType DEF DeleteExperiment
  <2>. QED
    BY <1>1, <1>3, <2>1 DEF DeleteExperiment, TypeOK, jobVars, workerVars, historyVars
<1>4. CASE Edit
  <2>1. /\ store' \in Experiment /\ results' \subseteq Sample
        /\ pending' \in Seq(Experiment)
    BY <1>4, PublishType DEF Edit, TypeOK
  <2>. QED BY <1>1, <1>4, <2>1 DEF Edit, TypeOK, jobVars, workerVars, historyVars
<1>5. CASE Deliver
  <2>1. Head(pending) \in Experiment /\ Tail(pending) \in Seq(Experiment)
    BY <1>5, HeadTailProperties DEF Deliver, TypeOK
  <2>. QED BY <1>1, <1>5, <2>1 DEF Deliver, TypeOK, jobVars, workerVars, historyVars
<1>6. CASE JobSeen
  BY <1>1, <1>6, JobNowType DEF JobSeen, TypeOK, serverVars, jobVars, workerVars, historyVars
<1>7. CASE Restart
  <2>1. <<>> \in Seq(Experiment)
    OBVIOUS
  <2>. QED
    BY <1>1, <1>7, <2>1, JobNowType, TypesOfExperiments DEF Restart, TypeOK, jobVars, historyVars
<1>8. ASSUME NEW j \in Job, PodKilled(j)
      PROVE  TypeInv'
  BY <1>1, <1>8 DEF PodKilled, TypeOK, serverVars, workerVars, historyVars
<1>9. ASSUME NEW j \in Job, PodRuns(j)
      PROVE  TypeInv'
  <2>1. /\ store' \in Experiment /\ results' \subseteq Sample
        /\ pending' \in Seq(Experiment)
        /\ fresh' \subseteq Job \cup {Controller}
        /\ action' = action
    <3>1. CASE Collect(j)
      <4>1. pods[j].attempt \in Attempt /\ pods[j].inc \in 0..MaxExperiments
        BY DEF PodsInv, Pod
      <4>2. SampleOf(j) \in Sample
        BY <4>1 DEF Sample, SampleOf
      <4>3. Aggregated(j) \in SUBSET Sample
        BY <4>2 DEF Aggregated, TypeOK
      <4>4. store \in Experiment
        BY DEF TypeOK
      <4>5. CASE ResultsWritten(j)
        BY <3>1, <4>3, <4>4, <4>5, PublishType DEF Collect, ResultsWritten
      <4>6. CASE ResultsNotWritten
        BY <3>1, <4>6 DEF Collect, ResultsNotWritten, TypeOK, serverVars
      <4>. QED BY <3>1, <4>5, <4>6 DEF Collect
    <3>2. CASE ~Collect(j)
      BY <1>9, <3>2 DEF PodRuns, PodStep, ReadExperiment, ReadFails, SkipTask, TaskFails,
         TaskSucceeds, ActionDone, DeadlineExceeded, RetryPod, TypeOK, serverVars
    <3>. QED BY <3>1, <3>2
  <2>. QED BY <1>1, <1>9, <2>1 DEF PodRuns, TypeOK, workerVars, historyVars
<1>. QED
  BY <1>2, <1>3, <1>4, <1>5, <1>6, <1>7, <1>8, <1>9 DEF Surroundings

LEMMA ReconcileType ==
    ASSUME TypeInv, Reconcile, PodsInv'
    PROVE  TypeInv'
<1>. USE DEF TypeInv
<1>1. pods' \in [Job -> Pod]
  BY DEF PodsInv
<1>2. UNCHANGED <<action, cache, jobCache, incs, remains>>
  BY DEF Reconcile
<1>3. obj.inc # 0 => obj.inc \in 1..MaxExperiments
  BY TypesOfExperiments DEF TypeOK
<1>4. CASE Begin
  BY <1>1, <1>2, <1>4 DEF Begin, TypeOK, serverVars, jobVars
<1>5. CASE HandlerRunning
  BY <1>1, <1>2, <1>5, TypesOfExperiments
     DEF HandlerRunning, Goto, TypeOK, serverVars, jobVars
<1>6. CASE HandlerEnded
  <2>1. [obj EXCEPT !.stage = "Completed"] \in Experiment
    BY TypesOfExperiments DEF TypeOK
  <2>2. takenBy' \in [Job -> SUBSET (1..MaxExperiments)]
    BY <1>3, <1>6 DEF HandlerEnded, TypeOK
  <2>. QED
    BY <1>1, <1>2, <1>6, <2>1, <2>2, EndRequestType, TypesOfExperiments
       DEF HandlerEnded, TypeOK, jobVars
<1>7. CASE Iterate
  BY <1>1, <1>2, <1>7, EndRequestType, TypesOfExperiments
     DEF Iterate, CarriedOver, TypeOK, jobVars
<1>8. CASE LaunchHandler
  <2>1. named' \in Job \cup {0} /\ created' \in Job \cup {0}
    BY <1>8 DEF LaunchHandler, jobVars, TypeOK
  <2>2. takenBy' \in [Job -> SUBSET (1..MaxExperiments)]
    BY <1>3, <1>8 DEF LaunchHandler, TypeOK
  <2>. QED
    BY <1>1, <1>2, <1>8, <2>1, <2>2 DEF LaunchHandler, Goto, TypeOK, serverVars
<1>9. CASE SaveLaunch
  <2>1. [obj EXCEPT !.stage = "Finishing"] \in Experiment
    BY TypesOfExperiments DEF TypeOK
  <2>. QED
    BY <1>1, <1>2, <1>9, <2>1, EndRequestType, TypesOfExperiments
       DEF SaveLaunch, TypeOK, jobVars
<1>10. CASE Sweep
  BY <1>1, <1>2, <1>10 DEF Sweep, Goto, TypeOK, serverVars, jobVars
<1>11. CASE DeleteJob
  <2>1. takenBy' \in [Job -> SUBSET (1..MaxExperiments)]
    BY <1>11 DEF DeleteJob, TypeOK
  <2>. QED
    BY <1>1, <1>2, <1>11, <2>1, TypesOfExperiments DEF DeleteJob, Goto, TypeOK, serverVars
<1>12. CASE DeleteFails
  BY <1>1, <1>2, <1>12, TypesOfExperiments DEF DeleteFails, Goto, TypeOK, serverVars, jobVars
<1>. QED
  BY <1>4, <1>5, <1>6, <1>7, <1>8, <1>9, <1>10, <1>11, <1>12 DEF Reconcile

LEMMA NextType == TypeInv /\ [Next]_vars => TypeInv'
<1>. SUFFICES ASSUME TypeInv, [Next]_vars PROVE TypeInv'
  OBVIOUS
<1>1. store.inc \in 0..MaxExperiments
  BY TypesOfExperiments DEF TypeInv, TypeOK
<1>2. PodsInv'
  BY <1>1, PodsNext DEF TypeInv
<1>3. CASE UNCHANGED vars
  BY <1>2, <1>3 DEF TypeInv, TypeOK, vars
<1>. QED BY <1>2, <1>3, SurroundingsType, ReconcileType DEF Next

LEMMA TypesAlways == Spec => []TypeInv
BY InitType, NextType, PTL DEF Spec

(* Every variable keeps its type in every behaviour.                       *)
THEOREM TypeCorrect == Spec => []TypeOK
<1>1. TypeInv => TypeOK
  BY DEF TypeInv
<1>. QED BY <1>1, TypesAlways, PTL

-----------------------------------------------------------------------------
(***************************************************************************)
(* What a step does to a pod.                                              *)
(***************************************************************************)

(* Unless a pod is the one that runs, it stays as it is or stops running,  *)
(* and whether it holds the stored version is not changed for the better.  *)
Bystander(j) ==
    /\ pods'[j] = pods[j] \/ pods'[j].pc \in {"fetch", "gone"}
    /\ j \in fresh' => j \in fresh /\ results \subseteq results'

LEMMA Bystanders ==
    ASSUME TypeInv, [Next]_vars, NEW j \in Job, ~PodRuns(j)
    PROVE  Bystander(j)
<1>. USE DEF Bystander
<1>1. pods \in [Job -> Pod] /\ j # Controller
  BY ConstantsOK DEF TypeInv, PodsInv
<1>2. ASSUME NEW k \in Job, PodRuns(k)
      PROVE  Bystander(j)
  <2>1. k # j
    BY <1>2
  <2>2. pods'[j] = pods[j]
    BY <1>1, <1>2, <2>1 DEF PodRuns, PodStep, SetPod, ReadExperiment, ReadFails, SkipTask,
       TaskFails, TaskSucceeds, Collect, ActionDone, DeadlineExceeded, RetryPod
  <2>3. j \in fresh' => j \in fresh /\ results' = results
    BY <1>2, <2>1 DEF PodRuns, PodStep, ReadExperiment, ReadFails, SkipTask, TaskFails,
       TaskSucceeds, Collect, ResultsWritten, ResultsNotWritten, ActionDone, DeadlineExceeded,
       RetryPod, serverVars
  <2>. QED BY <2>2, <2>3
<1>3. ASSUME NEW k \in Job, PodKilled(k)
      PROVE  Bystander(j)
  BY <1>1, <1>3, PodTypes DEF PodKilled, SetPod, serverVars
<1>4. CASE CreateExperiment \/ DeleteExperiment \/ Edit
  BY <1>4 DEF CreateExperiment, DeleteExperiment, Edit, jobVars
<1>5. CASE Deliver \/ JobSeen \/ Restart \/ UNCHANGED vars
  BY <1>5 DEF Deliver, JobSeen, Restart, vars, jobVars, serverVars
<1>6. CASE Begin \/ HandlerRunning \/ Sweep \/ DeleteFails
  BY <1>1, <1>6 DEF Begin, HandlerRunning, Sweep, DeleteFails, jobVars, serverVars
<1>7. CASE HandlerEnded \/ Iterate \/ SaveLaunch
  BY <1>7 DEF HandlerEnded, Iterate, SaveLaunch, EndRequest, jobVars, serverVars
<1>8. CASE LaunchHandler
  BY <1>1, <1>8, PodTypes DEF LaunchHandler, SetPod, jobVars, serverVars
<1>9. CASE DeleteJob
  BY <1>1, <1>9, PodTypes DEF DeleteJob, serverVars
<1>. QED
  BY <1>2, <1>3, <1>4, <1>5, <1>6, <1>7, <1>8, <1>9 DEF Next, Surroundings, Reconcile

LEMMA ActionKept == [Next]_vars => action' = action
BY DEF vars, Next, Surroundings, Reconcile, CreateExperiment, DeleteExperiment, Edit, Deliver,
   JobSeen, Restart, PodKilled, PodRuns, PodStep, ReadExperiment, ReadFails, SkipTask,
   TaskFails, TaskSucceeds, Collect, ActionDone, DeadlineExceeded, RetryPod

(* Only the collect task adds results.                                     *)
LEMMA ResultsFromCollect ==
    ASSUME [Next]_vars, \A j \in Job : ~Collect(j)
    PROVE  results' \subseteq results
<1>1. ASSUME NEW j \in Job, PodRuns(j)
      PROVE  results' \subseteq results
  BY <1>1 DEF PodRuns, PodStep, ReadExperiment, ReadFails, SkipTask, TaskFails, TaskSucceeds,
     ActionDone, DeadlineExceeded, RetryPod, serverVars
<1>2. ASSUME NEW j \in Job, PodKilled(j)
      PROVE  results' \subseteq results
  BY <1>2 DEF PodKilled, serverVars
<1>3. CASE CreateExperiment \/ DeleteExperiment \/ Edit
  BY <1>3 DEF CreateExperiment, DeleteExperiment, Edit, Publish
<1>4. CASE Deliver \/ JobSeen \/ Restart \/ UNCHANGED vars
  BY <1>4 DEF Deliver, JobSeen, Restart, vars, serverVars
<1>5. CASE Reconcile
  BY <1>5 DEF Reconcile, Begin, HandlerRunning, HandlerEnded, Iterate, LaunchHandler,
     SaveLaunch, Sweep, DeleteJob, DeleteFails, EndRequest, CarriedOver, Publish, serverVars
<1>. QED BY <1>1, <1>2, <1>3, <1>4, <1>5 DEF Next, Surroundings

-----------------------------------------------------------------------------
(***************************************************************************)
(* The first task that fails is the last one.                              *)
(***************************************************************************)

(* What FailureEndsAction says of one pod.                                 *)
PodIsSound(j) ==
    /\ pods[j].pc = "run" => SoundUpTo(pods[j].next - 1)
    /\ pods[j].pc = "done" => SoundUpTo(Len(action))

LEMMA SoundStays == [Next]_vars => \A n : SoundUpTo(n)' <=> SoundUpTo(n)
BY ActionKept DEF SoundUpTo, AllMade, MakeTask

(* A pod gets past a task only if the task's condition has a value.        *)
LEMMA TaskPassed ==
    ASSUME TypeInv, FailureEndsAction, NEW j \in Job,
           SkipTask(j) \/ TaskSucceeds(j) \/ Collect(j)
    PROVE  /\ pods'[j].pc = "run" /\ pods'[j].next = pods[j].next + 1
           /\ pods[j].next \in DOMAIN action /\ SoundUpTo(pods[j].next)
<1>1. pods \in [Job -> Pod] /\ pods[j].next \in Nat \ {0} /\ action \in Seq(Task)
  BY ConstantsOK DEF TypeInv, TypeOK, PodsInv, Pod
<1>2. pods[j].pc = "run" /\ pods[j].next <= Len(action) /\ SetPod(j, Passed(pods[j]))
  BY DEF SkipTask, TaskSucceeds, Collect, AtTask
<1>3. pods'[j].pc = "run" /\ pods'[j].next = pods[j].next + 1
  BY <1>1, <1>2 DEF SetPod, Passed, Pod
<1>4. action[pods[j].next].if # "bad"
  BY DEF SkipTask, TaskSucceeds, Collect, TaskOf
<1>5. SoundUpTo(pods[j].next - 1)
  BY <1>2 DEF FailureEndsAction
<1>6. \A i \in 1..pods[j].next : i \in 1..(pods[j].next - 1) \/ i = pods[j].next
  BY <1>1
<1>7. SoundUpTo(pods[j].next)
  BY <1>4, <1>5, <1>6 DEF SoundUpTo
<1>. QED BY <1>1, <1>2, <1>3, <1>7

LEMMA FailureNext ==
    ASSUME TypeInv, FailureEndsAction, [Next]_vars
    PROVE  FailureEndsAction'
<1>1. action' = action /\ action \in Seq(Task) /\ \A n : SoundUpTo(n)' <=> SoundUpTo(n)
  BY ActionKept, SoundStays, ConstantsOK DEF TypeInv, TypeOK
<1>2. ASSUME NEW j \in Job
      PROVE  /\ pods'[j].pc = "run" => SoundUpTo(pods'[j].next - 1)
             /\ pods'[j].pc = "done" => SoundUpTo(Len(action))
  <2>1. pods \in [Job -> Pod] /\ pods[j] \in Pod /\ pods[j].next \in Nat \ {0}
    BY DEF TypeInv, PodsInv, Pod
  <2>2. PodIsSound(j)
    BY DEF FailureEndsAction, PodIsSound
  <2>3. CASE ~PodRuns(j)
    BY <2>2, <2>3, Bystanders DEF Bystander, PodIsSound
  <2>4. CASE ReadExperiment(j)
    <3>1. pods[j].next = 1
      BY <2>4 DEF ReadExperiment, TypeInv, PodsInv
    <3>2. Started(pods[j]).next = 1 /\ Started(pods[j]).pc = "run"
      BY <2>1, <3>1 DEF Started, Pod
    <3>3. pods'[j] = Prepared(pods[j])
      BY <2>1, <2>4 DEF ReadExperiment, SetPod
    <3>4. AllMade => SoundUpTo(0)
      BY DEF SoundUpTo
    <3>. QED BY <3>2, <3>3, <3>4, PodTypes DEF Prepared
  <2>5. CASE ReadFails(j)
    <3>1. [pods[j] EXCEPT !.try = pods[j].try + 1].pc = pods[j].pc
      BY <2>1 DEF Pod
    <3>. QED BY <2>1, <2>5, <3>1, PodTypes DEF ReadFails, SetPod
  <2>6. CASE RetryPod(j) \/ DeadlineExceeded(j) \/ TaskFails(j)
    BY <2>1, <2>6, PodTypes DEF RetryPod, DeadlineExceeded, TaskFails, SetPod, PodIn, Over
  <2>7. CASE SkipTask(j) \/ TaskSucceeds(j) \/ Collect(j)
    <3>1. /\ pods'[j].pc = "run" /\ pods'[j].next = pods[j].next + 1
          /\ SoundUpTo(pods[j].next)
      BY <2>7, TaskPassed
    <3>2. pods'[j].next - 1 = pods[j].next
      BY <2>1, <3>1
    <3>. QED BY <3>1, <3>2
  <2>8. CASE ActionDone(j)
    <3>1. pods'[j].pc = "done" /\ pods[j].pc = "run" /\ pods[j].next > Len(action)
      BY <2>1, <2>8, PodTypes DEF ActionDone, SetPod
    <3>2. SoundUpTo(pods[j].next - 1)
      BY <2>2, <3>1 DEF PodIsSound
    <3>3. 1..Len(action) \subseteq 1..(pods[j].next - 1)
      BY <1>1, <2>1, <3>1
    <3>. QED BY <3>1, <3>2, <3>3 DEF SoundUpTo
  <2>. QED BY <2>3, <2>4, <2>5, <2>6, <2>7, <2>8 DEF PodRuns, PodStep
<1>3. ASSUME results' # {}
      PROVE  \E i \in DOMAIN action : action[i].kind = "collect" /\ SoundUpTo(i)
  <2>1. CASE results # {}
    BY <2>1 DEF FailureEndsAction
  <2>2. CASE results = {}
    <3>1. PICK j \in Job : Collect(j)
      BY <1>3, <2>2, ResultsFromCollect
    <3>2. pods[j].next \in DOMAIN action /\ SoundUpTo(pods[j].next)
      BY <3>1, TaskPassed
    <3>. QED BY <3>1, <3>2 DEF Collect, TaskOf
  <2>. QED BY <2>1, <2>2
<1>. QED BY <1>1, <1>2, <1>3 DEF FailureEndsAction

(* The first task that fails ends the attempt (run.go, Run in              *)
(* core/base.go): for every action, and however often the job is tried, no *)
(* task behind it is reached, no job with it succeeds, and the results     *)
(* come from tasks before it.                                              *)
THEOREM FailuresEndActions == Spec => []FailureEndsAction
<1>1. Init => FailureEndsAction
  BY PodTypes DEF Init, FailureEndsAction
<1>2. TypeInv /\ FailureEndsAction /\ [Next]_vars => FailureEndsAction'
  BY FailureNext
<1>. QED BY <1>1, <1>2, TypesAlways, PTL DEF Spec

-----------------------------------------------------------------------------
(***************************************************************************)
(* The stored experiment, the watch and the controller's memory.           *)
(***************************************************************************)

(* The watch ends with the stored experiment, and so does the memory of a  *)
(* controller that may still write it.                                     *)
StoreInv ==
    /\ pending = <<>> => cache = store
    /\ pending # <<>> => pending[Len(pending)] = store
    /\ Controller \in fresh /\ pc \in {"act", "save"} => obj = store
    /\ pc \in {"act", "save"} => obj.stage # "Completed"

(* The experiment is written again, deleted or created.                    *)
Written(e) ==
    /\ store' = e /\ pending' = Append(pending, e) /\ cache' = cache
    /\ Controller \notin fresh'
    /\ \/ e.inc = store.inc /\ incs' = incs
       \/ e.inc = 0 /\ incs' = incs
       \/ store.inc = 0 /\ e.inc = incs + 1 /\ incs' = incs + 1

Unwritten == UNCHANGED <<store, results, pending, cache, incs>>

LEMMA EndRequestWrites ==
    ASSUME TypeInv, StoreInv, pc \in {"act", "save"}, NEW e \in Experiment, NEW c,
           e.inc = obj.inc, EndRequest(e, c), UNCHANGED <<cache, incs>>
    PROVE  Unwritten \/ Written(e)
<1>1. CASE Controller \in fresh
  <2>1. e.inc = store.inc
    BY <1>1 DEF StoreInv
  <2>. QED BY <1>1, <2>1 DEF EndRequest, Publish, Written
<1>2. CASE Controller \notin fresh
  BY <1>2 DEF EndRequest, Unwritten, serverVars
<1>. QED BY <1>1, <1>2

LEMMA StageOnly ==
    ASSUME NEW e \in Experiment, NEW s \in {"Running", "Finishing", "Completed"}
    PROVE  /\ [e EXCEPT !.stage = s] \in Experiment
           /\ [e EXCEPT !.stage = s].inc = e.inc
           /\ [e EXCEPT !.stage = s].stage = s
BY DEF Experiment

LEMMA Writes ==
    ASSUME TypeInv, StoreInv, [Next]_vars
    PROVE  Unwritten \/ Deliver \/ Restart \/ \E e \in Experiment : Written(e)
<1>. DEFINE Goal == Unwritten \/ Deliver \/ Restart \/ \E e \in Experiment : Written(e)
<1>0. Controller \notin Job /\ store \in Experiment /\ obj \in Experiment
  BY ConstantsOK DEF TypeInv, TypeOK
<1>1. ASSUME NEW j \in Job, PodRuns(j)
      PROVE  Goal
  <2>1. CASE Collect(j) /\ ResultsWritten(j)
    <3>1. Controller # j
      BY <1>0
    <3>2. Written(store)
      BY <1>1, <2>1, <3>1 DEF ResultsWritten, Publish, Written, PodRuns, historyVars
    <3>. QED BY <1>0, <3>2
  <2>2. CASE ~(Collect(j) /\ ResultsWritten(j))
    BY <1>1, <2>2 DEF PodRuns, PodStep, ReadExperiment, ReadFails, SkipTask, TaskFails,
       TaskSucceeds, Collect, ResultsNotWritten, ActionDone, DeadlineExceeded, RetryPod,
       serverVars, historyVars, Unwritten
  <2>. QED BY <2>1, <2>2
<1>2. ASSUME NEW j \in Job, PodKilled(j)
      PROVE  Goal
  BY <1>2 DEF PodKilled, serverVars, historyVars, Unwritten
<1>3. CASE CreateExperiment
  <2>1. incs + 1 \in 1..MaxExperiments
    BY <1>3, ConstantsOK DEF CreateExperiment, TypeInv, TypeOK
  <2>2. NewExperiment(incs + 1) \in Experiment /\ NewExperiment(incs + 1).inc = incs + 1
    BY <2>1, TypesOfExperiments DEF NewExperiment
  <2>3. Written(NewExperiment(incs + 1))
    BY <1>3, <2>2 DEF CreateExperiment, Publish, Written
  <2>. QED BY <2>2, <2>3
<1>4. CASE DeleteExperiment
  <2>1. NoExperiment \in Experiment /\ NoExperiment.inc = 0
    BY TypesOfExperiments DEF NoExperiment, NewExperiment
  <2>2. Written(NoExperiment)
    BY <1>4, <2>1 DEF DeleteExperiment, Publish, Written, historyVars
  <2>. QED BY <2>1, <2>2
<1>5. CASE Edit
  <2>1. Written(store)
    BY <1>5 DEF Edit, Publish, Written, historyVars
  <2>. QED BY <1>0, <2>1
<1>6. CASE JobSeen \/ UNCHANGED vars
  BY <1>6 DEF JobSeen, vars, serverVars, historyVars, Unwritten
<1>7. CASE Reconcile /\ (HandlerEnded \/ Iterate \/ SaveLaunch)
  <2>1. UNCHANGED <<cache, incs>>
    BY <1>7 DEF Reconcile
  <2>2. CASE HandlerEnded
    BY <1>0, <2>1, <2>2, StageOnly, EndRequestWrites DEF HandlerEnded
  <2>3. CASE Iterate
    BY <1>0, <2>1, <2>3, EndRequestWrites DEF Iterate
  <2>4. CASE SaveLaunch
    BY <1>0, <2>1, <2>4, StageOnly, EndRequestWrites DEF SaveLaunch
  <2>. QED BY <1>7, <2>2, <2>3, <2>4
<1>8. CASE Reconcile /\ ~(HandlerEnded \/ Iterate \/ SaveLaunch)
  BY <1>8 DEF Reconcile, Begin, HandlerRunning, LaunchHandler, Sweep, DeleteJob, DeleteFails,
     serverVars, Unwritten
<1>. QED
  BY <1>1, <1>2, <1>3, <1>4, <1>5, <1>6, <1>7, <1>8 DEF Next, Surroundings

(* Where the controller is, and with what.                                 *)
LEMMA MemoryStep ==
    ASSUME TypeInv, [Next]_vars
    PROVE  \/ UNCHANGED obj /\ (pc' = pc \/ (pc = "act" /\ pc' = "save"))
           \/ Begin /\ UNCHANGED <<cache, takenBy>>
           \/ pc' = "idle" /\ obj' = NoExperiment
           \/ Sweep /\ UNCHANGED <<obj, cache, store, takenBy>> /\ pc' = "delete"
<1>1. ASSUME NEW j \in Job, PodRuns(j) \/ PodKilled(j)
      PROVE  UNCHANGED <<pc, obj>>
  BY <1>1 DEF PodRuns, PodKilled, workerVars
<1>2. CASE CreateExperiment \/ DeleteExperiment \/ Edit \/ Deliver \/ JobSeen \/ UNCHANGED vars
  BY <1>2 DEF CreateExperiment, DeleteExperiment, Edit, Deliver, JobSeen, vars, workerVars
<1>3. CASE Restart
  BY <1>3 DEF Restart
<1>4. CASE Reconcile
  BY <1>4 DEF Reconcile, HandlerRunning, HandlerEnded, Iterate, LaunchHandler, SaveLaunch,
     Begin, Sweep, DeleteJob, DeleteFails, EndRequest, Goto, serverVars
<1>. QED BY <1>1, <1>2, <1>3, <1>4 DEF Next, Surroundings

(* The controller gets hold of the stored version only by reading it.      *)
LEMMA FreshByReading ==
    ASSUME [Next]_vars, Controller \in fresh', Controller \notin Job
    PROVE  Controller \in fresh \/ Begin
<1>1. ASSUME NEW j \in Job, PodRuns(j) \/ PodKilled(j)
      PROVE  Controller \in fresh
  BY <1>1 DEF PodRuns, PodStep, ReadExperiment, ReadFails, SkipTask, TaskFails, TaskSucceeds,
     Collect, ResultsWritten, ResultsNotWritten, ActionDone, DeadlineExceeded, RetryPod, PodKilled
<1>2. CASE \/ CreateExperiment \/ DeleteExperiment \/ Edit \/ Deliver \/ JobSeen \/ Restart
           \/ UNCHANGED vars
  BY <1>2 DEF CreateExperiment, DeleteExperiment, Edit, Deliver, JobSeen, Restart, vars
<1>3. CASE Reconcile
  BY <1>3 DEF Reconcile, HandlerRunning, HandlerEnded, Iterate, LaunchHandler, SaveLaunch,
     Sweep, DeleteJob, DeleteFails, EndRequest
<1>. QED BY <1>1, <1>2, <1>3 DEF Next, Surroundings

LEMMA StoreNext ==
    ASSUME TypeInv, StoreInv, [Next]_vars
    PROVE  StoreInv'
<1>1. pending \in Seq(Experiment) /\ Controller \notin Job
  BY ConstantsOK DEF TypeInv, TypeOK
<1>2. (pending' = <<>> => cache' = store') /\ (pending' # <<>> => pending'[Len(pending')] = store')
  <2>1. CASE Unwritten
    BY <2>1 DEF Unwritten, StoreInv
  <2>2. CASE Deliver
    <3>1. store' = store /\ pending # <<>> /\ cache' = Head(pending) /\ pending' = Tail(pending)
      BY <2>2 DEF Deliver
    <3>2. CASE Len(pending) = 1
      BY <1>1, <3>1, <3>2 DEF StoreInv
    <3>3. CASE Len(pending) # 1
      <4>1. /\ Len(Tail(pending)) = Len(pending) - 1 /\ Len(pending) - 1 \in 1..Len(Tail(pending))
            /\ Tail(pending)[Len(pending) - 1] = pending[Len(pending)]
        BY <1>1, <3>1, <3>3
      <4>2. Tail(pending) # <<>>
        BY <1>1, <4>1
      <4>. QED BY <3>1, <4>1, <4>2 DEF StoreInv
    <3>. QED BY <3>2, <3>3
  <2>3. CASE Restart
    BY <2>3 DEF Restart
  <2>4. ASSUME NEW e \in Experiment, Written(e)
        PROVE  pending' # <<>> /\ pending'[Len(pending')] = store'
    <3>1. store' = e /\ pending' = Append(pending, e)
      BY <2>4 DEF Written
    <3>. QED BY <1>1, <3>1, AppendProperties
  <2>. QED BY <2>1, <2>2, <2>3, <2>4, Writes
<1>3. CASE Begin
  <2>1. pc' = "act" /\ obj' = cache /\ obj'.stage # "Completed" /\ store' = store
    BY <1>3 DEF Begin, serverVars
  <2>2. Controller \in fresh' => pending = <<>>
    BY <1>3 DEF Begin
  <2>. QED BY <1>2, <2>1, <2>2 DEF StoreInv
<1>4. CASE ~Begin
  <2>1. ASSUME pc' \in {"act", "save"}
        PROVE  UNCHANGED obj /\ pc \in {"act", "save"} /\ ~Restart
    BY <1>4, <2>1, MemoryStep DEF Restart
  <2>2. ASSUME pc' \in {"act", "save"}, Controller \in fresh'
        PROVE  obj' = store'
    <3>1. Controller \in fresh /\ obj = store
      BY <1>1, <1>4, <2>1, <2>2, FreshByReading DEF StoreInv
    <3>2. store' = store
      BY <2>1, <2>2, Writes DEF Unwritten, Deliver, Written
    <3>. QED BY <2>1, <2>2, <3>1, <3>2
  <2>. QED BY <1>2, <2>1, <2>2 DEF StoreInv
<1>. QED BY <1>3, <1>4

LEMMA StoreAlways == Spec => []StoreInv
<1>1. Init => StoreInv
  BY DEF Init, StoreInv
<1>2. TypeInv /\ StoreInv /\ [Next]_vars => StoreInv'
  BY StoreNext
<1>. QED BY <1>1, <1>2, TypesAlways, PTL DEF Spec

-----------------------------------------------------------------------------
(***************************************************************************)
(* The status is kept.                                                     *)
(***************************************************************************)
StatusIsKept ==
    store.inc # 0 /\ store'.inc = store.inc =>
        /\ results \subseteq results'
        /\ store.stage = "Finishing" => store'.stage # "Running"
        /\ store.stage = "Completed" => store'.stage = "Completed"

LEMMA EndRequestKeeps ==
    ASSUME StoreInv, pc \in {"act", "save"}, NEW e, EndRequest(e, results),
           obj.stage = "Finishing" => e.stage # "Running"
    PROVE  StatusIsKept
<1>1. CASE Controller \in fresh
  <2>1. obj = store /\ store.stage # "Completed" /\ store' = e /\ results' = results
    BY <1>1 DEF StoreInv, EndRequest, Publish
  <2>. QED BY <2>1 DEF StatusIsKept
<1>2. CASE Controller \notin fresh
  BY <1>2 DEF EndRequest, serverVars, StatusIsKept
<1>. QED BY <1>1, <1>2

LEMMA StatusKeptStep ==
    ASSUME TypeInv, StoreInv, [Next]_vars
    PROVE  StatusIsKept
<1>0. obj \in Experiment
  BY DEF TypeInv, TypeOK
<1>1. ASSUME NEW j \in Job, PodRuns(j)
      PROVE  StatusIsKept
  BY <1>1 DEF PodRuns, PodStep, ReadExperiment, ReadFails, SkipTask, TaskFails, TaskSucceeds,
     Collect, ResultsWritten, ResultsNotWritten, ActionDone, DeadlineExceeded, RetryPod,
     serverVars, Publish, Aggregated, StatusIsKept
<1>2. ASSUME NEW j \in Job, PodKilled(j)
      PROVE  StatusIsKept
  BY <1>2 DEF PodKilled, serverVars, StatusIsKept
<1>3. CASE CreateExperiment \/ DeleteExperiment \/ Edit
  BY <1>3 DEF CreateExperiment, DeleteExperiment, Edit, Publish, NoExperiment, NewExperiment,
     StatusIsKept
<1>4. CASE Deliver \/ JobSeen \/ Restart \/ UNCHANGED vars
  BY <1>4 DEF Deliver, JobSeen, Restart, vars, serverVars, StatusIsKept
<1>5. CASE Begin \/ HandlerRunning \/ LaunchHandler \/ Sweep \/ DeleteJob \/ DeleteFails
  BY <1>5 DEF Begin, HandlerRunning, LaunchHandler, Sweep, DeleteJob, DeleteFails, serverVars,
     StatusIsKept
<1>6. CASE HandlerEnded
  BY <1>0, <1>6, StageOnly, EndRequestKeeps DEF HandlerEnded
<1>7. CASE Iterate
  BY <1>7, EndRequestKeeps DEF Iterate, CarriedOver
<1>8. CASE SaveLaunch
  BY <1>0, <1>8, StageOnly, EndRequestKeeps DEF SaveLaunch
<1>. QED
  BY <1>1, <1>2, <1>3, <1>4, <1>5, <1>6, <1>7, <1>8 DEF Next, Surroundings, Reconcile

(* The collect task writes the whole status it has read when its pod       *)
(* started (collect.go:383), the controller the one it has read: neither   *)
(* takes back what the other has stored, whatever the number of either.    *)
THEOREM NothingTakenBack == Spec => StatusKept
<1>1. TypeInv /\ StoreInv /\ [Next]_vars => [StatusIsKept]_vars
  BY StatusKeptStep
<1>. QED BY <1>1, TypesAlways, StoreAlways, PTL DEF Spec, StatusKept, StatusIsKept

-----------------------------------------------------------------------------
(***************************************************************************)
(* Results are of the experiment in whose status they are.                 *)
(***************************************************************************)

(* A pod with which a write can succeed has read the experiment there is.  *)
CopyInv ==
    \A j \in Job : j \in fresh /\ pods[j].pc = "run" => pods[j].inc = store.inc

(* When another experiment takes the place of the stored one, nothing is   *)
(* left of its results, and nobody has its version yet.                    *)
LEMMA SameExperiment ==
    ASSUME TypeInv, StoreInv, [Next]_vars
    PROVE  store'.inc = store.inc \/ (results' = {} /\ fresh' = {})
<1>1. ASSUME NEW j \in Job, PodRuns(j)
      PROVE  store' = store
  BY <1>1 DEF PodRuns, PodStep, ReadExperiment, ReadFails, SkipTask, TaskFails, TaskSucceeds,
     Collect, ResultsWritten, ResultsNotWritten, ActionDone, DeadlineExceeded, RetryPod,
     serverVars, Publish
<1>2. ASSUME NEW j \in Job, PodKilled(j)
      PROVE  store' = store
  BY <1>2 DEF PodKilled, serverVars
<1>3. CASE CreateExperiment \/ DeleteExperiment
  BY <1>3 DEF CreateExperiment, DeleteExperiment, Publish
<1>4. CASE Edit \/ Deliver \/ JobSeen \/ Restart \/ UNCHANGED vars
  BY <1>4 DEF Edit, Deliver, JobSeen, Restart, vars, serverVars, Publish
<1>5. CASE Begin \/ HandlerRunning \/ LaunchHandler \/ Sweep \/ DeleteJob \/ DeleteFails
  BY <1>5 DEF Begin, HandlerRunning, LaunchHandler, Sweep, DeleteJob, DeleteFails, serverVars
<1>6. ASSUME NEW e, NEW c, EndRequest(e, c), e.inc = obj.inc, pc \in {"act", "save"}
      PROVE  store'.inc = store.inc
  BY <1>6 DEF EndRequest, Publish, StoreInv, serverVars
<1>7. CASE HandlerEnded \/ Iterate \/ SaveLaunch
  <2>1. \A t \in {"Running", "Finishing", "Completed"} : [obj EXCEPT !.stage = t].inc = obj.inc
    BY StageOnly DEF TypeInv, TypeOK
  <2>. QED BY <1>6, <1>7, <2>1 DEF HandlerEnded, Iterate, SaveLaunch
<1>. QED
  BY <1>1, <1>2, <1>3, <1>4, <1>5, <1>7 DEF Next, Surroundings, Reconcile

LEMMA CopyNext ==
    ASSUME TypeInv, StoreInv, CopyInv, [Next]_vars
    PROVE  CopyInv'
<1>. SUFFICES ASSUME NEW j \in Job, j \in fresh', pods'[j].pc = "run"
              PROVE  pods'[j].inc = store'.inc
  BY DEF CopyInv
<1>1. store'.inc = store.inc
  BY SameExperiment
<1>2. pods \in [Job -> Pod] /\ pods[j] \in Pod
  BY DEF TypeInv, PodsInv
<1>3. CASE ~PodRuns(j)
  BY <1>1, <1>3, Bystanders DEF Bystander, CopyInv
<1>4. CASE ReadExperiment(j)
  <2>1. Started(pods[j]).inc = store.inc
    BY <1>2 DEF Started, Pod
  <2>2. pods'[j] = Prepared(pods[j])
    BY <1>2, <1>4 DEF ReadExperiment, SetPod
  <2>. QED BY <1>1, <2>1, <2>2, PodTypes DEF Prepared
<1>5. CASE SkipTask(j) \/ TaskSucceeds(j) \/ Collect(j)
  <2>1. pods[j].pc = "run" /\ pods'[j].inc = pods[j].inc
    BY <1>2, <1>5 DEF SkipTask, TaskSucceeds, Collect, AtTask, SetPod, Passed, Pod
  <2>2. j \in fresh
    BY <1>5 DEF SkipTask, TaskSucceeds, Collect, ResultsWritten, ResultsNotWritten
  <2>. QED BY <1>1, <2>1, <2>2 DEF CopyInv
<1>6. CASE ReadFails(j)
  <2>1. [pods[j] EXCEPT !.try = pods[j].try + 1].pc = pods[j].pc
    BY <1>2 DEF Pod
  <2>. QED BY <1>2, <1>6, <2>1, PodTypes DEF ReadFails, SetPod
<1>7. CASE TaskFails(j) \/ ActionDone(j) \/ DeadlineExceeded(j) \/ RetryPod(j)
  BY <1>2, <1>7, PodTypes DEF TaskFails, ActionDone, DeadlineExceeded, RetryPod, SetPod, PodIn, Over
<1>. QED BY <1>3, <1>4, <1>5, <1>6, <1>7 DEF PodRuns, PodStep

LEMMA ItsOwnNext ==
    ASSUME TypeInv, StoreInv, CopyInv, ResultsAreItsOwn, [Next]_vars
    PROVE  ResultsAreItsOwn'
<1>. SUFFICES ASSUME NEW s \in results' PROVE s.inc = store'.inc
  BY DEF ResultsAreItsOwn
<1>1. store'.inc = store.inc
  BY SameExperiment
<1>2. CASE s \in results
  BY <1>1, <1>2 DEF ResultsAreItsOwn
<1>3. CASE s \notin results
  <2>1. PICK j \in Job : Collect(j)
    BY <1>3, ResultsFromCollect
  <2>2. ResultsWritten(j)
    BY <1>3, <2>1 DEF Collect, ResultsNotWritten, serverVars
  <2>3. s = SampleOf(j) /\ j \in fresh /\ pods[j].pc = "run"
    BY <1>3, <2>1, <2>2 DEF Collect, AtTask, ResultsWritten, Publish, Aggregated
  <2>. QED BY <1>1, <2>3 DEF CopyInv, SampleOf
<1>. QED BY <1>2, <1>3

(* However many experiments come and go under the name, whatever pods      *)
(* outlive them and whichever of their writes fail, the results in the     *)
(* status of an experiment were measured for it (CollectTask.Run in        *)
(* collect.go, the version of the copy it writes).                         *)
THEOREM ResultsOfTheirOwn == Spec => []ResultsAreItsOwn
<1>1. Init => CopyInv /\ ResultsAreItsOwn
  BY DEF Init, CopyInv, ResultsAreItsOwn
<1>2. TypeInv /\ StoreInv /\ CopyInv /\ ResultsAreItsOwn /\ [Next]_vars
        => CopyInv' /\ ResultsAreItsOwn'
  BY CopyNext, ItsOwnNext
<1>. QED BY <1>1, <1>2, TypesAlways, StoreAlways, PTL DEF Spec

-----------------------------------------------------------------------------
(***************************************************************************)
(* A sweep spares the experiment that is there.                            *)
(***************************************************************************)

(* The controller has come across an experiment: it has it at hand, or a   *)
(* job was taken for its own.                                              *)
Met(n) == n = cache.inc \/ n = obj.inc \/ \E j \in Job : n \in takenBy[j]

NumbersInv ==
    /\ {store.inc, cache.inc, obj.inc} \subseteq 0..incs
    /\ \A i \in 1..Len(pending) : pending[i].inc \in 0..incs
    /\ \A j \in Job : takenBy[j] \subseteq 0..incs

(* What the controller knows of the experiment that is there stays known:  *)
(* its watch never goes back behind the creation.                          *)
SweepInv ==
    /\ store.inc # 0 /\ Met(store.inc) =>
          cache.inc = store.inc /\ \A i \in 1..Len(pending) : pending[i].inc = store.inc
    /\ store.inc # 0 =>
          \A i, k \in 1..Len(pending) :
             i < k /\ pending[i].inc = store.inc => pending[k].inc = store.inc
    /\ pc = "delete" /\ store.inc # 0 => \A j \in Job : store.inc \notin takenBy[j]

LEMMA TakenStep ==
    ASSUME TypeInv, [Next]_vars, NEW j \in Job, NEW n \in takenBy'[j]
    PROVE  n \in takenBy[j] \/ (n = obj.inc /\ pc = "act" /\ pc' # "delete")
<1>0. takenBy \in [Job -> SUBSET (1..MaxExperiments)]
  BY DEF TypeInv, TypeOK
<1>1. ASSUME NEW k \in Job, PodRuns(k) \/ PodKilled(k)
      PROVE  n \in takenBy[j]
  BY <1>1 DEF PodRuns, PodKilled, historyVars
<1>2. CASE CreateExperiment \/ DeleteExperiment \/ Edit \/ Deliver \/ JobSeen \/ Restart
           \/ UNCHANGED vars
  BY <1>2 DEF CreateExperiment, DeleteExperiment, Edit, Deliver, JobSeen, Restart, vars,
     historyVars
<1>3. CASE HandlerEnded
  BY <1>0, <1>3 DEF HandlerEnded, EndRequest, Goto
<1>4. CASE LaunchHandler
  BY <1>0, <1>4 DEF LaunchHandler, Goto
<1>5. CASE DeleteJob
  BY <1>0, <1>5 DEF DeleteJob
<1>6. CASE Begin \/ HandlerRunning \/ Iterate \/ SaveLaunch \/ Sweep \/ DeleteFails
  BY <1>6 DEF Begin, HandlerRunning, Iterate, SaveLaunch, Sweep, DeleteFails
<1>. QED
  BY <1>1, <1>2, <1>3, <1>4, <1>5, <1>6 DEF Next, Surroundings, Reconcile

LEMMA MetStep ==
    ASSUME TypeInv, [Next]_vars, NEW n, n # 0, Met(n)'
    PROVE  Met(n) \/ n = cache'.inc
<1>1. ASSUME n = obj'.inc
      PROVE  Met(n)
  BY <1>1, MemoryStep DEF Begin, NoExperiment, NewExperiment, Met
<1>2. ASSUME NEW j \in Job, n \in takenBy'[j]
      PROVE  Met(n)
  BY <1>2, TakenStep DEF Met
<1>. QED BY <1>1, <1>2 DEF Met

LEMMA NumbersNext ==
    ASSUME TypeInv, StoreInv, NumbersInv, [Next]_vars
    PROVE  NumbersInv'
<1>0. /\ incs \in Nat /\ pending \in Seq(Experiment)
      /\ \A i \in 1..Len(pending) : pending[i] \in Experiment
  BY ConstantsOK, ElementOfSeq DEF TypeInv, TypeOK
<1>1. /\ incs' \in Nat /\ incs <= incs'
      /\ store'.inc \in 0..incs' /\ cache'.inc \in 0..incs'
      /\ \A i \in 1..Len(pending') : pending'[i].inc \in 0..incs'
  <2>1. CASE Unwritten
    BY <1>0, <2>1 DEF Unwritten, NumbersInv
  <2>2. CASE Deliver
    <3>1. /\ pending # <<>> /\ cache' = Head(pending) /\ pending' = Tail(pending)
          /\ store' = store /\ incs' = incs
      BY <2>2 DEF Deliver, historyVars
    <3>2. /\ Head(pending) = pending[1] /\ 1 \in 1..Len(pending)
          /\ \A i \in 1..Len(Tail(pending)) :
                Tail(pending)[i] = pending[i+1] /\ i+1 \in 1..Len(pending)
      BY <1>0, <3>1
    <3>. QED BY <1>0, <3>1, <3>2 DEF NumbersInv
  <2>3. CASE Restart
    BY <1>0, <2>3 DEF Restart, historyVars, NumbersInv
  <2>4. ASSUME NEW e \in Experiment, Written(e)
        PROVE  /\ incs' \in Nat /\ incs <= incs'
               /\ store'.inc \in 0..incs' /\ cache'.inc \in 0..incs'
               /\ \A i \in 1..Len(pending') : pending'[i].inc \in 0..incs'
    <3>1. /\ store' = e /\ pending' = Append(pending, e) /\ cache' = cache
          /\ incs' \in Nat /\ incs <= incs' /\ e.inc \in 0..incs'
      BY <1>0, <2>4 DEF Written, NumbersInv
    <3>2. \A i \in 1..Len(pending') : pending'[i] = e \/ (i \in 1..Len(pending) /\ pending'[i] = pending[i])
      BY <1>0, <3>1, AppendProperties
    <3>. QED BY <1>0, <3>1, <3>2 DEF NumbersInv
  <2>. QED BY <2>1, <2>2, <2>3, <2>4, Writes
<1>2. obj'.inc \in 0..incs'
  BY <1>0, <1>1, MemoryStep DEF Begin, NoExperiment, NewExperiment, NumbersInv
<1>3. \A j \in Job : takenBy'[j] \subseteq 0..incs'
  <2>. SUFFICES ASSUME NEW j \in Job, NEW n \in takenBy'[j]
                PROVE  n \in 0..incs'
    OBVIOUS
  <2>1. n \in 0..incs
    BY TakenStep DEF NumbersInv
  <2>. QED BY <1>0, <1>1, <2>1
<1>. QED BY <1>1, <1>2, <1>3 DEF NumbersInv

(* A sweep begins only while the experiment there is has not been met.     *)
LEMMA SweepDelete ==
    ASSUME TypeInv, SweepInv, [Next]_vars, pc' = "delete", store'.inc = store.inc, store.inc # 0
    PROVE  \A j \in Job : store'.inc \notin takenBy'[j]
<1>. SUFFICES ASSUME NEW j \in Job, store.inc \in takenBy'[j]
              PROVE  FALSE
  OBVIOUS
<1>1. store.inc \in takenBy[j]
  BY TakenStep
<1>2. pc # "delete"
  BY <1>1 DEF SweepInv
<1>3. Sweep
  BY <1>2, MemoryStep DEF Begin
<1>4. cache.inc = 0
  BY <1>3 DEF Sweep, Deleted
<1>. QED BY <1>1, <1>4 DEF SweepInv, Met

(* The name of a job becomes free by its deletion only.                    *)
LEMMA NameGivenUp ==
    ASSUME TypeInv, [Next]_vars, named # 0, named' = 0
    PROVE  pc = "delete"
<1>1. ASSUME NEW j \in Job, PodRuns(j) \/ PodKilled(j)
      PROVE  named' = named
  BY <1>1 DEF PodRuns, PodKilled
<1>2. CASE \/ CreateExperiment \/ DeleteExperiment \/ Edit \/ Deliver \/ JobSeen \/ Restart
           \/ UNCHANGED vars
  BY <1>2 DEF CreateExperiment, DeleteExperiment, Edit, Deliver, JobSeen, Restart, vars, jobVars
<1>3. CASE Reconcile
  BY <1>3 DEF Reconcile, Begin, HandlerRunning, HandlerEnded, Iterate, LaunchHandler,
     SaveLaunch, Sweep, DeleteJob, DeleteFails, jobVars
<1>. QED BY <1>1, <1>2, <1>3 DEF Next, Surroundings

LEMMA SweepNext ==
    ASSUME TypeInv, StoreInv, NumbersInv, SweepInv, [Next]_vars
    PROVE  SweepInv'
<1>0. /\ incs \in Nat /\ pending \in Seq(Experiment)
      /\ \A i \in 1..Len(pending) : pending[i] \in Experiment
  BY ConstantsOK, ElementOfSeq DEF TypeInv, TypeOK
<1>. SUFFICES ASSUME NEW n, n = store'.inc, n # 0
              PROVE  SweepInv'
  BY DEF SweepInv
<1>1. CASE Unwritten
  <2>1. n = store.inc /\ cache' = cache /\ pending' = pending
    BY <1>1 DEF Unwritten
  <2>2. Met(n)' => Met(n)
    BY <2>1, MetStep DEF Met
  <2>. QED BY <2>1, <2>2, SweepDelete DEF SweepInv, Met
<1>2. CASE Deliver
  <2>1. /\ pending # <<>> /\ cache' = Head(pending) /\ pending' = Tail(pending)
        /\ n = store.inc
    BY <1>2 DEF Deliver
  <2>2. /\ Head(pending) = pending[1] /\ 1 \in 1..Len(pending)
        /\ \A i \in 1..Len(Tail(pending)) :
              /\ Tail(pending)[i] = pending[i+1] /\ i+1 \in 1..Len(pending)
              /\ 1 < i+1
        /\ \A i, k \in 1..Len(Tail(pending)) : i < k => i+1 < k+1
    BY <1>0, <2>1
  <2>3. Met(n)' => Met(n) \/ n = pending[1].inc
    BY <2>1, <2>2, MetStep
  <2>4. Met(n)' => cache'.inc = n /\ \A i \in 1..Len(pending') : pending'[i].inc = n
    BY <2>1, <2>2, <2>3 DEF SweepInv
  <2>5. \A i, k \in 1..Len(pending') : i < k /\ pending'[i].inc = n => pending'[k].inc = n
    BY <2>1, <2>2 DEF SweepInv
  <2>. QED BY <2>1, <2>4, <2>5, SweepDelete DEF SweepInv, Met
<1>3. CASE Restart
  BY <1>3 DEF Restart, SweepInv
<1>4. ASSUME NEW e \in Experiment, Written(e)
      PROVE  SweepInv'
  <2>1. n = e.inc /\ pending' = Append(pending, e) /\ cache' = cache
    BY <1>4 DEF Written
  <2>2. /\ Len(pending') = Len(pending) + 1 /\ pending'[Len(pending) + 1] = e
        /\ \A i \in 1..Len(pending) : pending'[i] = pending[i]
        /\ \A i \in 1..Len(pending') : i \in 1..Len(pending) \/ i = Len(pending) + 1
        /\ \A i, k \in 1..Len(pending') : i < k => i \in 1..Len(pending)
    BY <1>0, <2>1, AppendProperties
  <2>3. CASE n = store.inc
    <3>1. Met(n)' => Met(n)
      BY <2>1, <2>3, MetStep DEF Met
    <3>2. Met(n)' => cache'.inc = n /\ \A i \in 1..Len(pending') : pending'[i].inc = n
      BY <2>1, <2>2, <2>3, <3>1 DEF SweepInv
    <3>3. ASSUME NEW i \in 1..Len(pending'), NEW k \in 1..Len(pending'),
                 i < k, pending'[i].inc = n
          PROVE  pending'[k].inc = n
      <4>1. i \in 1..Len(pending) /\ pending[i].inc = n
        BY <2>2, <3>3
      <4>2. CASE k \in 1..Len(pending)
        <5>1. pending[k].inc = n
          BY <2>3, <3>3, <4>1, <4>2 DEF SweepInv
        <5>. QED BY <2>2, <4>2, <5>1
      <4>3. CASE k = Len(pending) + 1
        BY <2>1, <2>2, <4>3
      <4>. QED BY <2>2, <4>2, <4>3
    <3>. QED BY <2>3, <3>2, <3>3, SweepDelete DEF SweepInv, Met
  <2>4. CASE n = incs + 1
    <3>1. ~Met(n) /\ n # cache'.inc
      BY <1>0, <2>1, <2>4 DEF Met, NumbersInv
    <3>2. ~Met(n)'
      BY <3>1, MetStep
    <3>3. \A i \in 1..Len(pending) : pending[i].inc # n
      BY <1>0, <2>4 DEF NumbersInv
    <3>4. \A i, k \in 1..Len(pending') : i < k => pending'[i].inc # n
      BY <2>2, <3>3
    <3>5. \A j \in Job : n \notin takenBy'[j]
      BY <3>2 DEF Met
    <3>. QED BY <3>2, <3>4, <3>5 DEF SweepInv, Met
  <2>. QED BY <1>4, <2>1, <2>3, <2>4 DEF Written
<1>. QED BY <1>1, <1>2, <1>3, <1>4, Writes

LEMMA SweepAlways == Spec => [](NumbersInv /\ SweepInv)
<1>1. Init => NumbersInv /\ SweepInv
  BY ConstantsOK DEF Init, NumbersInv, SweepInv, NewExperiment, NoExperiment
<1>2. TypeInv /\ StoreInv /\ NumbersInv /\ SweepInv /\ [Next]_vars => (NumbersInv /\ SweepInv)'
  BY NumbersNext, SweepNext
<1>. QED BY <1>1, <1>2, TypesAlways, StoreAlways, PTL DEF Spec

(* A sweep deletes jobs by their name, from a list that may be old, and    *)
(* decides by a cache that may be old whether their experiment is gone     *)
(* (experiment_controller.go:564); still it never deletes a job that the   *)
(* experiment there is has taken for its own, whatever comes and goes.     *)
THEOREM SweepsSpare == Spec => SweepSparesTheLiving
<1>1. TypeInv /\ SweepInv /\ [Next]_vars =>
         [named # 0 /\ named' = 0 => store.inc \notin takenBy[named]]_vars
  <2>. SUFFICES ASSUME TypeInv, SweepInv, [Next]_vars, named # 0, named' = 0
                PROVE  store.inc \notin takenBy[named]
    OBVIOUS
  <2>1. named \in Job /\ takenBy[named] \subseteq 1..MaxExperiments
    BY DEF TypeInv, TypeOK
  <2>2. pc = "delete"
    BY NameGivenUp
  <2>. QED BY <2>1, <2>2, ConstantsOK DEF SweepInv
<1>. QED BY <1>1, TypesAlways, SweepAlways, PTL DEF Spec, SweepSparesTheLiving

-----------------------------------------------------------------------------
(***************************************************************************)
(* An experiment's handler has run on it.                                  *)
(***************************************************************************)

(* The controller may still wait for the job, or its pod may still run.    *)
OfConcern(j) == j \in {named, jobCache.id} \/ Alive(j)

(* If nothing was left when the experiment that is there was created, the  *)
(* jobs of concern have run for no other one.                              *)
OwnJobs ==
    /\ jobCache.state # "absent" => jobCache.id # 0
    /\ store.inc # 0 /\ ~remains =>
          \A j \in Job : OfConcern(j) => pods[j].inc \in {0, store.inc}

LEMMA IncOf ==
    /\ \A k, a : PodIn(k, a).inc = 0
    /\ \A p, k : Over(p, k).inc = p.inc
    /\ \A p \in Pod : Passed(p).inc = p.inc /\ Prepared(p).inc = store.inc
<1>1. \A k, a : PodIn(k, a).inc = 0
  BY DEF PodIn
<1>2. \A p, k : Over(p, k).inc = p.inc
  BY DEF PodIn, Over
<1>3. ASSUME NEW p \in Pod
      PROVE  Prepared(p).inc = store.inc
  <2>1. Started(p).inc = store.inc
    BY DEF Pod, Started
  <2>. QED BY <1>2, <2>1 DEF Prepared
<1>. QED BY <1>1, <1>2, <1>3 DEF Passed, Pod

(* A pod runs for the experiment that was there when it started; a job     *)
(* that becomes one of concern has not run yet.                            *)
LEMMA PodsRunFor ==
    ASSUME TypeInv, [Next]_vars, NEW j \in Job
    PROVE  /\ pods'[j].inc \in {0, pods[j].inc, store.inc}
           /\ OfConcern(j)' => OfConcern(j) \/ pods'[j].inc = 0
<1>. DEFINE Goal == /\ pods'[j].inc \in {0, pods[j].inc, store.inc}
                    /\ OfConcern(j)' => OfConcern(j) \/ pods'[j].inc = 0
<1>0. pods \in [Job -> Pod] /\ 0 \notin Job /\ pods[j] \in Pod
  BY ConstantsOK DEF TypeInv, PodsInv, Controller
<1>1. ASSUME NEW k \in Job, PodRuns(k)
      PROVE  Goal
  <2>1. UNCHANGED <<named, jobCache>>
    BY <1>1 DEF PodRuns
  <2>2. CASE k = j
    <3>1. CASE RetryPod(j)
      BY <1>0, <1>1, <2>1, <2>2, <3>1, IncOf DEF RetryPod, SetPod, OfConcern
    <3>2. CASE PodStep(j)
      <4>1. OfConcern(j)
        BY <3>2 DEF PodStep, ReadExperiment, ReadFails, SkipTask, TaskFails, TaskSucceeds,
           Collect, ActionDone, DeadlineExceeded, AtTask, Alive, OfConcern
      <4>. DEFINE p == pods[j]
      <4>s. ASSUME NEW q, SetPod(j, q)
            PROVE  pods'[j] = q
        BY <1>0, <4>s DEF SetPod
      <4>2. ASSUME ReadExperiment(j)
            PROVE  pods'[j].inc \in {0, pods[j].inc, store.inc}
        BY <1>0, <4>s, <4>2, IncOf DEF ReadExperiment
      <4>3. ASSUME ReadFails(j)
            PROVE  pods'[j].inc \in {0, pods[j].inc, store.inc}
        <5>. DEFINE q == [p EXCEPT !.try = p.try + 1]
        <5>1. \/ SetPod(j, Over(p, "error"))
              \/ SetPod(j, q)
          BY <4>3 DEF ReadFails
        <5>2. p \in Pod
          BY <1>0
        <5>. HIDE DEF p
        <5>3. q.inc = p.inc
          BY <5>2 DEF Pod
        <5>. HIDE DEF q
        <5>4. pods'[j].inc = p.inc
          BY <4>s, <5>1, <5>3, IncOf
        <5>. QED BY <5>4 DEF p
      <4>4. ASSUME SkipTask(j) \/ TaskFails(j) \/ TaskSucceeds(j) \/ Collect(j) \/ ActionDone(j)
            PROVE  pods'[j].inc \in {0, pods[j].inc, store.inc}
        <5>1. \/ SetPod(j, Passed(p))
              \/ SetPod(j, Over(p, "error"))
              \/ SetPod(j, Over(p, "done"))
          BY <4>4 DEF SkipTask, TaskFails, TaskSucceeds, Collect, ActionDone
        <5>2. p \in Pod
          BY <1>0
        <5>. HIDE DEF p
        <5>. QED BY <4>s, <5>1, <5>2, IncOf DEF p
      <4>5. ASSUME DeadlineExceeded(j)
            PROVE  pods'[j].inc \in {0, pods[j].inc, store.inc}
        <5>. DEFINE q == [p EXCEPT !.attempt = BackoffLimit + 1]
        <5>1. SetPod(j, Over(q, "error"))
          BY <4>5 DEF DeadlineExceeded
        <5>2. p \in Pod
          BY <1>0
        <5>. HIDE DEF p
        <5>3. q.inc = p.inc
          BY <5>2 DEF Pod
        <5>. HIDE DEF q
        <5>4. pods'[j].inc = p.inc
          BY <4>s, <5>1, <5>3, IncOf
        <5>. QED BY <5>4 DEF p
      <4>. QED BY <3>2, <4>1, <4>2, <4>3, <4>4, <4>5 DEF PodStep
    <3>. QED BY <1>1, <2>2, <3>1, <3>2 DEF PodRuns
  <2>3. CASE k # j
    <3>1. pods'[j] = pods[j]
      BY <1>0, <1>1, <2>3 DEF PodRuns, PodStep, SetPod, ReadExperiment, ReadFails, SkipTask,
         TaskFails, TaskSucceeds, Collect, ActionDone, DeadlineExceeded, RetryPod
    <3>. QED BY <2>1, <3>1 DEF OfConcern, Alive
  <2>. QED BY <2>2, <2>3
<1>2. ASSUME NEW k \in Job, PodKilled(k)
      PROVE  Goal
  <2>1. pods'[j] = pods[j] \/ (pods'[j].inc = 0 /\ pods'[j].pc = "gone")
    BY <1>0, <1>2, IncOf, PodTypes DEF PodKilled, SetPod
  <2>. QED BY <1>2, <2>1 DEF PodKilled, OfConcern, Alive
<1>3. CASE CreateExperiment \/ DeleteExperiment \/ Edit \/ Deliver \/ UNCHANGED vars
  BY <1>3 DEF CreateExperiment, DeleteExperiment, Edit, Deliver, vars, jobVars, OfConcern, Alive
<1>4. CASE JobSeen \/ Restart
  <2>1. UNCHANGED <<named, pods>> /\ jobCache'.id \in {0, named}
    BY <1>4 DEF JobSeen, Restart, jobVars, JobNow, NoJob
  <2>. QED BY <1>0, <2>1 DEF OfConcern, Alive
<1>5. CASE Reconcile /\ ~LaunchHandler /\ ~DeleteJob
  <2>1. UNCHANGED <<named, pods, jobCache>>
    BY <1>5 DEF Reconcile, Begin, HandlerRunning, HandlerEnded, Iterate, SaveLaunch, Sweep,
       DeleteFails, jobVars
  <2>. QED BY <2>1 DEF OfConcern, Alive
<1>6. CASE Reconcile /\ LaunchHandler
  <2>1. jobCache' = jobCache
    BY <1>6 DEF Reconcile
  <2>2. CASE named = 0
    <3>1. pods'[j] = pods[j] \/ pods'[j].inc = 0
      BY <1>0, <1>6, <2>2, IncOf DEF LaunchHandler, SetPod
    <3>2. j = named' => pods'[j].inc = 0
      BY <1>0, <1>6, <2>2, IncOf DEF LaunchHandler, SetPod
    <3>. QED BY <2>1, <3>1, <3>2 DEF OfConcern, Alive
  <2>3. CASE named # 0
    BY <1>6, <2>1, <2>3 DEF LaunchHandler, jobVars, OfConcern, Alive
  <2>. QED BY <2>2, <2>3
<1>7. CASE Reconcile /\ DeleteJob
  <2>1. jobCache' = jobCache /\ named' = 0
    BY <1>7 DEF Reconcile, DeleteJob
  <2>2. pods'[j] = pods[j] \/ (pods'[j].inc = 0 /\ pods'[j].pc = "gone")
    BY <1>0, <1>7, IncOf, PodTypes DEF DeleteJob
  <2>. QED BY <1>0, <2>1, <2>2 DEF OfConcern, Alive
<1>. QED
  BY <1>1, <1>2, <1>3, <1>4, <1>5, <1>6, <1>7 DEF Next, Surroundings

(* Experiments come by their creation only, and complete by the end of     *)
(* their handler.                                                          *)
LEMMA Completions ==
    ASSUME TypeInv, StoreInv, [Next]_vars, store'.stage = "Completed"
    PROVE  \/ UNCHANGED <<store, remains>>
           \/ /\ HandlerEnded /\ UNCHANGED <<remains, jobCache>>
              /\ obj = store /\ store'.inc = store.inc
<1>0. store \in Experiment /\ obj \in Experiment
  BY DEF TypeInv, TypeOK
<1>1. ASSUME NEW j \in Job, PodRuns(j) \/ PodKilled(j)
      PROVE  UNCHANGED <<store, remains>>
  BY <1>1 DEF PodRuns, PodStep, ReadExperiment, ReadFails, SkipTask, TaskFails, TaskSucceeds,
     Collect, ResultsWritten, ResultsNotWritten, ActionDone, DeadlineExceeded, RetryPod, PodKilled,
     Publish, serverVars, historyVars
<1>2. ~CreateExperiment /\ ~DeleteExperiment
  BY DEF CreateExperiment, DeleteExperiment, Publish, NewExperiment, NoExperiment
<1>3. CASE Edit \/ Deliver \/ JobSeen \/ Restart \/ UNCHANGED vars
  BY <1>3 DEF Edit, Deliver, JobSeen, Restart, vars, Publish, serverVars, historyVars
<1>4. CASE Reconcile /\ HandlerEnded
  <2>1. pc = "act" /\ EndRequest([obj EXCEPT !.stage = "Completed"], results)
    BY <1>4 DEF HandlerEnded
  <2>2. CASE Controller \in fresh
    <3>1. obj = store
      BY <2>1, <2>2 DEF StoreInv
    <3>2. store' = [obj EXCEPT !.stage = "Completed"]
      BY <2>1, <2>2 DEF EndRequest, Publish
    <3>. QED BY <1>0, <1>4, <3>1, <3>2, StageOnly DEF Reconcile
  <2>3. CASE Controller \notin fresh
    BY <1>4, <2>1, <2>3 DEF Reconcile, EndRequest, serverVars
  <2>. QED BY <2>2, <2>3
<1>5. CASE Reconcile /\ Iterate
  BY <1>5 DEF Reconcile, Iterate, EndRequest, Publish, serverVars
<1>6. CASE Reconcile /\ SaveLaunch
  <2>1. [obj EXCEPT !.stage = "Finishing"].stage # "Completed"
    BY <1>0, StageOnly
  <2>. QED BY <1>6, <2>1 DEF Reconcile, SaveLaunch, EndRequest, Publish, serverVars
<1>7. CASE Reconcile /\ ~HandlerEnded /\ ~Iterate /\ ~SaveLaunch
  BY <1>7 DEF Reconcile, Begin, HandlerRunning, LaunchHandler, Sweep, DeleteJob, DeleteFails,
     serverVars
<1>. QED
  BY <1>1, <1>2, <1>3, <1>4, <1>5, <1>6, <1>7 DEF Next, Surroundings

(* A job is no longer an experiment's own only when it is deleted.         *)
LEMMA TakenStays ==
    ASSUME TypeInv, [Next]_vars, pc # "delete", NEW j \in Job
    PROVE  takenBy[j] \subseteq takenBy'[j]
<1>0. takenBy \in [Job -> SUBSET (1..MaxExperiments)]
  BY DEF TypeInv, TypeOK
<1>1. ASSUME NEW k \in Job, PodRuns(k) \/ PodKilled(k)
      PROVE  takenBy' = takenBy
  BY <1>1 DEF PodRuns, PodKilled, historyVars
<1>2. CASE \/ CreateExperiment \/ DeleteExperiment \/ Edit \/ Deliver \/ JobSeen \/ Restart
           \/ UNCHANGED vars
  BY <1>2 DEF CreateExperiment, DeleteExperiment, Edit, Deliver, JobSeen, Restart, vars,
     historyVars
<1>3. CASE Reconcile
  BY <1>0, <1>3 DEF Reconcile, Begin, HandlerRunning, HandlerEnded, Iterate, LaunchHandler,
     SaveLaunch, Sweep, DeleteJob, DeleteFails
<1>. QED BY <1>1, <1>2, <1>3 DEF Next, Surroundings

LEMMA OwnNext ==
    ASSUME TypeInv, StoreInv, OwnJobs, [Next]_vars
    PROVE  OwnJobs'
<1>1. jobCache'.state # "absent" => jobCache'.id # 0
  <2>1. jobCache' \in {jobCache, JobNow}
    BY DEF Next, Surroundings, Reconcile, CreateExperiment, DeleteExperiment, Edit, Deliver,
       JobSeen, Restart, PodKilled, PodRuns, vars
  <2>2. JobNow.state # "absent" => JobNow.id # 0
    BY DEF JobNow, NoJob
  <2>. QED BY <2>1, <2>2 DEF OwnJobs
<1>. SUFFICES ASSUME store'.inc # 0, ~remains', NEW j \in Job, OfConcern(j)'
              PROVE  pods'[j].inc \in {0, store'.inc}
  BY <1>1 DEF OwnJobs
<1>2. ~CreateExperiment
  <2>. SUFFICES ASSUME CreateExperiment
                PROVE  FALSE
    OBVIOUS
  <2>1. named = 0 /\ jobCache = NoJob /\ ~Alive(j) /\ UNCHANGED <<named, jobCache, pods>>
    BY DEF CreateExperiment, jobVars
  <2>2. 0 \notin Job
    BY ConstantsOK DEF Controller
  <2>. QED BY <2>1, <2>2 DEF OfConcern, Alive, NoJob
<1>3. UNCHANGED <<remains, incs>>
  BY <1>2 DEF Next, Surroundings, Reconcile, DeleteExperiment, Edit, Deliver, JobSeen, Restart,
     PodKilled, PodRuns, vars, historyVars
<1>4. store'.inc = store.inc
  <2>1. incs \in Nat
    BY ConstantsOK DEF TypeInv, TypeOK
  <2>. QED BY <1>3, <2>1, Writes DEF Unwritten, Deliver, Restart, Written
<1>5. OfConcern(j) => pods[j].inc \in {0, store.inc}
  BY <1>3, <1>4 DEF OwnJobs
<1>. QED BY <1>4, <1>5, PodsRunFor

LEMMA RanNext ==
    ASSUME TypeInv, StoreInv, SweepInv, OwnJobs, HandlerRanOnIt, [Next]_vars
    PROVE  HandlerRanOnIt'
<1>. SUFFICES ASSUME store'.stage = "Completed", ~remains'
              PROVE  \E j \in Job : store'.inc \in takenBy'[j] /\ pods'[j].inc \in {0, store'.inc}
  BY DEF HandlerRanOnIt
<1>0. takenBy \in [Job -> SUBSET (1..MaxExperiments)]
  BY DEF TypeInv, TypeOK
<1>1. CASE UNCHANGED <<store, remains>>
  <2>1. PICK j \in Job : store.inc \in takenBy[j] /\ pods[j].inc \in {0, store.inc}
    BY <1>1 DEF HandlerRanOnIt
  <2>2. store.inc # 0
    BY <1>0, <2>1, ConstantsOK
  <2>3. pc # "delete"
    BY <2>1, <2>2 DEF SweepInv
  <2>4. store.inc \in takenBy'[j]
    BY <2>1, <2>3, TakenStays
  <2>. QED BY <1>1, <2>1, <2>4, PodsRunFor
<1>2. CASE /\ HandlerEnded /\ UNCHANGED <<remains, jobCache>>
           /\ obj = store /\ store'.inc = store.inc
  <2>1. pc = "act" /\ Ended /\ UNCHANGED pods
    BY <1>2 DEF HandlerEnded, jobVars
  <2>2. jobCache.id \in Job
    BY <2>1 DEF Ended, OwnJobs, TypeInv, TypeOK
  <2>3. store.inc # 0
    BY <1>2, <2>1 DEF TypeInv
  <2>4. pods[jobCache.id].inc \in {0, store.inc}
    BY <1>2, <2>2, <2>3 DEF OwnJobs, OfConcern
  <2>5. store.inc \in takenBy'[jobCache.id]
    BY <1>0, <1>2, <2>2 DEF HandlerEnded
  <2>. QED BY <1>2, <2>1, <2>2, <2>4, <2>5
<1>. QED BY <1>1, <1>2, Completions

(* If nothing of an earlier experiment was left when it was created, an    *)
(* experiment that has completed has had a job of its own, whose pods ran  *)
(* for no other one, although jobs are known by their names only           *)
(* (handler.go:286) and may be swept, seen late or launched for a copy     *)
(* that is no longer there.                                                *)
THEOREM HandlerRan == Spec => []HandlerRanOnIt
<1>1. Init => OwnJobs /\ HandlerRanOnIt
  <2>. SUFFICES ASSUME Init PROVE OwnJobs /\ HandlerRanOnIt
    OBVIOUS
  <2>1. \A j \in Job : pods[j].inc = 0
    BY IncOf DEF Init, NoPod
  <2>. QED BY <2>1 DEF Init, OwnJobs, HandlerRanOnIt, NoJob, NewExperiment
<1>2. TypeInv /\ StoreInv /\ SweepInv /\ OwnJobs /\ HandlerRanOnIt /\ [Next]_vars =>
         (OwnJobs /\ HandlerRanOnIt)'
  BY OwnNext, RanNext
<1>. QED BY <1>1, <1>2, TypesAlways, StoreAlways, SweepAlways, PTL DEF Spec

-----------------------------------------------------------------------------
(***************************************************************************)
(* What collect tasks add up to, for any versions and return codes.        *)
(***************************************************************************)
Results(V, C) == UNION {[D -> Result(C)] : D \in SUBSET V}

Measurement(V, C) == [version : V, result : Result(C)]

AmountIn(totals, v, q) == IF v \in DOMAIN totals THEN Amount(totals[v], q) ELSE 0

(* S are the maxima that have been measured of v. *)
Largest(totals, v, S) ==
    /\ v \in DOMAIN totals <=> S # {}
    /\ v \in DOMAIN totals => totals[v].max \in S /\ \A x \in S : x <= totals[v].max

(* A task has added its share to what has been measured of v.              *)
Added(old, new, task, v, q) == AmountIn(new, v, q) = AmountIn(old, v, q) + Share(task, v, q)

LEMMA CodesOf ==
    ASSUME NEW C, NEW r \in Result(C)
    PROVE  /\ DOMAIN r.codes \subseteq C
           /\ r.codes \in [DOMAIN r.codes -> Nat]
           /\ \A c : Get(r.codes, c) \in Nat
<1>1. PICK D \in SUBSET C : r.codes \in [D -> Nat]
  BY DEF Result
<1>. QED BY <1>1 DEF Get

LEMMA AmountType ==
    ASSUME NEW C, NEW r \in Result(C), NEW q
    PROVE  Amount(r, q) \in Nat
<1>1. r.count \in Nat /\ r.sum \in Nat /\ r.data \in Seq(Nat)
  BY DEF Result
<1>2. Len(r.data) \in Nat
  BY <1>1, LenProperties
<1>3. Get(r.codes, q) \in Nat
  BY CodesOf
<1>. QED BY <1>1, <1>2, <1>3 DEF Amount

(* Joining two results loses nothing. *)
LEMMA JoinedAdds ==
    ASSUME NEW C, NEW a \in Result(C), NEW b \in Result(C)
    PROVE  /\ Joined(a, b) \in Result(C)
           /\ \A q \in Quantity : Amount(Joined(a, b), q) = Amount(a, q) + Amount(b, q)
           /\ Joined(a, b).max \in {a.max, b.max}
           /\ a.max <= Joined(a, b).max /\ b.max <= Joined(a, b).max
<1>. DEFINE D == DOMAIN a.codes \cup DOMAIN b.codes
            codes == [c \in D |-> Get(a.codes, c) + Get(b.codes, c)]
            max == Max({a.max, b.max})
            j == Joined(a, b)
<1>1. /\ a.count \in Nat /\ a.sum \in Nat /\ a.max \in Nat /\ a.data \in Seq(Nat)
      /\ b.count \in Nat /\ b.sum \in Nat /\ b.max \in Nat /\ b.data \in Seq(Nat)
  BY DEF Result
<1>2. codes \in [D -> Nat] /\ D \in SUBSET C
  BY CodesOf
<1>3. max \in {a.max, b.max} /\ a.max <= max /\ b.max <= max
  <2>1. \E x \in {a.max, b.max} : \A y \in {a.max, b.max} : x >= y
    BY <1>1
  <2>2. max \in {a.max, b.max} /\ \A y \in {a.max, b.max} : max >= y
    BY <2>1 DEF Max
  <2>. QED BY <1>1, <2>2
<1>4. a.data \o b.data \in Seq(Nat) /\ Len(a.data \o b.data) = Len(a.data) + Len(b.data)
  BY <1>1, ConcatProperties
<1>5. \A c : Get(codes, c) = Get(a.codes, c) + Get(b.codes, c)
  BY DEF Get
<1>. HIDE DEF codes, max, D
<1>6. /\ j.count = a.count + b.count /\ j.sum = a.sum + b.sum
      /\ j.max = max /\ j.data = a.data \o b.data /\ j.codes = codes
      /\ j = [count |-> j.count, sum |-> j.sum, max |-> j.max, data |-> j.data, codes |-> j.codes]
  BY DEF Joined, codes, max, D
<1>. HIDE DEF j
<1>7. j \in Result(C)
  <2>1. codes \in UNION {[E -> Nat] : E \in SUBSET C}
    BY <1>2
  <2>2. max \in Nat
    BY <1>1, <1>3
  <2>. DEFINE Codes == UNION {[E -> Nat] : E \in SUBSET C}
  <2>3. Result(C) = [count : Nat, sum : Nat, max : Nat, data : Seq(Nat), codes : Codes]
    BY DEF Result
  <2>. HIDE DEF Codes
  <2>4. codes \in Codes
    BY <2>1 DEF Codes
  <2>5. j.count \in Nat /\ j.sum \in Nat
    BY <1>1, <1>6
  <2>6. j.max \in Nat /\ j.data \in Seq(Nat) /\ j.codes \in Codes
    BY <1>4, <1>6, <2>2, <2>4
  <2>7. [count |-> j.count, sum |-> j.sum, max |-> j.max, data |-> j.data, codes |-> j.codes]
            \in [count : Nat, sum : Nat, max : Nat, data : Seq(Nat), codes : Codes]
    BY <2>5, <2>6
  <2>. QED BY <1>6, <2>3, <2>7
<1>8. ASSUME NEW q \in Quantity PROVE Amount(j, q) = Amount(a, q) + Amount(b, q)
  BY <1>4, <1>5, <1>6 DEF Amount, Quantity
<1>. QED BY <1>3, <1>6, <1>7, <1>8 DEF j

(* So does adding a result to those of a version, or as its first one.     *)
LEMMA AggregateAdds ==
    ASSUME NEW V, NEW C, NEW old \in Results(V, C), NEW w \in V, NEW r \in Result(C),
           NEW new, new = aggregate(old, w, r)
    PROVE  /\ new \in Results(V, C)
           /\ \A v : \A q \in Quantity :
                 AmountIn(new, v, q) = AmountIn(old, v, q) + IF w = v THEN Amount(r, q) ELSE 0
           /\ \A v : \A S \in SUBSET Nat :
                 Largest(old, v, S) => Largest(new, v, IF w = v THEN S \cup {r.max} ELSE S)
<1>1. PICK D \in SUBSET V : old \in [D -> Result(C)]
  BY DEF Results
<1>. DEFINE val == IF w \in D THEN Joined(old[w], r) ELSE r
<1>2. /\ val \in Result(C)
      /\ w \in D => /\ \A q \in Quantity : Amount(val, q) = Amount(old[w], q) + Amount(r, q)
                    /\ val.max \in {old[w].max, r.max}
                    /\ old[w].max <= val.max /\ r.max <= val.max
      /\ w \notin D => val = r
  BY <1>1, JoinedAdds
<1>. HIDE DEF val
<1>3. /\ DOMAIN new = D \cup {w} /\ new[w] = val
      /\ \A v \in D : v # w => new[v] = old[v]
      /\ new = [v \in D \cup {w} |-> new[v]]
  <2>1. CASE w \in D
    BY <1>1, <2>1 DEF aggregate, val
  <2>2. CASE w \notin D
    BY <1>1, <2>2 DEF aggregate, val
  <2>. QED BY <2>1, <2>2
<1>4. new \in Results(V, C)
  <2>1. D \cup {w} \in SUBSET V
    OBVIOUS
  <2>2. new \in [D \cup {w} -> Result(C)]
    BY <1>1, <1>2, <1>3
  <2>. QED BY <2>1, <2>2 DEF Results
<1>5. ASSUME NEW v, NEW q \in Quantity
      PROVE  AmountIn(new, v, q) = AmountIn(old, v, q) + IF w = v THEN Amount(r, q) ELSE 0
  <2>1. Amount(r, q) \in Nat /\ \A u \in D : Amount(old[u], q) \in Nat
    BY <1>1, AmountType
  <2>2. CASE v = w
    BY <1>1, <1>2, <1>3, <2>1, <2>2 DEF AmountIn
  <2>3. CASE v # w
    BY <1>1, <1>3, <2>1, <2>3 DEF AmountIn
  <2>. QED BY <2>2, <2>3
<1>6. ASSUME NEW v, NEW S \in SUBSET Nat, Largest(old, v, S)
      PROVE  Largest(new, v, IF w = v THEN S \cup {r.max} ELSE S)
  <2>1. CASE v = w
    <3>1. /\ w \in DOMAIN new /\ new[w].max \in S \cup {r.max}
          /\ \A x \in S \cup {r.max} : x <= new[w].max
      <4>1. CASE w \in D
        <5>1. /\ old[w].max \in S /\ \A x \in S : x <= old[w].max
              /\ old[w].max \in Nat /\ val.max \in Nat
          BY <1>1, <1>2, <1>6, <2>1, <4>1 DEF Largest, Result
        <5>2. val.max \in {old[w].max, r.max} /\ old[w].max <= val.max /\ r.max <= val.max
          BY <1>2, <4>1
        <5>. QED BY <1>3, <5>1, <5>2
      <4>2. CASE w \notin D
        <5>1. S = {} /\ val = r /\ r.max \in Nat
          BY <1>1, <1>2, <1>6, <2>1, <4>2 DEF Largest, Result
        <5>. QED BY <1>3, <5>1
      <4>. QED BY <4>1, <4>2
    <3>2. Largest(new, w, S \cup {r.max})
      BY <3>1 DEF Largest
    <3>. QED BY <2>1, <3>2
  <2>2. CASE v # w
    BY <1>1, <1>3, <1>6, <2>2 DEF Largest
  <2>. QED BY <2>1, <2>2
<1>. QED BY <1>4, <1>5, <1>6

-----------------------------------------------------------------------------
(***************************************************************************)
(* Sums and loops.                                                         *)
(***************************************************************************)
LEMMA SumsAdd ==
    ASSUME NEW n \in Nat, NEW numbers \in [1..n -> Nat]
    PROVE  /\ SumOf(numbers) = Sums(numbers)[n]
           /\ Sums(numbers)[0] = 0
           /\ \A i \in 1..n : Sums(numbers)[i] = Sums(numbers)[i - 1] + numbers[i]
           /\ \A i \in 0..n : Sums(numbers)[i] \in Nat
<1>. DEFINE Def(f) == [i \in 0..n |-> IF i = 0 THEN 0 ELSE f[i - 1] + numbers[i]]
            round == [p \in Nat \X (1..n) |-> p[1] + numbers[p[2]]]
            h == Sums(numbers)
<1>1. Len(numbers) = n
  OBVIOUS
<1>2. h = CHOOSE f : f = Def(f)
  BY <1>1 DEF Sums
<1>3. round \in [Nat \X (1..n) -> Nat]
  OBVIOUS
<1>4. PICK f \in [0..n -> Nat] : Rounds(f, 0, round, n)
  <2>. HIDE DEF round
  <2>. QED BY <1>3, RoundsExist
<1>5. f[0] = 0 /\ \A i \in 1..n : f[i] = f[i - 1] + numbers[i]
  <2>1. \A i \in 1..n : f[i - 1] \in Nat
    BY <1>4
  <2>2. \A i \in 1..n : round[<<f[i - 1], i>>] = f[i - 1] + numbers[i]
    BY <2>1
  <2>. QED BY <1>4, <2>2 DEF Rounds
<1>6. f = Def(f)
  BY <1>4, <1>5
<1>7. h = Def(h)
  <2>. HIDE DEF h, Def
  <2>. QED BY <1>2, <1>6
<1>. HIDE DEF h
<1>8. h[0] = 0 /\ \A i \in 1..n : h[i] = h[i - 1] + numbers[i]
  BY <1>7
<1>9. \A i \in 0..n : h[i] \in Nat
  <2>. DEFINE S == {i \in 0..n : h[i] \in Nat}
  <2>1. 0 \in S
    BY <1>8
  <2>2. \A i \in 1..n : i - 1 \in S => i \in S
    BY <1>8
  <2>3. S = 0..n
    <3>1. S \in SUBSET (0..n)
      OBVIOUS
    <3>. HIDE DEF S
    <3>. QED BY <2>1, <2>2, <3>1, StepByStep
  <2>. QED BY <2>3
<1>. QED BY <1>1, <1>8, <1>9 DEF SumOf, h

(* The results after each measurement of a task. *)
LEMMA TotalsAreBuilt ==
    ASSUME NEW V, NEW C, NEW old \in Results(V, C), NEW task \in Seq(Measurement(V, C))
    PROVE  /\ Totals(old, task)[0] = old
           /\ \A i \in 1..Len(task) :
                 Totals(old, task)[i]
                     = aggregate(Totals(old, task)[i - 1], task[i].version, task[i].result)
           /\ \A i \in 0..Len(task) : Totals(old, task)[i] \in Results(V, C)
<1>. DEFINE n == Len(task)
            Body(totals, i) == aggregate(totals, task[i].version, task[i].result)
            Def(f) == [i \in 0..n |-> IF i = 0 THEN old ELSE Body(f[i - 1], i)]
            round == [p \in Results(V, C) \X (1..n) |-> Body(p[1], p[2])]
            h == Totals(old, task)
<1>1. h = CHOOSE f : f = Def(f)
  BY DEF Totals
<1>2. n \in Nat /\ \A i \in 1..n : task[i].version \in V /\ task[i].result \in Result(C)
  <2>1. n \in Nat /\ \A i \in 1..n : task[i] \in Measurement(V, C)
    BY LenProperties, ElementOfSeq
  <2>. QED BY <2>1 DEF Measurement
<1>3. \A totals \in Results(V, C), i \in 1..n : Body(totals, i) \in Results(V, C)
  BY <1>2, AggregateAdds
<1>. HIDE DEF Body, n
<1>4. round \in [Results(V, C) \X (1..n) -> Results(V, C)]
  BY <1>3
<1>5. PICK f \in [0..n -> Results(V, C)] : Rounds(f, old, round, n)
  <2>. HIDE DEF round
  <2>. QED BY <1>2, <1>4, RoundsExist
<1>6. f[0] = old /\ \A i \in 1..n : f[i] = Body(f[i - 1], i)
  <2>1. \A i \in 1..n : f[i - 1] \in Results(V, C)
    BY <1>2, <1>5
  <2>2. \A i \in 1..n : round[<<f[i - 1], i>>] = Body(f[i - 1], i)
    BY <2>1
  <2>. QED BY <1>5, <2>2 DEF Rounds
<1>7. f = Def(f)
  BY <1>2, <1>5, <1>6
<1>8. h = Def(h)
  <2>. HIDE DEF h, Def
  <2>. QED BY <1>1, <1>7
<1>. HIDE DEF h
<1>9. h[0] = old /\ \A i \in 1..n : h[i] = Body(h[i - 1], i)
  BY <1>2, <1>8
<1>10. \A i \in 0..n : h[i] \in Results(V, C)
  <2>. DEFINE S == {i \in 0..n : h[i] \in Results(V, C)}
  <2>1. 0 \in S
    BY <1>2, <1>9
  <2>2. ASSUME NEW i \in 1..n, i - 1 \in S PROVE i \in S
    BY <1>2, <1>3, <1>9, <2>2
  <2>3. S = 0..n
    <3>1. S \in SUBSET (0..n)
      OBVIOUS
    <3>. HIDE DEF S
    <3>. QED BY <1>2, <2>1, <2>2, <3>1, StepByStep
  <2>. QED BY <2>3
<1>. QED BY <1>9, <1>10 DEF h, Body, n

(* What one task makes of the results it has read. *)
LEMMA MeasuredAdds ==
    ASSUME NEW V, NEW C, NEW old \in Results(V, C), NEW task \in Seq(Measurement(V, C)),
           NEW v, NEW q \in Quantity, NEW S \in SUBSET Nat, Largest(old, v, S),
           NEW new, new = Measured(old, task)
    PROVE  /\ new \in Results(V, C)
           /\ Added(old, new, task, v, q)
           /\ Share(task, v, q) \in Nat
           /\ MaximaOf(task, v) \in SUBSET Nat
           /\ Largest(new, v, S \cup MaximaOf(task, v))
<1>. DEFINE n == Len(task)
            h == Totals(old, task)
            numbers == [i \in 1..n |-> IF task[i].version = v THEN Amount(task[i].result, q) ELSE 0]
            sums == Sums(numbers)
            Of(k) == {i \in 1..k : task[i].version = v}
            Maxima(k) == {task[i].result.max : i \in Of(k)}
<1>1. n \in Nat /\ \A i \in 1..n : task[i].version \in V /\ task[i].result \in Result(C)
  <2>1. n \in Nat /\ \A i \in 1..n : task[i] \in Measurement(V, C)
    BY LenProperties, ElementOfSeq
  <2>. QED BY <2>1 DEF Measurement
<1>2. /\ h[0] = old
      /\ \A i \in 1..n : h[i] = aggregate(h[i - 1], task[i].version, task[i].result)
      /\ \A i \in 0..n : h[i] \in Results(V, C)
  BY TotalsAreBuilt
<1>3. numbers \in [1..n -> Nat]
  <2>1. \A i \in 1..n : Amount(task[i].result, q) \in Nat
    BY <1>1, AmountType
  <2>. QED BY <2>1
<1>4. /\ Share(task, v, q) = sums[n] /\ sums[0] = 0
      /\ \A i \in 1..n : sums[i] = sums[i - 1] + numbers[i]
      /\ \A i \in 0..n : sums[i] \in Nat
  <2>1. Share(task, v, q) = SumOf(numbers)
    BY DEF Share
  <2>. HIDE DEF numbers, n
  <2>. QED BY <1>1, <1>3, <2>1, SumsAdd
<1>5. \A i \in 1..n : numbers[i] = IF task[i].version = v THEN Amount(task[i].result, q) ELSE 0
  OBVIOUS
<1>6. \A k \in 0..n : Maxima(k) \in SUBSET Nat
  <2>1. \A i \in 1..n : task[i].result.max \in Nat
    BY <1>1 DEF Result
  <2>2. \A k \in 0..n : Of(k) \subseteq 1..n
    BY <1>1
  <2>. QED BY <2>1, <2>2
<1>7. \A i \in 1..n : Maxima(i) = IF task[i].version = v THEN Maxima(i - 1) \cup {task[i].result.max}
                                  ELSE Maxima(i - 1)
  <2>. SUFFICES ASSUME NEW i \in 1..n
                PROVE  Maxima(i) = IF task[i].version = v THEN Maxima(i - 1) \cup {task[i].result.max}
                                   ELSE Maxima(i - 1)
    OBVIOUS
  <2>1. Of(i) = IF task[i].version = v THEN Of(i - 1) \cup {i} ELSE Of(i - 1)
    BY <1>1
  <2>. HIDE DEF Of
  <2>. QED BY <2>1
<1>8. Maxima(0) = {} /\ Maxima(n) = MaximaOf(task, v)
  BY DEF MaximaOf
<1>. HIDE DEF numbers, sums, Maxima, h, n
<1>. DEFINE Good == {k \in 0..n : /\ AmountIn(h[k], v, q) = AmountIn(old, v, q) + sums[k]
                                  /\ Largest(h[k], v, S \cup Maxima(k))}
<1>9. AmountIn(old, v, q) \in Nat
  <2>1. PICK D \in SUBSET V : old \in [D -> Result(C)]
    BY DEF Results
  <2>. QED BY <2>1, AmountType DEF AmountIn
<1>10. 0 \in Good
  <2>1. S \cup Maxima(0) = S
    BY <1>8
  <2>2. h[0] = old /\ sums[0] = 0 /\ 0 \in 0..n
    BY <1>1, <1>2, <1>4
  <2>3. AmountIn(h[0], v, q) = AmountIn(old, v, q) + sums[0]
    BY <1>9, <2>2
  <2>. QED BY <2>1, <2>2, <2>3
<1>11. ASSUME NEW k \in 1..n, k - 1 \in Good PROVE k \in Good
  <2>1. k - 1 \in 0..n /\ k \in 0..n
    BY <1>1
  <2>. DEFINE w == task[k].version
              r == task[k].result
              before == h[k - 1]
              T == S \cup Maxima(k - 1)
  <2>2. before \in Results(V, C) /\ w \in V /\ r \in Result(C) /\ h[k] = aggregate(before, w, r)
    BY <1>1, <1>2, <2>1
  <2>3. AmountIn(before, v, q) = AmountIn(old, v, q) + sums[k - 1] /\ Largest(before, v, T)
        /\ T \in SUBSET Nat
    BY <1>6, <1>11, <2>1
  <2>4. sums[k - 1] \in Nat /\ Amount(r, q) \in Nat
        /\ sums[k] = sums[k - 1] + IF w = v THEN Amount(r, q) ELSE 0
    BY <1>4, <1>5, <2>1, <2>2, AmountType
  <2>5. S \cup Maxima(k) = IF w = v THEN T \cup {r.max} ELSE T
    BY <1>7
  <2>. HIDE DEF w, r, before, T
  <2>6. AmountIn(h[k], v, q) = AmountIn(before, v, q) + IF w = v THEN Amount(r, q) ELSE 0
    BY <2>2, AggregateAdds
  <2>7. Largest(h[k], v, IF w = v THEN T \cup {r.max} ELSE T)
    BY <2>2, <2>3, AggregateAdds
  <2>8. AmountIn(h[k], v, q) = AmountIn(old, v, q) + sums[k]
    BY <1>9, <2>3, <2>4, <2>6
  <2>9. Largest(h[k], v, S \cup Maxima(k))
    BY <2>5, <2>7
  <2>. QED BY <2>1, <2>8, <2>9
<1>12. Good = 0..n
  <2>1. Good \in SUBSET (0..n)
    OBVIOUS
  <2>. HIDE DEF Good
  <2>. QED BY <1>1, <1>10, <1>11, <2>1, StepByStep
<1>13. n \in Good /\ n \in 0..n
  <2>. HIDE DEF Good
  <2>. QED BY <1>1, <1>12
<1>14. new = h[n]
  BY DEF Measured, h, n
<1>15. h[n] \in Results(V, C) /\ sums[n] \in Nat /\ Maxima(n) \in SUBSET Nat
  BY <1>2, <1>4, <1>6, <1>13
<1>16. AmountIn(h[n], v, q) = AmountIn(old, v, q) + sums[n]
  BY <1>13
<1>17. Largest(h[n], v, S \cup Maxima(n))
  BY <1>13
<1>. QED BY <1>4, <1>8, <1>14, <1>15, <1>16, <1>17 DEF Added

(* The results after each task of an experiment. *)
LEMMA CollectedIsBuilt ==
    ASSUME NEW V, NEW C, NEW tasks \in Seq(Seq(Measurement(V, C)))
    PROVE  /\ NoResults \in Results(V, C)
           /\ CollectedBy(tasks)[0] = NoResults
           /\ \A i \in 1..Len(tasks) :
                 CollectedBy(tasks)[i] = Measured(CollectedBy(tasks)[i - 1], tasks[i])
           /\ \A i \in 0..Len(tasks) : CollectedBy(tasks)[i] \in Results(V, C)
<1>. DEFINE n == Len(tasks)
            Def(f) == [i \in 0..n |-> IF i = 0 THEN NoResults ELSE Measured(f[i - 1], tasks[i])]
            round == [p \in Results(V, C) \X (1..n) |-> Measured(p[1], tasks[p[2]])]
            h == CollectedBy(tasks)
<1>1. h = CHOOSE f : f = Def(f)
  BY DEF CollectedBy
<1>2. n \in Nat /\ \A i \in 1..n : tasks[i] \in Seq(Measurement(V, C))
  BY LenProperties, ElementOfSeq
<1>3. NoResults \in Results(V, C)
  <2>1. NoResults \in [{} -> Result(C)]
    BY DEF NoResults
  <2>. QED BY <2>1 DEF Results
<1>4. \A totals \in Results(V, C), i \in 1..n : Measured(totals, tasks[i]) \in Results(V, C)
  <2>. SUFFICES ASSUME NEW totals \in Results(V, C), NEW i \in 1..n
                PROVE  Measured(totals, tasks[i]) \in Results(V, C)
    OBVIOUS
  <2>1. tasks[i] \in Seq(Measurement(V, C)) /\ Len(tasks[i]) \in Nat
    BY <1>2, LenProperties
  <2>2. Len(tasks[i]) \in 0..Len(tasks[i])
    BY <2>1
  <2>. QED BY <2>1, <2>2, TotalsAreBuilt DEF Measured
<1>. HIDE DEF n
<1>5. round \in [Results(V, C) \X (1..n) -> Results(V, C)]
  BY <1>4
<1>6. PICK f \in [0..n -> Results(V, C)] : Rounds(f, NoResults, round, n)
  <2>. HIDE DEF round
  <2>. QED BY <1>2, <1>3, <1>5, RoundsExist
<1>7. f[0] = NoResults /\ \A i \in 1..n : f[i] = Measured(f[i - 1], tasks[i])
  <2>1. \A i \in 1..n : f[i - 1] \in Results(V, C)
    BY <1>2, <1>6
  <2>2. \A i \in 1..n : round[<<f[i - 1], i>>] = Measured(f[i - 1], tasks[i])
    BY <2>1
  <2>. QED BY <1>6, <2>2 DEF Rounds
<1>8. f = Def(f)
  BY <1>2, <1>6, <1>7
<1>9. h = Def(h)
  <2>. HIDE DEF h, Def
  <2>. QED BY <1>1, <1>8
<1>. HIDE DEF h
<1>10. h[0] = NoResults /\ \A i \in 1..n : h[i] = Measured(h[i - 1], tasks[i])
  BY <1>2, <1>9
<1>11. \A i \in 0..n : h[i] \in Results(V, C)
  <2>. DEFINE S == {i \in 0..n : h[i] \in Results(V, C)}
  <2>1. 0 \in S
    BY <1>2, <1>3, <1>10
  <2>2. ASSUME NEW i \in 1..n, i - 1 \in S PROVE i \in S
    BY <1>2, <1>4, <1>10, <2>2
  <2>3. S = 0..n
    <3>1. S \in SUBSET (0..n)
      OBVIOUS
    <3>. HIDE DEF S
    <3>. QED BY <1>2, <2>1, <2>2, <3>1, StepByStep
  <2>. QED BY <2>3
<1>. QED BY <1>3, <1>10, <1>11 DEF h, n

(* Whatever tasks have collected, for however many versions and with       *)
(* whatever return codes, nothing of it is lost and nothing is counted     *)
(* twice or for another version (aggregate, collect.go:157).               *)
THEOREM NothingIsLostOnTheWay ==
    ASSUME NEW V, NEW C, NEW tasks \in Seq(Seq(Measurement(V, C))), NEW v, NEW q \in Quantity
    PROVE  /\ AmountIn(Collected(tasks), v, q)
                  = SumOf([k \in 1..Len(tasks) |-> Share(tasks[k], v, q)])
           /\ AllMaxima(tasks, v) \in SUBSET Nat
           /\ Largest(Collected(tasks), v, AllMaxima(tasks, v))
<1>. DEFINE n == Len(tasks)
            h == CollectedBy(tasks)
            numbers == [k \in 1..n |-> Share(tasks[k], v, q)]
            sums == Sums(numbers)
            Maxima(k) == UNION {MaximaOf(tasks[i], v) : i \in 1..k}
<1>1. n \in Nat /\ \A i \in 1..n : tasks[i] \in Seq(Measurement(V, C))
  BY LenProperties, ElementOfSeq
<1>2. /\ NoResults \in Results(V, C) /\ h[0] = NoResults
      /\ \A i \in 1..n : h[i] = Measured(h[i - 1], tasks[i])
      /\ \A i \in 0..n : h[i] \in Results(V, C)
  BY CollectedIsBuilt
<1>3. AmountIn(NoResults, v, q) = 0 /\ Largest(NoResults, v, {})
  BY DEF AmountIn, Largest, NoResults
<1>4. \A i \in 1..n : Share(tasks[i], v, q) \in Nat /\ MaximaOf(tasks[i], v) \in SUBSET Nat
  <2>. SUFFICES ASSUME NEW i \in 1..n
                PROVE  Share(tasks[i], v, q) \in Nat /\ MaximaOf(tasks[i], v) \in SUBSET Nat
    OBVIOUS
  <2>. DEFINE task == tasks[i]
              new == Measured(NoResults, task)
              S == {}
  <2>1. /\ NoResults \in Results(V, C) /\ task \in Seq(Measurement(V, C)) /\ S \in SUBSET Nat
        /\ Largest(NoResults, v, S) /\ new = Measured(NoResults, task)
    BY <1>1, <1>2, <1>3
  <2>2. Share(task, v, q) \in Nat /\ MaximaOf(task, v) \in SUBSET Nat
    <3>. HIDE DEF new, task, S, n, h, numbers, sums, Maxima
    <3>. QED BY <2>1, MeasuredAdds
  <2>. QED BY <2>2
<1>5. numbers \in [1..n -> Nat]
  BY <1>4
<1>6. /\ SumOf(numbers) = sums[n] /\ sums[0] = 0
      /\ \A i \in 1..n : sums[i] = sums[i - 1] + numbers[i]
      /\ \A i \in 0..n : sums[i] \in Nat
  <2>. HIDE DEF numbers, n
  <2>. QED BY <1>1, <1>5, SumsAdd
<1>7. \A i \in 1..n : numbers[i] = Share(tasks[i], v, q)
  OBVIOUS
<1>8. Maxima(0) = {}
  OBVIOUS
<1>9. \A k \in 0..n : Maxima(k) \in SUBSET Nat
  BY <1>1, <1>4
<1>10. \A k \in 1..n : Maxima(k) = Maxima(k - 1) \cup MaximaOf(tasks[k], v)
  <2>. SUFFICES ASSUME NEW k \in 1..n
                PROVE  Maxima(k) = Maxima(k - 1) \cup MaximaOf(tasks[k], v)
    OBVIOUS
  <2>1. 1..k = (1..(k - 1)) \cup {k}
    BY <1>1
  <2>. QED BY <2>1
<1>. HIDE DEF numbers, sums, Maxima, h, n
<1>. DEFINE Good == {k \in 0..n : AmountIn(h[k], v, q) = sums[k] /\ Largest(h[k], v, Maxima(k))}
<1>11. 0 \in Good
  <2>1. h[0] = NoResults /\ sums[0] = 0 /\ Maxima(0) = {} /\ 0 \in 0..n
    BY <1>1, <1>2, <1>6, <1>8
  <2>2. AmountIn(h[0], v, q) = sums[0]
    BY <1>3, <2>1
  <2>3. Largest(h[0], v, Maxima(0))
    BY <1>3, <2>1
  <2>. QED BY <2>1, <2>2, <2>3
<1>12. ASSUME NEW k \in 1..n, k - 1 \in Good PROVE k \in Good
  <2>1. k - 1 \in 0..n /\ k \in 0..n
    BY <1>1
  <2>2. /\ h[k - 1] \in Results(V, C) /\ tasks[k] \in Seq(Measurement(V, C))
        /\ Maxima(k - 1) \in SUBSET Nat /\ Largest(h[k - 1], v, Maxima(k - 1))
        /\ AmountIn(h[k - 1], v, q) = sums[k - 1]
    BY <1>1, <1>2, <1>9, <1>12, <2>1
  <2>3. h[k] = Measured(h[k - 1], tasks[k])
    BY <1>2
  <2>. DEFINE before == h[k - 1]
              new == h[k]
              task == tasks[k]
              T == Maxima(k - 1)
  <2>4. Added(before, new, task, v, q) /\ Largest(new, v, T \cup MaximaOf(task, v))
    <3>1. /\ before \in Results(V, C) /\ task \in Seq(Measurement(V, C)) /\ T \in SUBSET Nat
          /\ Largest(before, v, T) /\ new = Measured(before, task)
      BY <2>2, <2>3
    <3>. HIDE DEF before, new, task, T, Good
    <3>2. Added(before, new, task, v, q)
      BY <3>1, MeasuredAdds, Zenon
    <3>3. Largest(new, v, T \cup MaximaOf(task, v))
      BY <3>1, MeasuredAdds, Zenon
    <3>. QED BY <3>2, <3>3
  <2>5. AmountIn(h[k], v, q) = sums[k]
    BY <1>6, <1>7, <2>2, <2>4 DEF Added
  <2>6. Largest(h[k], v, Maxima(k))
    BY <1>10, <2>4
  <2>. QED BY <2>1, <2>5, <2>6
<1>13. Good = 0..n
  <2>1. Good \in SUBSET (0..n)
    OBVIOUS
  <2>. HIDE DEF Good
  <2>. QED BY <1>1, <1>11, <1>12, <2>1, StepByStep
<1>14. n \in Good /\ n \in 0..n
  <2>. HIDE DEF Good
  <2>. QED BY <1>1, <1>13
<1>15. Collected(tasks) = h[n]
  BY DEF Collected, h, n
<1>16. AmountIn(h[n], v, q) = sums[n] /\ Largest(h[n], v, Maxima(n)) /\ Maxima(n) \in SUBSET Nat
  BY <1>9, <1>14
<1>17. AmountIn(Collected(tasks), v, q) = SumOf(numbers) /\ Largest(Collected(tasks), v, Maxima(n))
  BY <1>6, <1>15, <1>16
<1>18. AllMaxima(tasks, v) = Maxima(n)
  BY DEF AllMaxima, Maxima, n
<1>. QED BY <1>16, <1>17, <1>18 DEF numbers, n

(* What jobs may have measured is of that kind.                            *)
LEMMA MeasurementsType ==
    Measurements \subseteq Seq(Measurement({"baseline", "candidate"}, {"200", "500"}))
<1>. DEFINE V == {"baseline", "candidate"}
            C == {"200", "500"}
            M(version, count, code) ==
                [version |-> version,
                 result |-> [count |-> count, sum |-> 2 * count, max |-> count, data |-> <<count>>,
                             codes |-> [c \in {code} |-> count]]]
<1>1. ASSUME NEW version \in V, NEW count \in Nat, NEW code \in C
      PROVE  M(version, count, code) \in Measurement(V, C)
  <2>. DEFINE Codes == UNION {[E -> Nat] : E \in SUBSET C}
              codes == [c \in {code} |-> count]
  <2>1. codes \in [{code} -> Nat] /\ {code} \in SUBSET C
    OBVIOUS
  <2>2. codes \in Codes
    BY <2>1
  <2>3. 2 * count \in Nat /\ <<count>> \in Seq(Nat)
    OBVIOUS
  <2>. HIDE DEF Codes, codes
  <2>4. [count |-> count, sum |-> 2 * count, max |-> count, data |-> <<count>>, codes |-> codes]
           \in [count : Nat, sum : Nat, max : Nat, data : Seq(Nat), codes : Codes]
    BY <2>2, <2>3
  <2>5. Result(C) = [count : Nat, sum : Nat, max : Nat, data : Seq(Nat), codes : Codes]
    BY DEF Result, Codes
  <2>. QED BY <2>4, <2>5 DEF Measurement, codes
<1>2. Measurements = {<<M("baseline", 1, "200")>>,
                      <<M("baseline", 2, "500"), M("candidate", 1, "200")>>,
                      <<M("candidate", 2, "500")>>}
  BY DEF Measurements
<1>3. /\ M("baseline", 1, "200") \in Measurement(V, C)
      /\ M("baseline", 2, "500") \in Measurement(V, C)
      /\ M("candidate", 1, "200") \in Measurement(V, C)
      /\ M("candidate", 2, "500") \in Measurement(V, C)
  <2>1. /\ {"baseline", "candidate"} \subseteq V /\ {"200", "500"} \subseteq C
        /\ 1 \in Nat /\ 2 \in Nat
    OBVIOUS
  <2>. HIDE DEF M, V, C
  <2>. QED BY <1>1, <2>1
<1>. HIDE DEF M
<1>. QED BY <1>2, <1>3

(* There are only ever finitely many results to join.                      *)
ResultsFinite == IsFiniteSet(results)

LEMMA FinitelyManyResults == Spec => []ResultsFinite
<1>1. Init => ResultsFinite
  BY FS_EmptySet DEF Init, ResultsFinite
<1>2. ResultsFinite /\ [Next]_vars => ResultsFinite'
  <2>. SUFFICES ASSUME IsFiniteSet(results), [Next]_vars PROVE IsFiniteSet(results')
    BY DEF ResultsFinite
  <2>1. CASE \A j \in Job : ~Collect(j)
    BY <2>1, ResultsFromCollect, FS_Subset
  <2>2. ASSUME NEW j \in Job, Collect(j) PROVE IsFiniteSet(results')
    <3>1. results' = results \/ \E x : results' = results \cup {x}
      BY <2>2 DEF Collect, ResultsWritten, ResultsNotWritten, Publish, Aggregated, serverVars
    <3>. QED BY <3>1, FS_AddElement
  <2>. QED BY <2>1, <2>2
<1>. QED BY <1>1, <1>2, PTL DEF Spec

(* Nothing that the collect tasks of an experiment have measured and       *)
(* stored is lost, or counted twice or for another version, when later     *)
(* ones join it (collect.go:157), however many jobs have done so.          *)
THEOREM AggregatedAll == Spec => []AggregatesAll
<1>1. ResultsFinite => AggregatesAll
  <2>. DEFINE n == Cardinality(results)
              V == {"baseline", "candidate"}
              C == {"200", "500"}
  <2>. SUFFICES ASSUME IsFiniteSet(results), NEW tasks \in [1..n -> Measurements], NEW v \in V
                PROVE  LET totals == Collected(tasks)
                           maxima == AllMaxima(tasks, v)
                       IN  /\ v \in DOMAIN totals <=> maxima # {}
                           /\ v \in DOMAIN totals =>
                                 /\ totals[v].max = Max(maxima)
                                 /\ \A q \in Quantity :
                                       Amount(totals[v], q)
                                           = SumOf([k \in 1..Len(tasks) |-> Share(tasks[k], v, q)])
    BY DEF AggregatesAll, ResultsFinite
  <2>. DEFINE totals == Collected(tasks)
              maxima == AllMaxima(tasks, v)
              Total(q) == SumOf([k \in 1..Len(tasks) |-> Share(tasks[k], v, q)])
  <2>1. n \in Nat
    BY FS_CardinalityType
  <2>2. tasks \in Seq(Seq(Measurement(V, C)))
    <3>. HIDE DEF n
    <3>1. tasks \in [1..n -> Seq(Measurement(V, C))]
      BY MeasurementsType
    <3>. QED BY <2>1, <3>1
  <2>3. \A q \in Quantity : AmountIn(totals, v, q) = Total(q)
    <3>. HIDE DEF V, C
    <3>. QED BY <2>2, NothingIsLostOnTheWay
  <2>4. maxima \in SUBSET Nat /\ Largest(totals, v, maxima)
    <3>1. "requests" \in Quantity
      BY DEF Quantity
    <3>. HIDE DEF V, C, n
    <3>2. maxima \in SUBSET Nat
      BY <2>2, <3>1, NothingIsLostOnTheWay
    <3>3. Largest(totals, v, maxima)
      BY <2>2, <3>1, NothingIsLostOnTheWay
    <3>. QED BY <3>2, <3>3
  <2>. HIDE DEF totals, maxima, Total
  <2>5. ASSUME v \in DOMAIN totals
        PROVE  /\ totals[v].max = Max(maxima)
               /\ \A q \in Quantity : Amount(totals[v], q) = Total(q)
    <3>. DEFINE m == totals[v].max
    <3>1. m \in maxima /\ \A x \in maxima : x <= m
      BY <2>4, <2>5 DEF Largest
    <3>. HIDE DEF m
    <3>2. \A x \in maxima : (\A y \in maxima : x >= y) => x = m
      BY <2>4, <3>1
    <3>3. Max(maxima) \in maxima /\ \A y \in maxima : Max(maxima) >= y
      <4>1. \E x \in maxima : \A y \in maxima : x >= y
        BY <2>4, <3>1
      <4>. QED BY <4>1 DEF Max
    <3>4. m = Max(maxima)
      BY <3>2, <3>3
    <3>. QED BY <2>3, <2>5, <3>4 DEF AmountIn, m
  <2>6. v \in DOMAIN totals <=> maxima # {}
    BY <2>4 DEF Largest
  <2>. QED BY <2>5, <2>6 DEF totals, maxima, Total
<1>. QED BY <1>1, FinitelyManyResults, PTL

=============================================================================
