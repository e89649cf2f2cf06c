---------------------- MODULE ExperimentLifecycleProofs ----------------------
(***************************************************************************)
(* Theorems about ExperimentLifecycle for any number of iterations, loops  *)
(* and events, any handlers and any faults.                                *)
(***************************************************************************)
EXTENDS ExperimentLifecycle, WellFoundedInduction, SequenceTheorems, TLAPS

LEMMA ConstantsOK ==
    /\ IterationsPerLoop \in Nat /\ IterationsPerLoop >= 1
    /\ MaxLoops \in Nat /\ MaxLoops >= 1
    /\ MaxPending \in Nat /\ MaxPending >= 1
    /\ MaxIterations \in Nat
    /\ FreshStatus \in BOOLEAN /\ FreshJobs \in BOOLEAN /\ HasMetrics \in BOOLEAN
BY ConstantsAssumption DEF MaxIterations

-----------------------------------------------------------------------------
(***************************************************************************)
(* Stages, statuses, jobs.                                                 *)
(***************************************************************************)
LEMMA Stages ==
    Stage = {"New", "Waiting", "Initializing", "Running", "Finishing", "Completed"}
<1>1. 1..6 = {1, 2, 3, 4, 5, 6}
  OBVIOUS
<1>. QED BY <1>1 DEF Stage, StageOrder

LEMMA Ranks ==
    /\ Rank["New"] = 1 /\ Rank["Waiting"] = 2 /\ Rank["Initializing"] = 3
    /\ Rank["Running"] = 4 /\ Rank["Finishing"] = 5 /\ Rank["Completed"] = 6
    /\ \A s \in Stage : Rank[s] \in 1..6
<1>1. ASSUME NEW s \in Stage, NEW n \in 1..6, StageOrder[n] = s
      PROVE  Rank[s] = n
  <2>1. \A i \in 1..6 : StageOrder[i] = s => i = n
    BY <1>1 DEF StageOrder
  <2>. QED BY <1>1, <2>1 DEF Rank
<1>2. /\ StageOrder[1] = "New" /\ StageOrder[2] = "Waiting" /\ StageOrder[3] = "Initializing"
      /\ StageOrder[4] = "Running" /\ StageOrder[5] = "Finishing" /\ StageOrder[6] = "Completed"
  BY DEF StageOrder
<1>3. Rank["New"] = 1 /\ Rank["Waiting"] = 2 /\ Rank["Initializing"] = 3
  BY <1>1, <1>2, Stages
<1>4. Rank["Running"] = 4 /\ Rank["Finishing"] = 5 /\ Rank["Completed"] = 6
  BY <1>1, <1>2, Stages
<1>. QED BY <1>3, <1>4, Stages

LEMMA Orders ==
    \A s \in Stage :
        /\ After("Initializing", s) <=> s \in {"New", "Waiting"}
        /\ After("Running", s) <=> s \in {"New", "Waiting", "Initializing"}
        /\ After("Finishing", s) <=> s \notin {"Finishing", "Completed"}
        /\ After("Completed", s) <=> s # "Completed"
        /\ Rank[s] <= Rank["Completed"]
<1>1. ASSUME NEW s \in Stage
      PROVE  \/ s = "New" /\ Rank[s] = 1
             \/ s = "Waiting" /\ Rank[s] = 2
             \/ s = "Initializing" /\ Rank[s] = 3
             \/ s = "Running" /\ Rank[s] = 4
             \/ s = "Finishing" /\ Rank[s] = 5
             \/ s = "Completed" /\ Rank[s] = 6
  BY Stages, Ranks
<1>. QED BY <1>1, Ranks DEF After

LEMMA Advancing ==
    ASSUME NEW o \in Status, NEW s \in Stage
    PROVE  LET a == Advance(o, s)
           IN  /\ a \in Status
               /\ a.stage = IF After(s, o.stage) THEN s ELSE o.stage
               /\ a.acquired = o.acquired /\ a.failed = o.failed /\ a.message = o.message
               /\ a.metrics = o.metrics /\ a.started = o.started
               /\ a.iterations = o.iterations
BY DEF Advance, Status

LEMMA Failing ==
    ASSUME NEW o \in Status
    PROVE  LET a == Failed(o)
           IN  /\ a \in Status /\ a.failed
               /\ a.stage = o.stage /\ a.acquired = o.acquired /\ a.message = o.message
               /\ a.metrics = o.metrics /\ a.started = o.started
               /\ a.iterations = o.iterations
BY DEF Failed, Status

LEMMA Counting ==
    ASSUME NEW o \in Status, o.iterations < MaxIterations
    PROVE  LET a == Iterated(o)
           IN  /\ a \in Status /\ a.iterations = o.iterations + 1
               /\ a.stage = o.stage /\ a.acquired = o.acquired /\ a.message = o.message
               /\ a.metrics = o.metrics /\ a.started = o.started /\ a.failed = o.failed
<1>1. o.iterations + 1 \in 0..MaxIterations
  BY ConstantsOK DEF Status
<1>. QED BY <1>1 DEF Iterated, Status

LEMMA Ending ==
    ASSUME NEW o \in Status, NEW m \in Message
    PROVE  LET a == Ended(o, m)
           IN  /\ a \in Status /\ a.stage = "Completed" /\ a.message = m
               /\ a.acquired = o.acquired /\ a.failed = o.failed
               /\ a.metrics = o.metrics /\ a.started = o.started
               /\ a.iterations = o.iterations
<1>1. "Completed" \in Stage
  BY Stages
<1>2. After("Completed", o.stage) \/ o.stage = "Completed"
  BY Orders DEF Status
<1>. DEFINE c == Advance(o, "Completed")
<1>3. c \in Status /\ c.stage = "Completed"
  BY <1>1, <1>2, Advancing
<1>4. /\ [c EXCEPT !.message = m] \in Status
      /\ [c EXCEPT !.message = m].stage = "Completed"
      /\ [c EXCEPT !.message = m].message = m
      /\ [c EXCEPT !.message = m].acquired = c.acquired
      /\ [c EXCEPT !.message = m].failed = c.failed
      /\ [c EXCEPT !.message = m].metrics = c.metrics
      /\ [c EXCEPT !.message = m].started = c.started
      /\ [c EXCEPT !.message = m].iterations = c.iterations
  <2>. HIDE DEF c
  <2>. QED BY <1>3 DEF Status
<1>5. Ended(o, m) = [c EXCEPT !.message = m]
  BY DEF Ended
<1>6. /\ c.acquired = o.acquired /\ c.failed = o.failed /\ c.metrics = o.metrics
      /\ c.started = o.started /\ c.iterations = o.iterations
  BY <1>1, Advancing
<1>. HIDE DEF c
<1>. QED BY <1>4, <1>5, <1>6

LEMMA NewType == NewStatus \in Status
BY ConstantsOK, Stages DEF NewStatus, Status, Message

(* The other writes of Reconcile, each to one field.                       *)
LEMMA Setting ==
    ASSUME NEW o \in Status
    PROVE  /\ [o EXCEPT !.stage = "Waiting"] \in Status
           /\ [o EXCEPT !.acquired = TRUE] \in Status
           /\ [o EXCEPT !.metrics = TRUE] \in Status
           /\ [o EXCEPT !.started = TRUE] \in Status
<1>1. "Waiting" \in Stage
  BY Stages
<1>. QED BY <1>1 DEF Status

LEMMA JobsAre ==
    /\ Start = 0 /\ Finish = 1
    /\ Start \in Job /\ Finish \in Job
    /\ \A k \in 1..MaxLoops : Loop(k) \in Job /\ Loop(k) = k + 1 /\ Loop(k) \in LoopJob
    /\ \A j \in Job : j \in Nat
    /\ \A j \in Job : j # Start /\ j # Finish => j \in LoopJob
    /\ \A j \in LoopJob : j \in Job /\ j >= 2
BY ConstantsOK DEF Start, Finish, Loop, Job, LoopJob

LEMMA HandlersAre ==
    /\ Handler \subseteq Job
    /\ Start \in Handler <=> "start" \in actions
    /\ Finish \in Handler <=> "finish" \in actions
    /\ \A j \in LoopJob : j \in Handler <=> "loop" \in actions
BY JobsAre DEF Handler

(* The job that stops a request is one of the handlers.                    *)
LEMMA FirstStops ==
    ASSUME StoppingJobs # {}
    PROVE  FirstStop \in StoppingJobs /\ FirstStop \in Job
<1>1. StoppingJobs \in SUBSET Nat /\ StoppingJobs \subseteq Job
  BY JobsAre DEF StoppingJobs, Handler
<1>2. \E n \in StoppingJobs : \A m \in StoppingJobs : n <= m
  <2>. DEFINE Less == {p \in Nat \X Nat : p[1] < p[2]}
  <2>1. IsWellFoundedOn(Less, Nat)
    BY NatLessThanWellFounded DEF OpToRel
  <2>2. \E n \in StoppingJobs : \A m \in StoppingJobs : <<m, n>> \notin Less
    <3>. HIDE DEF Less
    <3>. QED BY <1>1, <2>1, WFMin
  <2>3. \A m, n \in Nat : <<m, n>> \notin Less => n <= m
    OBVIOUS
  <2>. HIDE DEF Less
  <2>. QED BY <1>1, <2>2, <2>3
<1>3. FirstStop \in StoppingJobs
  BY <1>2 DEF FirstStop, Min
<1>. QED BY <1>1, <1>3

(* The loop that an iteration completes is the one it belongs to.          *)
LEMMA LoopArithmetic ==
    ASSUME NEW n \in 1..MaxIterations, n % IterationsPerLoop = 0
    PROVE  /\ n \div IterationsPerLoop \in 1..MaxLoops
           /\ n = (n \div IterationsPerLoop) * IterationsPerLoop
<1>. DEFINE q == n \div IterationsPerLoop
<1>1. n = IterationsPerLoop * q + (n % IterationsPerLoop) /\ q \in Int
  BY ConstantsOK
<1>2. n = q * IterationsPerLoop
  BY <1>1, ConstantsOK
<1>. HIDE DEF q
<1>3. q >= 1
  <2>. SUFFICES ASSUME q <= 0 PROVE FALSE
    BY <1>1
  <2>1. q * IterationsPerLoop <= 0
    BY <1>1, ConstantsOK
  <2>. QED BY <1>2, <2>1
<1>4. q <= MaxLoops
  <2>. SUFFICES ASSUME q >= MaxLoops + 1 PROVE FALSE
    BY <1>1, ConstantsOK
  <2>1. q * IterationsPerLoop >= (MaxLoops + 1) * IterationsPerLoop
    BY <1>1, ConstantsOK
  <2>2. (MaxLoops + 1) * IterationsPerLoop = MaxIterations + IterationsPerLoop
    BY ConstantsOK DEF MaxIterations
  <2>. QED BY <1>2, <2>1, <2>2, ConstantsOK
<1>. QED BY <1>1, <1>2, <1>3, <1>4, ConstantsOK DEF q

LEMMA LoopBoundary ==
    ASSUME NEW k \in 1..MaxLoops
    PROVE  /\ k * IterationsPerLoop \in 1..MaxIterations
           /\ MaxIterations >= k * IterationsPerLoop
           /\ (k * IterationsPerLoop) % IterationsPerLoop = 0
           /\ (k * IterationsPerLoop) \div IterationsPerLoop = k
<1>1. k * IterationsPerLoop \in Nat /\ k * IterationsPerLoop >= 1
  BY ConstantsOK
<1>2. MaxIterations >= k * IterationsPerLoop
  BY ConstantsOK DEF MaxIterations
<1>3. (k * IterationsPerLoop) % IterationsPerLoop = 0
  BY ConstantsOK
<1>4. (k * IterationsPerLoop) \div IterationsPerLoop = k
  BY ConstantsOK
<1>. QED BY <1>1, <1>2, <1>3, <1>4, ConstantsOK

-----------------------------------------------------------------------------
(***************************************************************************)
(* Type correctness.                                                       *)
(***************************************************************************)

(* A request that is past checkHandlersStatus is about an experiment that  *)
(* has neither just been created nor been completed; an iteration is about *)
(* one that runs.                                                          *)
TypeInv ==
    /\ TypeOK
    /\ pc \in {"act", "iterate", "save"} => obj.stage \notin {"New", "Completed"}
    /\ pc = "iterate" => obj.stage \in {"Running", "Finishing"}

LEMMA InitType == Init => TypeInv
<1>. SUFFICES ASSUME Init PROVE TypeInv
  OBVIOUS
<1>1. <<NewStatus>> \in Seq(Status)
  BY NewType
<1>. QED BY <1>1, NewType DEF Init, TypeInv, TypeOK, JobState

(* What Reconcile leaves alone. *)
Unread == UNCHANGED <<actions, cache, jobCache, free>>

LEMMA PublishType ==
    ASSUME TypeOK, NEW o \in Status, Publish(o)
    PROVE  store' \in Status /\ pending' \in Seq(Status)
<1>1. pending \in Seq(Status)
  BY DEF TypeOK
<1>2. Append(pending, o) \in Seq(Status)
  BY <1>1, AppendProperties
<1>. QED BY <1>2 DEF Publish

LEMMA UpdateStatusType ==
    ASSUME TypeOK, NEW o \in Status, UpdateStatus(o)
    PROVE  store' \in Status /\ pending' \in Seq(Status) /\ elapsed' \in BOOLEAN
<1>1. CASE current
  BY <1>1, PublishType DEF UpdateStatus
<1>2. CASE ~current
  BY <1>2 DEF UpdateStatus, TypeOK
<1>. QED BY <1>1, <1>2

LEMMA EndRequestType ==
    ASSUME TypeInv, Unread, NEW o \in Status, EndRequest(o) \/ EndRequestAndWait(o)
    PROVE  TypeInv'
<1>1. store' \in Status /\ pending' \in Seq(Status) /\ elapsed' \in BOOLEAN
  <2>1. CASE UpdateStatus(o)
    BY <2>1, UpdateStatusType DEF TypeInv
  <2>2. CASE UNCHANGED <<store, pending, elapsed>>
    BY <2>2 DEF TypeInv, TypeOK
  <2>. QED BY <2>1, <2>2 DEF EndRequest, EndRequestAndWait, WriteFails
<1>. QED
  BY <1>1, NewType DEF EndRequest, EndRequestAndWait, WriteFails, Done, Unread, TypeInv, TypeOK

(* A start time that cannot be stored ends the request. *)
LEMMA StartTimeNotSet ==
    ASSUME SetStartTime, ~StartTimeIsSet
    PROVE  Retry \/ EndRequest([obj EXCEPT !.started = TRUE])
BY DEF SetStartTime, EndRequest

LEMMA LeaveType ==
    ASSUME TypeInv, Unread, Leave \/ Retry
    PROVE  TypeInv'
BY NewType DEF Leave, Retry, Done, Unread, TypeInv, TypeOK

LEMMA GoOnType ==
    ASSUME TypeInv, Unread, NEW label \in {"act", "iterate"}, GoOn(label, obj),
           obj.stage \notin {"New", "Completed"},
           label = "iterate" => obj.stage \in {"Running", "Finishing"}
    PROVE  TypeInv'
BY DEF GoOn, Unread, TypeInv, TypeOK

LEMMA LaunchType ==
    ASSUME TypeInv, Unread, NEW j \in Job, NEW o \in Status, NEW launched \in Status,
           launched.stage \notin {"New", "Completed"}, Launch(j, o, launched)
    PROVE  TypeInv'
<1>1. CASE EndRequest(Ended(o, "launch failed"))
  <2>1. Ended(o, "launch failed") \in Status
    BY Ending DEF Message
  <2>. QED BY <1>1, <2>1, EndRequestType
<1>2. CASE ~EndRequest(Ended(o, "launch failed"))
  <2>1. Created(j) \in [Job -> JobState]
    BY DEF Created, TypeInv, TypeOK, JobState
  <2>. QED BY <1>2, <2>1 DEF Launch, Unread, TypeInv, TypeOK
<1>. QED BY <1>1, <1>2

LEMMA FailType ==
    ASSUME TypeInv, Unread, NEW o \in Status, Fail(o)
    PROVE  TypeInv'
<1>1. Ended(Failed(o), "failed") \in Status
  BY Failing, Ending DEF Message
<1>. QED BY <1>1, EndRequestType DEF Fail

LEMMA TerminateType ==
    ASSUME TypeInv, Unread, pc = "iterate",
           NEW msg \in {"succeeded", "rolled back"}, Terminate(obj, msg)
    PROVE  TypeInv'
<1>1. obj \in Status /\ obj.stage \in {"Running", "Finishing"}
  BY DEF TypeInv, TypeOK
<1>2. Ended(obj, msg) \in Status
  BY <1>1, Ending DEF Message
<1>3. Advance(obj, "Finishing") \in Status /\ Advance(obj, "Finishing").stage = "Finishing"
  <2>1. "Finishing" \in Stage
    BY Stages
  <2>2. After("Finishing", obj.stage) \/ obj.stage = "Finishing"
    BY <1>1, Orders DEF Status
  <2>. QED BY <1>1, <2>1, <2>2, Advancing
<1>. QED BY <1>1, <1>2, <1>3, EndRequestType, LaunchType, JobsAre DEF Terminate

LEMMA SurroundingsType ==
    ASSUME TypeInv, Surroundings
    PROVE  TypeInv'
<1>. USE DEF TypeInv, TypeOK, cluster, memory
<1>1. CASE Edit
  <2>1. pending' \in Seq(Status)
    BY <1>1, AppendProperties DEF Edit, Publish
  <2>. QED BY <1>1, <2>1 DEF Edit, Publish
<1>2. CASE Deliver
  <2>1. Head(pending) \in Status /\ Tail(pending) \in Seq(Status)
    BY <1>2, HeadTailProperties DEF Deliver
  <2>. QED BY <1>2, <2>1 DEF Deliver
<1>3. CASE TimePasses \/ TimerFires \/ TargetReleased
  BY <1>3 DEF TimePasses, TimerFires, TargetReleased
<1>4. CASE Restart
  <2>1. <<>> \in Seq(Status)
    OBVIOUS
  <2>. QED BY <1>4, <2>1, NewType DEF Restart
<1>5. ASSUME NEW j \in Job, JobEnds(j) \/ JobAdded(j) \/ JobUpdated(j)
      PROVE  TypeInv'
  BY <1>5 DEF JobEnds, JobAdded, JobUpdated, JobState
<1>. QED BY <1>1, <1>2, <1>3, <1>4, <1>5 DEF Surroundings

LEMMA ReconcileType ==
    ASSUME TypeInv, Reconcile
    PROVE  TypeInv'
<1>1. Unread
  BY DEF Reconcile, Unread
<1>2. obj \in Status
  BY DEF TypeInv, TypeOK
<1>3. Message = {"none", "succeeded", "rolled back", "failed",
                 "handler completed", "handler failed", "launch failed"}
  BY DEF Message
<1>4. CASE Begin
  BY <1>1, <1>4 DEF Begin, Unread, TypeInv, TypeOK
<1>5. CASE InitializeStatus
  BY <1>1, <1>2, <1>5, Setting, EndRequestType DEF InitializeStatus
<1>6. CASE AlreadyCompleted \/ LoopWeightsFail
  BY <1>1, <1>6, LeaveType DEF AlreadyCompleted, LoopWeightsFail
<1>7. CASE HandlerRunning
  BY <1>1, <1>2, <1>7, LeaveType, EndRequestType DEF HandlerRunning
<1>8. CASE HandlerFinished
  <2>1. Ended(obj, "handler completed") \in Status
    BY <1>2, <1>3, Ending
  <2>. QED BY <1>1, <1>8, <2>1, EndRequestType DEF HandlerFinished
<1>9. CASE HandlerFailed
  <2>1. Ended(Failed(obj), "handler failed") \in Status
    BY <1>2, <1>3, Failing, Ending
  <2>. QED BY <1>1, <1>9, <2>1, EndRequestType DEF HandlerFailed
<1>10. CASE HandlersDone
  BY <1>1, <1>10, GoOnType DEF HandlersDone, Checking
<1>11. CASE InvalidTasks
  <2>1. Ended(obj, "failed") \in Status
    BY <1>2, <1>3, Ending
  <2>. QED BY <1>1, <1>11, <2>1, EndRequestType DEF InvalidTasks
<1>12. CASE AcquireTarget
  BY <1>1, <1>2, <1>12, Setting, LeaveType, EndRequestType DEF AcquireTarget
<1>13. CASE StartInitializing
  BY <1>1, <1>2, <1>13, Stages, Advancing, EndRequestType DEF StartInitializing
<1>14. CASE LaunchStart
  <2>1. obj.stage \notin {"New", "Completed"}
    BY <1>14 DEF LaunchStart, Initialized, TypeInv
  <2>. QED BY <1>1, <1>2, <1>14, <2>1, JobsAre, LaunchType DEF LaunchStart
<1>15. CASE ReadMetrics
  BY <1>1, <1>2, <1>15, Setting, EndRequestType, FailType DEF ReadMetrics
<1>16. CASE StartRunning
  <2>1. Advance(obj, "Running") \in Status
    BY <1>2, Stages, Advancing
  <2>. QED BY <1>1, <1>16, <2>1, EndRequestType, FailType DEF StartRunning
<1>17. CASE InvalidVersions \/ IterationFails
  BY <1>1, <1>2, <1>17, FailType DEF InvalidVersions, IterationFails
<1>18. CASE SetStartTime \/ KeepStartTime
  <2>1. Running /\ obj.stage \in {"Running", "Finishing"}
    <3>1. Running /\ obj.stage \notin {"New", "Completed"} /\ ~After("Running", obj.stage)
      BY <1>18 DEF SetStartTime, KeepStartTime, Running, Started, Initialized, TypeInv
    <3>. QED BY <1>2, <3>1, Orders, Stages DEF Status
  <2>2. /\ [obj EXCEPT !.started = TRUE] \in Status
        /\ [obj EXCEPT !.started = TRUE].stage = obj.stage
    BY <1>2 DEF Status
  <2>3. CASE StartTimeIsSet
    <3>1. pending' \in Seq(Status) /\ store' \in Status
      BY <2>2, <2>3, PublishType DEF StartTimeIsSet, TypeInv
    <3>. QED
      BY <1>1, <2>1, <2>2, <2>3, <3>1 DEF StartTimeIsSet, Unread, TypeInv, TypeOK
  <2>4. CASE SetStartTime /\ ~StartTimeIsSet
    BY <1>1, <2>2, <2>4, LeaveType, EndRequestType, StartTimeNotSet
  <2>5. CASE KeepStartTime
    BY <1>1, <2>1, <2>5, GoOnType DEF KeepStartTime
  <2>. QED BY <1>18, <2>3, <2>4, <2>5
<1>19. CASE FinishExperiment \/ RollbackExperiment
  BY <1>1, <1>19, TerminateType DEF FinishExperiment, RollbackExperiment, Iterating
<1>20. CASE TooEarly
  BY <1>1, <1>20, LeaveType DEF TooEarly
<1>21. CASE CompleteIteration
  <2>. DEFINE o == Iterated(obj)
  <2>1. pc = "iterate" /\ obj.iterations < MaxIterations
    BY <1>21 DEF CompleteIteration, Iterating, MoreIterationsNeeded
  <2>2. o \in Status /\ o.stage = obj.stage
    BY <1>2, <2>1, Counting
  <2>3. o.stage \notin {"New", "Completed"}
    BY <2>1, <2>2 DEF TypeInv
  <2>4. \/ Loop(LoopsDone(o)) \in Job /\ Launch(Loop(LoopsDone(o)), o, o)
        \/ EndRequestAndWait(o)
    <3>. HIDE DEF o
    <3>. QED BY <1>21, HandlersAre DEF CompleteIteration, o
  <2>. HIDE DEF o
  <2>. QED BY <1>1, <2>2, <2>3, <2>4, LaunchType, EndRequestType
<1>22. CASE SaveLaunch
  BY <1>1, <1>2, <1>22, EndRequestType DEF SaveLaunch
<1>. QED
  BY <1>4, <1>5, <1>6, <1>7, <1>8, <1>9, <1>10, <1>11, <1>12, <1>13, <1>14, <1>15, <1>16,
     <1>17, <1>18, <1>19, <1>20, <1>21, <1>22 DEF Reconcile

LEMMA NextType == TypeInv /\ [Next]_vars => TypeInv'
<1>1. TypeInv /\ UNCHANGED vars => TypeInv'
  BY DEF TypeInv, TypeOK, vars
<1>. QED BY <1>1, SurroundingsType, ReconcileType DEF Next

LEMMA TypesAlways == Spec => []TypeInv
BY InitType, NextType, PTL DEF Spec

(* Every variable keeps its type in every behaviour; in particular no      *)
(* request, however stale, counts more iterations than there are.          *)
THEOREM TypeCorrect == Spec => []TypeOK
<1>1. TypeInv => TypeOK
  BY DEF TypeInv
<1>. QED BY <1>1, TypesAlways, PTL

-----------------------------------------------------------------------------
(***************************************************************************)
(* The version that was read.  A cache without events on their way is the  *)
(* stored status, the last event carries it, and a request that still has  *)
(* the stored version in its hands has that very status, or what a launch  *)
(* makes of it.                                                            *)
(***************************************************************************)
LaunchStep(s, t) ==
    \/ t = s
    \/ /\ s.stage \in {"Running", "Finishing"}
       /\ t = Advance(s, "Finishing")
    \/ /\ s.stage \in {"Running", "Finishing"}
       /\ s.iterations < MaxIterations
       /\ t = Iterated(s)

VersionInv ==
    /\ pending = <<>> => cache = store
    /\ pending # <<>> => pending[Len(pending)] = store
    /\ pc = "idle" => ~current
    /\ current /\ pc # "save" => obj = store
    /\ current /\ pc = "save" => LaunchStep(store, obj)
    /\ store.failed \/ store.message # "none" => store.stage = "Completed"

(* What one write may make of a status. *)
StatusStep(s, t) ==
    /\ s.stage # "Completed"
    /\ Rank[s.stage] <= Rank[t.stage]
    /\ t.iterations \in {s.iterations, s.iterations + 1}
    /\ s.acquired => t.acquired
    /\ s.metrics => t.metrics
    /\ s.started => t.started
    /\ s.failed => t.failed
    /\ t.failed \/ t.message # "none" => t.stage = "Completed"

(* Where in Reconcile it may happen, and on what conditions.               *)
MayWrite(t) ==
    /\ current /\ pc # "idle"
    /\ StatusStep(store, t)
    /\ t.stage = "Finishing" /\ store.stage # "Finishing" => pc = "save" /\ t = obj
    /\ t.stage = "Running" /\ store.stage # "Running" => pc = "act" /\ ~StartNotLaunched
    /\ t.iterations # store.iterations =>
          \/ pc = "save" /\ t = obj
          \/ /\ pc = "iterate"
             /\ t.iterations <= MaxIterations
             /\ \/ ~(CompletedLoop(t) /\ Loop(LoopsDone(t)) \in Handler)
                \/ t.message = "launch failed"
    /\ t.message = "succeeded" =>
          /\ pc = "iterate" /\ Finish \notin Handler
          /\ store.iterations = MaxIterations /\ t.iterations = MaxIterations
          /\ ~t.failed
    /\ t.message = "failed" => t.failed \/ "tasks" \in Faults
    /\ t.message = "handler failed" => t.failed
    /\ t.message = "launch failed" => "create" \in Faults

Outcome ==
    \/ UNCHANGED <<store, pending>>
    \/ /\ MayWrite(store')
       /\ jobs' = jobs
       /\ pending' = Append(pending, store')

LEMMA Ends ==
    ASSUME NEW o, current => MayWrite(o), EndRequest(o) \/ EndRequestAndWait(o)
    PROVE  Outcome
BY DEF EndRequest, EndRequestAndWait, WriteFails, UpdateStatus, Publish, Outcome

LEMMA Leaves ==
    ASSUME Leave \/ Retry
    PROVE  Outcome
BY DEF Leave, Retry, Outcome

(* In a request that holds the stored version. *)
Holds == TypeInv /\ VersionInv /\ current /\ pc \notin {"idle", "save"} /\ store.stage # "Completed"

LEMMA Holding ==
    ASSUME Holds
    PROVE  /\ obj = store /\ obj \in Status
           /\ ~store.failed /\ store.message = "none"
           /\ store.iterations \in 0..MaxIterations
           /\ store.stage \in Stage
BY DEF Holds, TypeInv, TypeOK, VersionInv, Status

(* A status that only advances, or whose flags are set. *)
LEMMA PlainWrites ==
    ASSUME Holds, NEW t \in Status,
           t.stage = store.stage \/ t.stage \in {"Waiting", "Initializing"}
              \/ (t.stage = "Running" /\ pc = "act" /\ ~StartNotLaunched),
           Rank[store.stage] <= Rank[t.stage],
           t.iterations = store.iterations,
           t.failed = store.failed, t.message = store.message,
           store.acquired => t.acquired, store.metrics => t.metrics, store.started => t.started
    PROVE  MayWrite(t)
BY Holding DEF Holds, MayWrite, StatusStep

LEMMA EndingWrites ==
    ASSUME Holds, NEW t \in Status, NEW m \in Message,
           \/ t = store
           \/ t = Failed(store)
           \/ t = Failed(Advance(store, "Running")),
           m # "none",
           m = "succeeded" => /\ pc = "iterate" /\ Finish \notin Handler
                              /\ store.iterations = MaxIterations
                              /\ t = store,
           m = "failed" => t.failed \/ "tasks" \in Faults,
           m = "handler failed" => t.failed,
           m = "launch failed" => "create" \in Faults
    PROVE  MayWrite(Ended(t, m))
<1>1. /\ t.iterations = store.iterations /\ t.acquired = store.acquired
      /\ t.metrics = store.metrics /\ t.started = store.started
  <2>1. obj = store /\ store \in Status /\ "Running" \in Stage
    BY Holding, Stages
  <2>3. CASE t = Failed(store)
    BY <2>1, <2>3, Failing
  <2>4. CASE t = Failed(Advance(store, "Running"))
    <3>. DEFINE a == Advance(store, "Running")
    <3>1. /\ a \in Status /\ a.iterations = store.iterations /\ a.acquired = store.acquired
          /\ a.metrics = store.metrics /\ a.started = store.started
      BY <2>1, Advancing
    <3>. HIDE DEF a
    <3>2. t = Failed(a)
      BY <2>4 DEF a
    <3>. QED BY <3>1, <3>2, Failing
  <2>. QED BY <2>3, <2>4
<1>. DEFINE e == Ended(t, m)
<1>2. /\ e.stage = "Completed" /\ e.message = m /\ e.failed = t.failed
      /\ e.iterations = store.iterations /\ e.acquired = store.acquired
      /\ e.metrics = store.metrics /\ e.started = store.started
  BY <1>1, Ending
<1>3. Rank[store.stage] <= Rank["Completed"]
  <2>1. store.stage \in Stage
    BY Holding
  <2>. QED BY <2>1, Orders
<1>. SUFFICES MayWrite(e)
  OBVIOUS
<1>. HIDE DEF e
<1>4. StatusStep(store, e)
  BY <1>2, <1>3, Holding DEF Holds, StatusStep
<1>5. current /\ pc # "idle" /\ store.iterations = e.iterations
  BY <1>2 DEF Holds
<1>6. e.message = "succeeded" =>
          /\ pc = "iterate" /\ Finish \notin Handler
          /\ store.iterations = MaxIterations /\ e.iterations = MaxIterations
          /\ ~e.failed
  BY <1>2, Holding
<1>. QED BY <1>2, <1>4, <1>5, <1>6 DEF MayWrite

LEMMA FailWrites ==
    ASSUME TypeInv, VersionInv, pc \in {"act", "iterate"}, Fail(obj)
    PROVE  Outcome
<1>1. ASSUME current
      PROVE  MayWrite(Ended(Failed(obj), "failed"))
  <2>1. Holds /\ obj = store
    BY <1>1 DEF Holds, VersionInv, TypeInv
  <2>2. Failed(obj) \in Status /\ Failed(obj).failed
    BY <2>1, Holding, Failing
  <2>. QED BY <2>1, <2>2, EndingWrites DEF Message
<1>. QED BY <1>1, Ends DEF Fail

LEMMA LaunchWrites ==
    ASSUME TypeInv, VersionInv, pc \in {"act", "iterate"}, NEW j, NEW o, NEW launched,
           Launch(j, o, launched), 
           "create" \in Faults /\ current => MayWrite(Ended(o, "launch failed"))
    PROVE  Outcome
BY Ends DEF Launch, Outcome

LEMMA CheckWrites ==
    ASSUME TypeInv, VersionInv, pc = "check",
           \/ InitializeStatus \/ AlreadyCompleted
           \/ HandlerRunning \/ HandlerFinished \/ HandlerFailed \/ LoopWeightsFail
           \/ HandlersDone
    PROVE  Outcome
<1>1. obj \in Status
  BY DEF TypeInv, TypeOK
<1>2. ASSUME current, obj.stage # "Completed"
      PROVE  Holds /\ obj = store
  BY <1>2 DEF Holds, VersionInv
<1>3. CASE InitializeStatus
  <2>1. ASSUME current
        PROVE  MayWrite([obj EXCEPT !.stage = "Waiting"])
    <3>. DEFINE t == [obj EXCEPT !.stage = "Waiting"]
    <3>1. /\ t \in Status /\ t.stage = "Waiting" /\ t.iterations = obj.iterations
          /\ t.failed = obj.failed /\ t.message = obj.message
          /\ t.acquired = obj.acquired /\ t.metrics = obj.metrics /\ t.started = obj.started
      BY <1>1, Setting DEF Status
    <3>2. Rank["New"] <= Rank["Waiting"]
      BY Ranks
    <3>3. obj.stage = "New"
      BY <1>3 DEF InitializeStatus
    <3>. HIDE DEF t
    <3>4. MayWrite(t)
      BY <1>2, <2>1, <3>1, <3>2, <3>3, PlainWrites
    <3>. QED BY <3>4 DEF t
  <2>. QED BY <1>3, <2>1, Ends DEF InitializeStatus
<1>4. CASE AlreadyCompleted \/ LoopWeightsFail
  BY <1>4, Leaves DEF AlreadyCompleted, LoopWeightsFail
<1>5. CASE HandlerRunning
  <2>1. obj.stage # "Completed"
    BY <1>5 DEF HandlerRunning, Checking
  <2>2. current => MayWrite(obj)
    <3>1. Rank[obj.stage] <= Rank[obj.stage]
      BY <1>1, Ranks DEF Status
    <3>. QED BY <1>1, <1>2, <2>1, <3>1, PlainWrites
  <2>. QED BY <1>5, <2>2, Ends, Leaves DEF HandlerRunning
<1>6. CASE HandlerFinished
  <2>1. obj.stage # "Completed"
    BY <1>6 DEF HandlerFinished, Checking
  <2>2. current => MayWrite(Ended(obj, "handler completed"))
    BY <1>1, <1>2, <2>1, EndingWrites DEF Message
  <2>. QED BY <1>6, <2>2, Ends DEF HandlerFinished
<1>7. CASE HandlerFailed
  <2>1. obj.stage # "Completed"
    BY <1>7 DEF HandlerFailed, Checking
  <2>2. Failed(obj) \in Status /\ Failed(obj).failed
    BY <1>1, Failing
  <2>3. current => MayWrite(Ended(Failed(obj), "handler failed"))
    BY <1>2, <2>1, <2>2, EndingWrites DEF Message
  <2>. QED BY <1>7, <2>3, Ends DEF HandlerFailed
<1>8. CASE HandlersDone
  BY <1>8 DEF HandlersDone, GoOn, Outcome
<1>. QED BY <1>3, <1>4, <1>5, <1>6, <1>7, <1>8

LEMMA ActWrites ==
    ASSUME TypeInv, VersionInv, pc = "act",
           \/ InvalidTasks \/ AcquireTarget \/ StartInitializing \/ LaunchStart
           \/ ReadMetrics \/ StartRunning \/ InvalidVersions
           \/ (SetStartTime /\ ~StartTimeIsSet) \/ KeepStartTime
    PROVE  Outcome
<1>1. obj \in Status
  BY DEF TypeInv, TypeOK
<1>2. ASSUME current
      PROVE  Holds /\ obj = store
  BY <1>2 DEF Holds, VersionInv, TypeInv
<1>3. CASE InvalidTasks
  <2>1. current => MayWrite(Ended(obj, "failed"))
    BY <1>1, <1>2, <1>3, EndingWrites DEF InvalidTasks, Message
  <2>. QED BY <1>3, <2>1, Ends DEF InvalidTasks
<1>4. CASE AcquireTarget
  <2>. DEFINE t == [obj EXCEPT !.acquired = TRUE]
  <2>1. /\ t \in Status /\ t.stage = obj.stage /\ t.iterations = obj.iterations
        /\ t.failed = obj.failed /\ t.message = obj.message
        /\ t.acquired /\ t.metrics = obj.metrics /\ t.started = obj.started
    BY <1>1, Setting DEF Status
  <2>2. Rank[obj.stage] <= Rank[obj.stage]
    BY <1>1, Ranks DEF Status
  <2>3. EndRequest(t) \/ Leave
    BY <1>4 DEF AcquireTarget
  <2>. HIDE DEF t
  <2>4. current => MayWrite(t)
    BY <1>2, <2>1, <2>2, PlainWrites
  <2>. QED BY <2>3, <2>4, Ends, Leaves
<1>5. CASE StartInitializing
  <2>. DEFINE t == Advance(obj, "Initializing")
  <2>1. obj.stage = "Waiting" /\ EndRequest(t)
    BY <1>5 DEF StartInitializing
  <2>2. /\ t \in Status /\ t.stage = "Initializing" /\ t.iterations = obj.iterations
        /\ t.failed = obj.failed /\ t.message = obj.message
        /\ t.acquired = obj.acquired /\ t.metrics = obj.metrics /\ t.started = obj.started
    BY <1>1, <2>1, Advancing, Orders, Stages
  <2>3. Rank["Waiting"] <= Rank["Initializing"]
    BY Ranks
  <2>. HIDE DEF t
  <2>4. current => MayWrite(t)
    BY <1>2, <2>1, <2>2, <2>3, PlainWrites
  <2>. QED BY <2>1, <2>4, Ends
<1>6. CASE LaunchStart
  <2>1. "create" \in Faults /\ current => MayWrite(Ended(obj, "launch failed"))
    BY <1>1, <1>2, EndingWrites DEF Message
  <2>. QED BY <1>6, <2>1, LaunchWrites DEF LaunchStart
<1>7. CASE ReadMetrics
  <2>. DEFINE t == [obj EXCEPT !.metrics = TRUE]
  <2>1. /\ t \in Status /\ t.stage = obj.stage /\ t.iterations = obj.iterations
        /\ t.failed = obj.failed /\ t.message = obj.message
        /\ t.acquired = obj.acquired /\ t.metrics /\ t.started = obj.started
    BY <1>1, Setting DEF Status
  <2>2. Rank[obj.stage] <= Rank[obj.stage]
    BY <1>1, Ranks DEF Status
  <2>3. EndRequest(t) \/ Fail(obj)
    BY <1>7 DEF ReadMetrics
  <2>. HIDE DEF t
  <2>4. current => MayWrite(t)
    BY <1>2, <2>1, <2>2, PlainWrites
  <2>. QED BY <2>3, <2>4, Ends, FailWrites
<1>8. CASE StartRunning
  <2>. DEFINE t == Advance(obj, "Running")
  <2>1. /\ obj.stage \in {"New", "Waiting", "Initializing"} /\ ~StartNotLaunched
        /\ EndRequest(t) \/ Fail(t)
    BY <1>1, <1>8, Orders DEF StartRunning, Started, Status
  <2>2. /\ t \in Status /\ t.stage = "Running" /\ t.iterations = obj.iterations
        /\ t.failed = obj.failed /\ t.message = obj.message
        /\ t.acquired = obj.acquired /\ t.metrics = obj.metrics /\ t.started = obj.started
    BY <1>1, <2>1, Advancing, Orders, Stages
  <2>3. Rank[obj.stage] <= Rank["Running"]
    BY <2>1, Ranks
  <2>4. CASE EndRequest(t)
    <3>. HIDE DEF t
    <3>1. current => MayWrite(t)
      BY <1>2, <2>1, <2>2, <2>3, PlainWrites
    <3>. QED BY <2>4, <3>1, Ends
  <2>5. CASE Fail(t)
    <3>1. Failed(t) \in Status /\ Failed(t).failed
      BY <2>2, Failing
    <3>2. current => MayWrite(Ended(Failed(t), "failed"))
      BY <1>2, <3>1, EndingWrites DEF Message
    <3>. QED BY <2>5, <3>2, Ends DEF Fail
  <2>. QED BY <2>1, <2>4, <2>5
<1>9. CASE InvalidVersions
  BY <1>9, FailWrites DEF InvalidVersions
<1>10. CASE KeepStartTime
  BY <1>10 DEF KeepStartTime, GoOn, Outcome
<1>11. CASE SetStartTime /\ ~StartTimeIsSet
  <2>. DEFINE t == [obj EXCEPT !.started = TRUE]
  <2>1. /\ t \in Status /\ t.stage = obj.stage /\ t.iterations = obj.iterations
        /\ t.failed = obj.failed /\ t.message = obj.message
        /\ t.acquired = obj.acquired /\ t.metrics = obj.metrics /\ t.started
    BY <1>1, Setting DEF Status
  <2>2. Rank[obj.stage] <= Rank[obj.stage]
    BY <1>1, Ranks DEF Status
  <2>3. Retry \/ EndRequest(t)
    BY <1>11, StartTimeNotSet
  <2>. HIDE DEF t
  <2>4. current => MayWrite(t)
    BY <1>2, <2>1, <2>2, PlainWrites
  <2>. QED BY <2>3, <2>4, Ends, Leaves
<1>. QED
  BY <1>3, <1>4, <1>5, <1>6, <1>7, <1>8, <1>9, <1>10, <1>11

LEMMA StartTimeWrites ==
    ASSUME TypeInv, VersionInv, SetStartTime, StartTimeIsSet
    PROVE  Outcome /\ store' = obj' /\ pc' = "iterate"
<1>. DEFINE t == [obj EXCEPT !.started = TRUE]
<1>1. obj \in Status /\ pc = "act"
  BY DEF TypeInv, TypeOK, SetStartTime, Running, Started, Initialized
<1>2. Holds /\ obj = store
  BY <1>1 DEF StartTimeIsSet, Holds, VersionInv, TypeInv
<1>3. /\ t \in Status /\ t.stage = obj.stage /\ t.iterations = obj.iterations
      /\ t.failed = obj.failed /\ t.message = obj.message
      /\ t.acquired = obj.acquired /\ t.metrics = obj.metrics /\ t.started
  BY <1>1, Setting DEF Status
<1>4. Rank[obj.stage] <= Rank[obj.stage]
  BY <1>1, Ranks DEF Status
<1>5. Publish(t) /\ obj' = t /\ pc' = "iterate" /\ jobs' = jobs
  BY DEF StartTimeIsSet
<1>. HIDE DEF t
<1>6. MayWrite(t)
  BY <1>2, <1>3, <1>4, PlainWrites
<1>. QED BY <1>5, <1>6 DEF Publish, Outcome

LEMMA IterateWrites ==
    ASSUME TypeInv, VersionInv, pc = "iterate",
           \/ FinishExperiment \/ TooEarly \/ IterationFails \/ RollbackExperiment
           \/ CompleteIteration
    PROVE  Outcome
<1>1. obj \in Status /\ obj.stage \in {"Running", "Finishing"}
  BY DEF TypeInv, TypeOK
<1>2. ASSUME current
      PROVE  Holds /\ obj = store
  BY <1>1, <1>2 DEF Holds, VersionInv
<1>3. "create" \in Faults /\ current => MayWrite(Ended(obj, "launch failed"))
  BY <1>1, <1>2, EndingWrites DEF Message
<1>4. CASE FinishExperiment
  <2>1. obj.iterations = MaxIterations
    BY <1>1, <1>4, ConstantsOK DEF FinishExperiment, MoreIterationsNeeded, Status
  <2>2. current /\ Finish \notin Handler => MayWrite(Ended(obj, "succeeded"))
    BY <1>1, <1>2, <2>1, EndingWrites DEF Message
  <2>. QED
    BY <1>3, <1>4, <2>2, Ends, LaunchWrites DEF FinishExperiment, Terminate
<1>5. CASE RollbackExperiment
  <2>1. current => MayWrite(Ended(obj, "rolled back"))
    BY <1>1, <1>2, EndingWrites DEF Message
  <2>. QED
    BY <1>3, <1>5, <2>1, Ends, LaunchWrites DEF RollbackExperiment, Terminate
<1>6. CASE TooEarly
  BY <1>6, Leaves DEF TooEarly
<1>7. CASE IterationFails
  BY <1>7, FailWrites DEF IterationFails
<1>8. CASE CompleteIteration
  <2>. DEFINE o == Iterated(obj)
  <2>1. obj.iterations < MaxIterations
    BY <1>8 DEF CompleteIteration, Iterating, MoreIterationsNeeded
  <2>2. /\ o \in Status /\ o.iterations = obj.iterations + 1 /\ o.stage = obj.stage
        /\ o.acquired = obj.acquired /\ o.message = obj.message
        /\ o.metrics = obj.metrics /\ o.started = obj.started /\ o.failed = obj.failed
    BY <1>1, <2>1, Counting
  <2>3. IF CompletedLoop(o) /\ Loop(LoopsDone(o)) \in Handler
          THEN Launch(Loop(LoopsDone(o)), o, o)
          ELSE EndRequestAndWait(o)
    BY <1>8 DEF CompleteIteration
  <2>4. Rank[obj.stage] <= Rank[obj.stage] /\ o.iterations <= MaxIterations
    BY <1>1, <2>1, <2>2, Ranks, ConstantsOK DEF Status
  <2>. HIDE DEF o
  <2>5. current => StatusStep(store, o)
    BY <1>1, <1>2, <2>2, <2>4, Holding DEF Holds, StatusStep
  <2>6. CASE CompletedLoop(o) /\ Loop(LoopsDone(o)) \in Handler
    <3>1. ASSUME "create" \in Faults, current
          PROVE  MayWrite(Ended(o, "launch failed"))
      <4>. DEFINE e == Ended(o, "launch failed")
      <4>1. /\ e.stage = "Completed" /\ e.message = "launch failed" /\ e.failed = o.failed
            /\ e.iterations = o.iterations /\ e.acquired = o.acquired
            /\ e.metrics = o.metrics /\ e.started = o.started
        BY <2>2, Ending DEF Message
      <4>2. Rank[obj.stage] <= Rank["Completed"]
        BY <1>1, Orders DEF Status
      <4>. SUFFICES MayWrite(e)
        OBVIOUS
      <4>. HIDE DEF e
      <4>3. StatusStep(store, e)
        BY <1>2, <2>2, <3>1, <4>1, <4>2, Holding DEF Holds, StatusStep
      <4>. QED BY <1>2, <2>2, <2>4, <3>1, <4>1, <4>3, Holding DEF Holds, MayWrite
    <3>. QED BY <2>3, <2>6, <3>1, LaunchWrites
  <2>7. CASE ~(CompletedLoop(o) /\ Loop(LoopsDone(o)) \in Handler)
    <3>1. current => MayWrite(o)
      BY <1>1, <1>2, <2>2, <2>4, <2>5, <2>7, Holding DEF Holds, MayWrite
    <3>. QED BY <2>3, <2>7, <3>1, Ends
  <2>. QED BY <2>6, <2>7
<1>. QED BY <1>4, <1>5, <1>6, <1>7, <1>8

LEMMA SaveWrites ==
    ASSUME TypeInv, VersionInv, SaveLaunch
    PROVE  Outcome
<1>1. obj \in Status /\ store \in Status /\ pc = "save" /\ EndRequest(obj)
      /\ obj.stage \notin {"New", "Completed"}
  BY DEF TypeInv, TypeOK, SaveLaunch
<1>2. ASSUME current
      PROVE  MayWrite(obj)
  <2>1. LaunchStep(store, obj)
    BY <1>1, <1>2 DEF VersionInv
  <2>2. CASE obj = store
    <3>1. Rank[obj.stage] <= Rank[obj.stage]
      BY <1>1, Ranks DEF Status
    <3>. QED BY <1>1, <1>2, <2>2, <3>1 DEF MayWrite, StatusStep, VersionInv, Status
  <2>3. CASE store.stage \in {"Running", "Finishing"} /\ obj = Advance(store, "Finishing")
    <3>1. /\ obj.stage = "Finishing" /\ obj.iterations = store.iterations
          /\ obj.failed = store.failed /\ obj.message = store.message
          /\ obj.acquired = store.acquired /\ obj.metrics = store.metrics
          /\ obj.started = store.started
      BY <1>1, <2>3, Advancing, Orders, Stages
    <3>2. Rank[store.stage] <= Rank[obj.stage]
      BY <2>3, <3>1, Ranks
    <3>. QED BY <1>1, <1>2, <2>3, <3>1, <3>2 DEF MayWrite, StatusStep, VersionInv, Status
  <2>4. CASE /\ store.stage \in {"Running", "Finishing"}
             /\ store.iterations < MaxIterations /\ obj = Iterated(store)
    <3>1. /\ obj.stage = store.stage /\ obj.iterations = store.iterations + 1
          /\ obj.failed = store.failed /\ obj.message = store.message
          /\ obj.acquired = store.acquired /\ obj.metrics = store.metrics
          /\ obj.started = store.started
      BY <1>1, <2>4, Counting
    <3>2. Rank[store.stage] <= Rank[obj.stage]
      BY <2>4, <3>1, Ranks
    <3>. QED BY <1>1, <1>2, <2>4, <3>1, <3>2 DEF MayWrite, StatusStep, VersionInv, Status
  <2>. QED BY <2>1, <2>2, <2>3, <2>4 DEF LaunchStep
<1>. QED BY <1>1, <1>2, Ends

LEMMA ReconcileWrites ==
    ASSUME TypeInv, VersionInv, Reconcile
    PROVE  Outcome
<1>1. CASE Begin
  BY <1>1 DEF Begin, Outcome
<1>2. CASE \/ InitializeStatus \/ AlreadyCompleted
           \/ HandlerRunning \/ HandlerFinished \/ HandlerFailed \/ LoopWeightsFail
           \/ HandlersDone
  <2>1. pc = "check"
    BY <1>2 DEF InitializeStatus, AlreadyCompleted, HandlerRunning, HandlerFinished,
       HandlerFailed, LoopWeightsFail, HandlersDone, Checking
  <2>. QED BY <1>2, <2>1, CheckWrites
<1>3. CASE SetStartTime /\ StartTimeIsSet
  BY <1>3, StartTimeWrites
<1>4. CASE \/ InvalidTasks \/ AcquireTarget \/ StartInitializing \/ LaunchStart
           \/ ReadMetrics \/ StartRunning \/ InvalidVersions
           \/ (SetStartTime /\ ~StartTimeIsSet) \/ KeepStartTime
  <2>1. pc = "act"
    BY <1>4 DEF InvalidTasks, AcquireTarget, StartInitializing, LaunchStart, ReadMetrics,
       StartRunning, InvalidVersions, SetStartTime, KeepStartTime, Running, Started, Initialized
  <2>. QED BY <1>4, <2>1, ActWrites
<1>5. CASE \/ FinishExperiment \/ TooEarly \/ IterationFails \/ RollbackExperiment
           \/ CompleteIteration
  <2>1. pc = "iterate"
    BY <1>5 DEF FinishExperiment, TooEarly, IterationFails, RollbackExperiment,
       CompleteIteration, Iterating
  <2>. QED BY <1>5, <2>1, IterateWrites
<1>6. CASE SaveLaunch
  BY <1>6, SaveWrites
<1>. QED BY <1>1, <1>2, <1>3, <1>4, <1>5, <1>6 DEF Reconcile

LEMMA SurroundingsKeep ==
    ASSUME Surroundings
    PROVE  store' = store
BY DEF Surroundings, Edit, Publish, Deliver, TimePasses, TimerFires, TargetReleased, Restart,
   JobEnds, JobAdded, JobUpdated

(* The stored status changes only by a write that holds its version.       *)
LEMMA StoreSteps ==
    ASSUME TypeInv, VersionInv, [Next]_vars
    PROVE  \/ store' = store
           \/ MayWrite(store') /\ jobs' = jobs /\ pending' = Append(pending, store')
<1>1. CASE UNCHANGED vars
  BY <1>1 DEF vars
<1>. QED BY <1>1, SurroundingsKeep, ReconcileWrites DEF Next, Outcome

(* What a request holds after a step that leaves it the stored version.    *)
Keeping ==
    \/ pc' = "check" /\ obj' = cache /\ pending = <<>> /\ store' = store
    \/ current /\ pc' \in {"act", "iterate"} /\ pc # "save" /\ obj' = obj /\ store' = store
    \/ pc' = "iterate" /\ obj' = store'
    \/ /\ pc' = "save" /\ pc # "save" /\ current /\ store' = store
       /\ LaunchStep(obj, obj')

LEMMA Keeps ==
    ASSUME TypeInv, VersionInv, Reconcile
    PROVE  /\ pc' = "idle" => ~current'
           /\ current' => Keeping
<1>1. CASE Begin
  BY <1>1 DEF Begin, Keeping
<1>2. ASSUME NEW o, EndRequest(o) \/ EndRequestAndWait(o) \/ Leave \/ Retry \/ Fail(o)
      PROVE  pc' = "idle" /\ ~current'
  BY <1>2 DEF EndRequest, EndRequestAndWait, WriteFails, Leave, Retry, Fail, Done
<1>3. CASE \/ InitializeStatus \/ AlreadyCompleted
           \/ HandlerRunning \/ HandlerFinished \/ HandlerFailed \/ LoopWeightsFail
           \/ InvalidTasks \/ AcquireTarget \/ StartInitializing
           \/ ReadMetrics \/ StartRunning \/ InvalidVersions
           \/ TooEarly \/ IterationFails \/ SaveLaunch \/ (SetStartTime /\ ~StartTimeIsSet)
  BY <1>2, <1>3, StartTimeNotSet DEF InitializeStatus, AlreadyCompleted, HandlerRunning,
     HandlerFinished, HandlerFailed, LoopWeightsFail, InvalidTasks, AcquireTarget,
     StartInitializing, ReadMetrics, StartRunning, InvalidVersions, TooEarly, IterationFails,
     SaveLaunch
<1>4. CASE HandlersDone \/ KeepStartTime
  <2>1. pc \in {"check", "act"}
    BY <1>4 DEF HandlersDone, Checking, KeepStartTime, Running, Started, Initialized
  <2>. QED BY <1>4, <2>1 DEF HandlersDone, KeepStartTime, GoOn, Keeping
<1>5. CASE SetStartTime /\ StartTimeIsSet
  <2>1. store' = obj' /\ pc' = "iterate"
    BY <1>5, StartTimeWrites
  <2>. QED BY <2>1 DEF Keeping
<1>6. ASSUME NEW j, NEW o, NEW launched, Launch(j, o, launched),
             pc # "save", LaunchStep(obj, launched)
      PROVE  /\ pc' = "idle" => ~current'
             /\ current' => Keeping
  <2>1. CASE EndRequest(Ended(o, "launch failed"))
    BY <1>2, <2>1
  <2>2. CASE pc' = "save" /\ obj' = launched /\ UNCHANGED <<store, current>>
    BY <1>6, <2>2 DEF Keeping
  <2>. QED BY <1>6, <2>1, <2>2 DEF Launch
<1>7. CASE LaunchStart
  <2>1. pc = "act" /\ Launch(Start, obj, obj)
    BY <1>7 DEF LaunchStart, Initialized
  <2>2. LaunchStep(obj, obj)
    BY DEF LaunchStep
  <2>. QED BY <1>6, <2>1, <2>2
<1>8. CASE FinishExperiment \/ RollbackExperiment
  <2>1. /\ pc = "iterate"
        /\ \E msg : Launch(Finish, obj, Advance(obj, "Finishing")) \/ EndRequest(Ended(obj, msg))
    BY <1>8 DEF FinishExperiment, RollbackExperiment, Iterating, Terminate
  <2>2. LaunchStep(obj, Advance(obj, "Finishing"))
    BY <2>1 DEF LaunchStep, TypeInv
  <2>. QED BY <1>2, <1>6, <2>1, <2>2
<1>9. CASE CompleteIteration
  <2>1. /\ pc = "iterate" /\ obj.iterations < MaxIterations
        /\ \/ Launch(Loop(LoopsDone(Iterated(obj))), Iterated(obj), Iterated(obj))
           \/ EndRequestAndWait(Iterated(obj))
    BY <1>9 DEF CompleteIteration, Iterating, MoreIterationsNeeded
  <2>2. LaunchStep(obj, Iterated(obj))
    BY <2>1 DEF LaunchStep, TypeInv
  <2>. QED BY <1>2, <1>6, <2>1, <2>2
<1>. QED BY <1>1, <1>3, <1>4, <1>5, <1>7, <1>8, <1>9 DEF Reconcile

LEMMA InitVersion == Init => VersionInv
<1>1. <<NewStatus>> # <<>> /\ <<NewStatus>>[Len(<<NewStatus>>)] = NewStatus
  OBVIOUS
<1>. QED BY <1>1 DEF Init, VersionInv, NewStatus

LEMMA NextVersion ==
    ASSUME TypeInv, VersionInv, [Next]_vars
    PROVE  VersionInv'
<1>1. pending \in Seq(Status) /\ store \in Status /\ store' \in Status
  BY NextType DEF TypeInv, TypeOK
<1>2. CASE Reconcile
  <2>1. /\ pending' = <<>> => cache' = store'
        /\ pending' # <<>> => pending'[Len(pending')] = store'
    <3>1. CASE UNCHANGED <<store, pending>>
      BY <1>2, <3>1 DEF Reconcile, VersionInv
    <3>2. CASE pending' = Append(pending, store')
      BY <1>1, <3>2, AppendProperties
    <3>. QED BY <1>2, <3>1, <3>2, ReconcileWrites DEF Outcome
  <2>2. store'.failed \/ store'.message # "none" => store'.stage = "Completed"
    BY <1>2, ReconcileWrites DEF Outcome, MayWrite, StatusStep, VersionInv
  <2>3. pc' = "idle" => ~current'
    BY <1>2, Keeps
  <2>4. ASSUME current'
        PROVE  IF pc' = "save" THEN LaunchStep(store', obj') ELSE obj' = store'
    BY <1>2, <2>4, Keeps DEF Keeping, VersionInv
  <2>. QED BY <2>1, <2>2, <2>3, <2>4 DEF VersionInv
<1>3. CASE Edit
  <2>1. pending' = Append(pending, store)
    BY <1>3 DEF Edit, Publish
  <2>. QED
    BY <1>1, <1>3, <2>1, AppendProperties DEF Edit, Publish, VersionInv
<1>4. CASE Deliver
  <2>1. /\ Tail(pending) \in Seq(Status) /\ Len(Tail(pending)) = Len(pending) - 1
        /\ \A i \in 1..Len(Tail(pending)) : Tail(pending)[i] = pending[i + 1]
        /\ Head(pending) = pending[1]
    BY <1>1, <1>4, HeadTailProperties DEF Deliver
  <2>2. CASE Tail(pending) = <<>>
    <3>1. Len(pending) = 1
      <4>1. Len(<<>>) = 0 /\ Len(pending) \in Nat
        BY <1>1
      <4>2. Len(Tail(pending)) = 0
        BY <2>2, <4>1, Zenon
      <4>3. Len(Tail(pending)) = Len(pending) - 1
        BY <2>1
      <4>. QED BY <4>1, <4>2, <4>3
    <3>. QED BY <1>4, <2>1, <2>2, <3>1 DEF Deliver, VersionInv, memory
  <2>3. CASE Tail(pending) # <<>>
    <3>1. Len(Tail(pending)) \in 1..Len(Tail(pending)) /\ Len(pending) \in Nat
      BY <1>1, <2>1, <2>3, EmptySeq
    <3>2. Tail(pending)[Len(Tail(pending))] = pending[Len(pending)]
      BY <2>1, <3>1
    <3>. QED BY <1>4, <2>3, <3>2 DEF Deliver, VersionInv, memory
  <2>. QED BY <2>2, <2>3
<1>5. CASE Restart
  BY <1>5 DEF Restart, VersionInv
<1>6. CASE \/ TimePasses \/ TimerFires \/ TargetReleased \/ UNCHANGED vars
           \/ \E j \in Job : JobEnds(j) \/ JobAdded(j) \/ JobUpdated(j)
  <2>1. UNCHANGED <<store, pending, cache, pc, obj, current>>
    BY <1>6 DEF TimePasses, TimerFires, TargetReleased, vars, JobEnds, JobAdded, JobUpdated,
       memory
  <2>. QED BY <2>1 DEF VersionInv
<1>. QED BY <1>2, <1>3, <1>4, <1>5, <1>6 DEF Next, Surroundings

(* A request whose write will take effect works on the stored status,      *)
(* however old the cache was, and what has ended is completed.             *)
THEOREM WritesAreFresh == Spec => [](TypeInv /\ VersionInv)
<1>1. TypeInv /\ VersionInv /\ [Next]_vars => (TypeInv /\ VersionInv)'
  BY NextType, NextVersion
<1>. QED BY <1>1, InitType, InitVersion, PTL DEF Spec

(* No status that was stored is ever taken back (updateStatus and its      *)
(* benign conflicts), however stale both caches are and whatever fails.    *)
THEOREM StatusMonotone == Spec => StatusNeverRegresses
<1>. DEFINE Grows ==
       /\ Rank[store.stage] <= Rank[store'.stage]
       /\ store'.iterations \in {store.iterations, store.iterations + 1}
       /\ store.acquired => store'.acquired
       /\ store.metrics => store'.metrics
       /\ store.started => store'.started
       /\ store.failed => store'.failed
       /\ store.stage = "Completed" => store' = store
<1>1. TypeInv /\ VersionInv /\ [Next]_vars => [Grows]_vars
  <2>. SUFFICES ASSUME TypeInv, VersionInv, [Next]_vars PROVE Grows
    OBVIOUS
  <2>1. Rank[store.stage] <= Rank[store.stage]
    <3>1. store \in Status
      BY DEF TypeInv, TypeOK
    <3>. QED BY <3>1, Ranks DEF Status
  <2>. QED BY <2>1, StoreSteps DEF MayWrite, StatusStep
<1>. QED BY <1>1, WritesAreFresh, PTL DEF Spec, StatusNeverRegresses

-----------------------------------------------------------------------------
(***************************************************************************)
(* Jobs.                                                                   *)
(***************************************************************************)

(* There are jobs of handlers only, and the informer knows of no job that  *)
(* does not exist and of no end that has not come.                         *)
JobInv ==
    /\ \A j \in Job : jobs[j] # "absent" => j \in Handler
    /\ \A j \in Job : jobCache[j] # "absent" => jobs[j] # "absent"
    /\ \A j \in Job : jobCache[j] \in {"complete", "failed"} => jobs[j] = jobCache[j]

(* The only way a job comes to be. *)
Launched(j) ==
    /\ j \in Handler
    /\ jobs' = Created(j)
    /\ pc' = "save"
    /\ UNCHANGED <<store, pending, queued, timer, current>>
    /\ \/ /\ j = Start /\ Initialized /\ StartNotLaunched
          /\ obj' = obj
       \/ /\ j = Finish /\ pc = "iterate"
          /\ obj' = Advance(obj, "Finishing")
       \/ /\ pc = "iterate" /\ obj.iterations < MaxIterations
          /\ obj' = Iterated(obj) /\ CompletedLoop(obj') /\ j = Loop(LoopsDone(obj'))

LEMMA ReconcileLaunches ==
    ASSUME TypeInv, Reconcile
    PROVE  \/ jobs' = jobs /\ pc' # "save"
           \/ \E j \in Job : Launched(j)
<1>1. ASSUME NEW o, EndRequest(o) \/ EndRequestAndWait(o) \/ Leave \/ Retry \/ Fail(o)
      PROVE  jobs' = jobs /\ pc' # "save"
  BY <1>1 DEF EndRequest, EndRequestAndWait, WriteFails, Leave, Retry, Fail, Done
<1>2. CASE \/ InitializeStatus \/ AlreadyCompleted
           \/ HandlerRunning \/ HandlerFinished \/ HandlerFailed \/ LoopWeightsFail
           \/ InvalidTasks \/ AcquireTarget \/ StartInitializing
           \/ ReadMetrics \/ StartRunning \/ InvalidVersions
           \/ TooEarly \/ IterationFails \/ SaveLaunch
  BY <1>1, <1>2 DEF InitializeStatus, AlreadyCompleted, HandlerRunning, HandlerFinished,
     HandlerFailed, LoopWeightsFail, InvalidTasks, AcquireTarget, StartInitializing,
     ReadMetrics, StartRunning, InvalidVersions, TooEarly, IterationFails, SaveLaunch
<1>3. CASE Begin \/ HandlersDone \/ KeepStartTime \/ SetStartTime
  BY <1>1, <1>3, StartTimeNotSet
     DEF Begin, HandlersDone, KeepStartTime, StartTimeIsSet, GoOn
<1>4. CASE LaunchStart
  <2>1. CASE EndRequest(Ended(obj, "launch failed"))
    BY <1>1, <2>1
  <2>2. CASE ~EndRequest(Ended(obj, "launch failed"))
    <3>1. Launched(Start)
      BY <1>4, <2>2 DEF LaunchStart, Launch, Launched, StartNotLaunched
    <3>. QED BY <3>1, JobsAre
  <2>. QED BY <2>1, <2>2
<1>5. CASE FinishExperiment \/ RollbackExperiment
  <2>1. pc = "iterate" /\ \E msg : Terminate(obj, msg)
    BY <1>5 DEF FinishExperiment, RollbackExperiment, Iterating
  <2>2. CASE \E o : EndRequest(o)
    BY <1>1, <2>2
  <2>3. CASE ~\E o : EndRequest(o)
    <3>1. Launched(Finish)
      BY <2>1, <2>3 DEF Terminate, Launch, Launched
    <3>. QED BY <3>1, JobsAre
  <2>. QED BY <2>2, <2>3
<1>6. CASE CompleteIteration
  <2>. DEFINE o == Iterated(obj)
  <2>1. /\ pc = "iterate" /\ obj.iterations < MaxIterations
        /\ IF CompletedLoop(o) /\ Loop(LoopsDone(o)) \in Handler
             THEN Launch(Loop(LoopsDone(o)), o, o)
             ELSE EndRequestAndWait(o)
    BY <1>6 DEF CompleteIteration, Iterating, MoreIterationsNeeded
  <2>2. CASE EndRequest(Ended(o, "launch failed")) \/ EndRequestAndWait(o)
    BY <1>1, <2>2
  <2>3. CASE ~(EndRequest(Ended(o, "launch failed")) \/ EndRequestAndWait(o))
    <3>. HIDE DEF o
    <3>1. Loop(LoopsDone(o)) \in Handler /\ obj' = o
      BY <2>1, <2>3 DEF Launch
    <3>2. Launched(Loop(LoopsDone(o)))
      BY <2>1, <2>3, <3>1 DEF Launch, Launched, o
    <3>. QED BY <3>1, <3>2, HandlersAre
  <2>. QED BY <2>2, <2>3
<1>. QED BY <1>2, <1>3, <1>4, <1>5, <1>6 DEF Reconcile

(* What else happens to jobs: they end. *)
LEMMA JobSteps ==
    ASSUME TypeInv, [Next]_vars
    PROVE  \/ jobs' = jobs /\ (pc' = "save" => pc = "save" /\ UNCHANGED obj)
           \/ \E j \in Job : Launched(j)
           \/ \E j \in Job : JobEnds(j)
<1>1. CASE Reconcile
  BY <1>1, ReconcileLaunches
<1>2. CASE \/ Edit \/ Deliver \/ TimePasses \/ TimerFires \/ TargetReleased \/ Restart
           \/ (\E j \in Job : JobAdded(j) \/ JobUpdated(j)) \/ UNCHANGED vars
  BY <1>2 DEF Edit, Deliver, TimePasses, TimerFires, TargetReleased, Restart, JobAdded,
     JobUpdated, vars, cluster, memory
<1>. QED BY <1>1, <1>2 DEF Next, Surroundings

LEMMA CreatedJobs ==
    ASSUME TypeInv, NEW j \in Job, jobs' = Created(j)
    PROVE  /\ \A i \in Job : i # j => jobs'[i] = jobs[i]
           /\ jobs'[j] = IF jobs[j] = "absent" THEN "running" ELSE jobs[j]
BY DEF Created, TypeInv, TypeOK

LEMMA EndedJobs ==
    ASSUME TypeInv, NEW j \in Job, JobEnds(j)
    PROVE  /\ \A i \in Job : i # j => jobs'[i] = jobs[i]
           /\ jobs[j] = "running" /\ jobs'[j] \in {"complete", "failed"}
           /\ UNCHANGED <<actions, store, pending, cache, jobCache, queued, timer, free, memory>>
BY DEF JobEnds, TypeInv, TypeOK

(* Jobs do not disappear, and one that has ended does not change.          *)
LEMMA JobsStay ==
    ASSUME TypeInv, [Next]_vars, NEW j \in Job
    PROVE  /\ jobs[j] # "absent" => jobs'[j] # "absent"
           /\ jobs[j] \in {"complete", "failed"} => jobs'[j] = jobs[j]
<1>1. ASSUME NEW i \in Job, Launched(i)
      PROVE  /\ jobs[j] # "absent" => jobs'[j] # "absent"
             /\ jobs[j] \in {"complete", "failed"} => jobs'[j] = jobs[j]
  BY <1>1, CreatedJobs DEF Launched
<1>2. ASSUME NEW i \in Job, JobEnds(i)
      PROVE  /\ jobs[j] # "absent" => jobs'[j] # "absent"
             /\ jobs[j] \in {"complete", "failed"} => jobs'[j] = jobs[j]
  BY <1>2, EndedJobs
<1>. QED BY <1>1, <1>2, JobSteps

LEMMA ActionsStay ==
    ASSUME [Next]_vars
    PROVE  actions' = actions /\ Handler' = Handler
<1>1. actions' = actions
  BY DEF Next, Surroundings, Reconcile, Edit, Deliver, TimePasses, TimerFires,
     TargetReleased, Restart, JobEnds, JobAdded, JobUpdated, vars
<1>. QED BY <1>1 DEF Handler

LEMMA JobCacheSteps ==
    ASSUME TypeInv, JobInv, [Next]_vars
    PROVE  \/ jobCache' = jobCache
           \/ jobCache' = jobs /\ jobs' = jobs
           \/ \E j \in Job :
                 /\ jobs' = jobs /\ jobs[j] # "absent"
                 /\ jobCache[j] = "absent" \/ (jobCache[j] = "running" /\ queued')
                 /\ \E s \in {"running", jobs[j]} : jobCache' = [jobCache EXCEPT ![j] = s]
<1>1. ASSUME NEW j \in Job, JobAdded(j) \/ JobUpdated(j)
      PROVE  /\ jobs' = jobs /\ jobs[j] # "absent"
             /\ jobCache[j] = "absent" \/ (jobCache[j] = "running" /\ queued')
             /\ \E s \in {"running", jobs[j]} : jobCache' = [jobCache EXCEPT ![j] = s]
  BY <1>1 DEF JobAdded, JobUpdated, JobInv
<1>2. CASE Restart
  BY <1>2 DEF Restart
<1>3. CASE Reconcile
  BY <1>3 DEF Reconcile
<1>4. CASE \/ Edit \/ Deliver \/ TimePasses \/ TimerFires \/ TargetReleased
           \/ (\E j \in Job : JobEnds(j)) \/ UNCHANGED vars
  BY <1>4 DEF Edit, Deliver, TimePasses, TimerFires, TargetReleased, JobEnds, vars, cluster
<1>. QED BY <1>1, <1>2, <1>3, <1>4 DEF Next, Surroundings

LEMMA NextJobs ==
    ASSUME TypeInv, JobInv, [Next]_vars
    PROVE  JobInv'
<1>1. Handler' = Handler
  BY ActionsStay
<1>2. jobs' \in [Job -> JobState] /\ jobCache \in [Job -> JobState] /\ jobs \in [Job -> JobState]
  BY NextType DEF TypeInv, TypeOK
<1>3. \A j \in Job : jobs'[j] # "absent" => j \in Handler
  <2>1. ASSUME NEW i \in Job, Launched(i)
        PROVE  \A j \in Job : jobs'[j] # "absent" => j \in Handler
    BY <2>1, CreatedJobs DEF Launched, JobInv
  <2>2. ASSUME NEW i \in Job, JobEnds(i)
        PROVE  \A j \in Job : jobs'[j] # "absent" => j \in Handler
    BY <2>2, EndedJobs DEF JobInv
  <2>. QED BY <2>1, <2>2, JobSteps DEF JobInv
<1>4. ASSUME NEW j \in Job
      PROVE  /\ jobCache'[j] # "absent" => jobs'[j] # "absent"
             /\ jobCache'[j] \in {"complete", "failed"} => jobs'[j] = jobCache'[j]
  <2>1. CASE jobCache' = jobCache
    BY <2>1, JobsStay DEF JobInv
  <2>2. CASE jobCache' = jobs /\ jobs' = jobs
    BY <2>2
  <2>3. ASSUME NEW i \in Job, NEW s \in {"running", jobs[i]},
               jobs' = jobs, jobs[i] # "absent", jobCache' = [jobCache EXCEPT ![i] = s]
        PROVE  /\ jobCache'[j] # "absent" => jobs'[j] # "absent"
               /\ jobCache'[j] \in {"complete", "failed"} => jobs'[j] = jobCache'[j]
    BY <1>2, <2>3 DEF JobInv
  <2>. QED BY <2>1, <2>2, <2>3, JobCacheSteps
<1>. QED BY <1>1, <1>3, <1>4 DEF JobInv

(* The jobs a status speaks of. *)
HasItsJobs(s) ==
    s.message # "launch failed" =>
        /\ s.stage = "Finishing" => jobs[Finish] # "absent"
        /\ "loop" \in actions =>
              \A k \in 1..MaxLoops :
                  s.iterations >= k * IterationsPerLoop => jobs[Loop(k)] # "absent"

SavesItsJobs ==
    /\ HasItsJobs(store)
    /\ pc = "save" /\ current => HasItsJobs(obj)

LEMMA StillHasThem ==
    ASSUME TypeInv, [Next]_vars, NEW s, HasItsJobs(s)
    PROVE  /\ s.message # "launch failed" => 
                /\ s.stage = "Finishing" => jobs'[Finish] # "absent"
                /\ "loop" \in actions' =>
                      \A k \in 1..MaxLoops :
                          s.iterations >= k * IterationsPerLoop => jobs'[Loop(k)] # "absent"
BY JobsStay, ActionsStay, JobsAre DEF HasItsJobs

(* An iteration more reaches the end of one loop at most.                  *)
LEMMA OneLoopMore ==
    ASSUME NEW s \in Status, NEW t \in Status, t.iterations = s.iterations + 1,
           NEW k \in 1..MaxLoops, t.iterations >= k * IterationsPerLoop,
           ~(s.iterations >= k * IterationsPerLoop)
    PROVE  CompletedLoop(t) /\ LoopsDone(t) = k
<1>1. k * IterationsPerLoop \in Nat /\ s.iterations \in Nat
  BY LoopBoundary, ConstantsOK DEF Status
<1>2. t.iterations = k * IterationsPerLoop
  BY <1>1
<1>. QED BY <1>2, LoopBoundary DEF CompletedLoop, LoopsDone

LEMMA WrittenHasItsJobs ==
    ASSUME TypeInv, VersionInv, SavesItsJobs, NEW t \in Status, MayWrite(t)
    PROVE  HasItsJobs(t)
<1>. SUFFICES ASSUME t.message # "launch failed" PROVE HasItsJobs(t)
  BY DEF HasItsJobs
<1>1. CASE pc = "save" /\ t = obj
  BY <1>1 DEF SavesItsJobs, MayWrite
<1>2. CASE ~(pc = "save" /\ t = obj)
  <2>1. store \in Status /\ store.message # "launch failed" /\ HasItsJobs(store)
    BY DEF TypeInv, TypeOK, VersionInv, MayWrite, StatusStep, SavesItsJobs
  <2>2. t.stage = "Finishing" => jobs[Finish] # "absent"
    BY <1>2, <2>1 DEF MayWrite, HasItsJobs
  <2>3. ASSUME "loop" \in actions, NEW k \in 1..MaxLoops, t.iterations >= k * IterationsPerLoop
        PROVE  jobs[Loop(k)] # "absent"
    <3>1. CASE store.iterations >= k * IterationsPerLoop
      BY <2>1, <2>3, <3>1 DEF HasItsJobs
    <3>2. CASE ~(store.iterations >= k * IterationsPerLoop)
      <4>1. t.iterations # store.iterations
        BY <2>3, <3>2
      <4>2. t.iterations = store.iterations + 1
        BY <4>1 DEF MayWrite, StatusStep
      <4>3. ~(CompletedLoop(t) /\ Loop(LoopsDone(t)) \in Handler)
        BY <1>2, <4>1 DEF MayWrite
      <4>4. CompletedLoop(t) /\ LoopsDone(t) = k
        BY <2>1, <2>3, <3>2, <4>2, OneLoopMore
      <4>5. Loop(k) \in Handler
        BY <2>3, JobsAre, HandlersAre
      <4>. QED BY <4>3, <4>4, <4>5
    <3>. QED BY <3>1, <3>2
  <2>. QED BY <2>2, <2>3 DEF HasItsJobs
<1>. QED BY <1>1, <1>2

LEMMA LaunchedHasItsJobs ==
    ASSUME TypeInv, VersionInv, SavesItsJobs, [Next]_vars, current,
           NEW j \in Job, Launched(j)
    PROVE  HasItsJobs(obj)'
<1>1. obj = store /\ obj \in Status /\ obj' \in Status /\ actions' = actions
  BY ActionsStay, NextType DEF TypeInv, TypeOK, VersionInv, Launched, Initialized
<1>2. jobs'[j] # "absent"
  BY CreatedJobs DEF Launched
<1>3. HasItsJobs(obj)
  BY <1>1 DEF SavesItsJobs
<1>4. \A i \in Job : jobs[i] # "absent" => jobs'[i] # "absent"
  BY JobsStay
<1>5. CASE obj' = obj
  BY <1>3, <1>5, StillHasThem DEF HasItsJobs
<1>6. CASE j = Finish /\ obj' = Advance(obj, "Finishing")
  <2>1. obj'.iterations = obj.iterations /\ obj'.message = obj.message
    BY <1>1, <1>6, Advancing, Stages
  <2>. QED BY <1>1, <1>2, <1>3, <1>4, <1>6, <2>1, JobsAre DEF HasItsJobs
<1>7. CASE /\ obj.iterations < MaxIterations
           /\ obj' = Iterated(obj) /\ CompletedLoop(obj') /\ j = Loop(LoopsDone(obj'))
  <2>1. /\ obj'.iterations = obj.iterations + 1 /\ obj'.message = obj.message
        /\ obj'.stage = obj.stage
    BY <1>1, <1>7, Counting
  <2>2. ASSUME NEW k \in 1..MaxLoops, "loop" \in actions, obj'.message # "launch failed",
               obj'.iterations >= k * IterationsPerLoop
        PROVE  jobs'[Loop(k)] # "absent"
    <3>1. CASE obj.iterations >= k * IterationsPerLoop
      BY <1>3, <1>4, <2>1, <2>2, <3>1, JobsAre DEF HasItsJobs
    <3>2. CASE ~(obj.iterations >= k * IterationsPerLoop)
      BY <1>1, <1>2, <1>7, <2>1, <2>2, <3>2, OneLoopMore
    <3>. QED BY <3>1, <3>2
  <2>3. obj'.message # "launch failed" /\ obj'.stage = "Finishing" => jobs'[Finish] # "absent"
    BY <1>3, <1>4, <2>1, JobsAre DEF HasItsJobs
  <2>. QED BY <1>1, <2>2, <2>3 DEF HasItsJobs
<1>. QED BY <1>5, <1>6, <1>7 DEF Launched

LEMMA NextSavesJobs ==
    ASSUME TypeInv, VersionInv, SavesItsJobs, [Next]_vars
    PROVE  SavesItsJobs'
<1>1. HasItsJobs(store)'
  <2>1. CASE store' = store
    <3>1. HasItsJobs(store)
      BY DEF SavesItsJobs
    <3>. QED BY <2>1, <3>1, StillHasThem DEF HasItsJobs
  <2>2. CASE MayWrite(store')
    <3>1. store' \in Status
      BY NextType DEF TypeInv, TypeOK
    <3>2. HasItsJobs(store')
      BY <2>2, <3>1, WrittenHasItsJobs
    <3>. QED BY <3>2, StillHasThem DEF HasItsJobs
  <2>. QED BY <2>1, <2>2, StoreSteps
<1>2. ASSUME pc' = "save", current'
      PROVE  HasItsJobs(obj)'
  <2>1. CASE \E j \in Job : Launched(j)
    BY <1>2, <2>1, LaunchedHasItsJobs DEF Launched
  <2>2. CASE pc = "save" /\ current /\ UNCHANGED obj
    <3>1. HasItsJobs(obj)
      BY <2>2 DEF SavesItsJobs
    <3>. QED BY <2>2, <3>1, StillHasThem DEF HasItsJobs
  <2>3. CASE \E j \in Job : JobEnds(j)
    BY <1>2, <2>2, <2>3, EndedJobs DEF memory
  <2>4. CASE pc = "save" /\ UNCHANGED obj /\ ~current
    <3>1. CASE Reconcile
      BY <1>2, <2>4, <3>1, Keeps DEF Keeping
    <3>2. CASE Surroundings \/ UNCHANGED vars
      BY <1>2, <2>4, <3>2 DEF Surroundings, Edit, Deliver, TimePasses, TimerFires,
         TargetReleased, Restart, JobEnds, JobAdded, JobUpdated, vars, memory
    <3>. QED BY <3>1, <3>2 DEF Next
  <2>. QED BY <1>2, <2>1, <2>2, <2>3, <2>4, JobSteps
<1>. QED BY <1>1, <1>2 DEF SavesItsJobs

LEMMA JobsAlways == Spec => [](TypeInv /\ VersionInv /\ JobInv /\ SavesItsJobs)
<1>1. Init => JobInv /\ SavesItsJobs
  <2>. SUFFICES ASSUME Init PROVE JobInv /\ SavesItsJobs
    OBVIOUS
  <2>1. \A k \in 1..MaxLoops : ~(0 >= k * IterationsPerLoop)
    BY LoopBoundary
  <2>. QED
    BY <2>1, JobsAre DEF Init, JobInv, SavesItsJobs, HasItsJobs, NewStatus
<1>2. TypeInv /\ VersionInv /\ JobInv /\ SavesItsJobs /\ [Next]_vars
        => (JobInv /\ SavesItsJobs)'
  BY NextJobs, NextSavesJobs
<1>. QED BY <1>1, <1>2, WritesAreFresh, PTL DEF Spec

(* Jobs are created before the status that speaks of them                  *)
(* (launchHandlerWrapper before endRequest): no crash, conflict or stale   *)
(* read leaves a status without its job.                                   *)
THEOREM JobsBeforeStatus == Spec => []StatusHasItsJobs
<1>1. SavesItsJobs => StatusHasItsJobs
  BY DEF SavesItsJobs, HasItsJobs, StatusHasItsJobs
<1>. QED BY <1>1, JobsAlways, PTL

-----------------------------------------------------------------------------
(***************************************************************************)
(* Loops.  No copy of the status counts more iterations than the store, so *)
(* that a loop handler is never launched from a count that is too high.    *)
(***************************************************************************)
NothingAhead ==
    /\ \A i \in 1..Len(pending) : pending[i].iterations <= store.iterations
    /\ cache.iterations <= store.iterations
    /\ pc # "save" => obj.iterations <= store.iterations

LEMMA MemorySteps ==
    ASSUME Reconcile
    PROVE  \/ pc' = "idle" /\ obj' = NewStatus
           \/ pc' = "check" /\ obj' = cache
           \/ pc' \in {"act", "iterate"} /\ pc \in {"check", "act"} /\ obj' = obj
           \/ pc' = "iterate" /\ obj' = store'
           \/ pc' = "save"
<1>1. ASSUME NEW o, EndRequest(o) \/ EndRequestAndWait(o) \/ Leave \/ Retry \/ Fail(o)
      PROVE  pc' = "idle" /\ obj' = NewStatus
  BY <1>1 DEF EndRequest, EndRequestAndWait, WriteFails, Leave, Retry, Fail, Done
<1>2. CASE \/ InitializeStatus \/ AlreadyCompleted
           \/ HandlerRunning \/ HandlerFinished \/ HandlerFailed \/ LoopWeightsFail
           \/ InvalidTasks \/ AcquireTarget \/ StartInitializing
           \/ ReadMetrics \/ StartRunning \/ InvalidVersions
           \/ TooEarly \/ IterationFails \/ SaveLaunch
  BY <1>1, <1>2 DEF InitializeStatus, AlreadyCompleted, HandlerRunning, HandlerFinished,
     HandlerFailed, LoopWeightsFail, InvalidTasks, AcquireTarget, StartInitializing,
     ReadMetrics, StartRunning, InvalidVersions, TooEarly, IterationFails, SaveLaunch
<1>3. CASE Begin \/ SetStartTime
  BY <1>1, <1>3, StartTimeNotSet DEF Begin, StartTimeIsSet, Publish
<1>4. CASE HandlersDone \/ KeepStartTime
  BY <1>4 DEF HandlersDone, Checking, KeepStartTime, Running, Started, Initialized, GoOn
<1>5. ASSUME NEW j, NEW o, NEW launched, Launch(j, o, launched)
      PROVE  pc' = "save" \/ (pc' = "idle" /\ obj' = NewStatus)
  BY <1>1, <1>5 DEF Launch
<1>6. CASE LaunchStart \/ FinishExperiment \/ RollbackExperiment \/ CompleteIteration
  BY <1>1, <1>5, <1>6 DEF LaunchStart, FinishExperiment, RollbackExperiment, Terminate,
     CompleteIteration
<1>. QED BY <1>2, <1>3, <1>4, <1>6 DEF Reconcile

LEMMA CountGrows ==
    ASSUME TypeInv, VersionInv, [Next]_vars
    PROVE  /\ store.iterations \in Nat /\ store'.iterations \in Nat
           /\ store'.iterations >= store.iterations
<1>1. store.iterations \in Nat /\ store'.iterations \in Nat
  BY NextType, ConstantsOK DEF TypeInv, TypeOK, Status
<1>2. store' = store \/ store'.iterations \in {store.iterations, store.iterations + 1}
  BY StoreSteps DEF MayWrite, StatusStep
<1>. QED BY <1>1, <1>2

(* What is read later was stored earlier. *)
LEMMA NextAhead ==
    ASSUME TypeInv, VersionInv, NothingAhead, [Next]_vars
    PROVE  NothingAhead'
<1>1. /\ pending \in Seq(Status) /\ {store, cache, obj, store', cache', obj'} \subseteq Status
      /\ \A s \in Status : s.iterations \in Nat
  BY NextType, ConstantsOK DEF TypeInv, TypeOK, Status
<1>2. store'.iterations >= store.iterations /\ store.iterations \in Nat /\ store'.iterations \in Nat
  BY CountGrows
<1>3. \A s \in Status : s.iterations <= store.iterations => s.iterations <= store'.iterations
  BY <1>1, <1>2
<1>4. \A i \in 1..Len(pending) : pending[i].iterations <= store'.iterations
  BY <1>1, <1>3 DEF NothingAhead
<1>5. ASSUME pending' = Append(pending, store')
      PROVE  \A i \in 1..Len(pending') : pending'[i].iterations <= store'.iterations
  <2>1. /\ Len(pending') = Len(pending) + 1 /\ Len(pending) \in Nat
        /\ \A i \in 1..Len(pending) : pending'[i] = pending[i]
        /\ pending'[Len(pending) + 1] = store'
    BY <1>1, <1>5, AppendProperties
  <2>. QED BY <1>2, <1>4, <2>1
<1>6. NewStatus.iterations = 0
  BY DEF NewStatus
<1>7. CASE Reconcile
  <2>1. \A i \in 1..Len(pending') : pending'[i].iterations <= store'.iterations
    BY <1>4, <1>5, <1>7, ReconcileWrites DEF Outcome
  <2>2. cache'.iterations <= store'.iterations
    BY <1>1, <1>3, <1>7 DEF Reconcile, NothingAhead
  <2>3. pc' # "save" => obj'.iterations <= store'.iterations
    BY <1>1, <1>2, <1>3, <1>6, <1>7, MemorySteps DEF NothingAhead
  <2>. QED BY <2>1, <2>2, <2>3 DEF NothingAhead
<1>8. CASE Edit
  <2>1. pending' = Append(pending, store') /\ store' = store /\ UNCHANGED <<cache, pc, obj>>
    BY <1>8 DEF Edit, Publish
  <2>. QED BY <1>5, <2>1 DEF NothingAhead
<1>9. CASE Deliver
  <2>1. /\ Len(Tail(pending)) = Len(pending) - 1 /\ Head(pending) = pending[1]
        /\ \A i \in 1..Len(Tail(pending)) : Tail(pending)[i] = pending[i + 1]
        /\ Len(pending) \in Nat \ {0}
    BY <1>1, <1>9, HeadTailProperties, EmptySeq DEF Deliver
  <2>2. Head(pending).iterations <= store.iterations
    BY <2>1 DEF NothingAhead
  <2>3. \A i \in 1..Len(Tail(pending)) : Tail(pending)[i].iterations <= store.iterations
    <3>1. \A i \in 1..Len(Tail(pending)) : i + 1 \in 1..Len(pending)
      BY <2>1
    <3>. QED BY <2>1, <3>1 DEF NothingAhead
  <2>. QED BY <1>9, <2>2, <2>3 DEF Deliver, NothingAhead, memory
<1>10. CASE Restart
  <2>1. Len(pending') = 0
    BY <1>10 DEF Restart
  <2>. QED BY <1>2, <1>6, <1>10, <2>1 DEF Restart, NothingAhead
<1>11. CASE \/ TimePasses \/ TimerFires \/ TargetReleased \/ UNCHANGED vars
            \/ \E j \in Job : JobEnds(j) \/ JobAdded(j) \/ JobUpdated(j)
  <2>1. UNCHANGED <<store, pending, cache, pc, obj>>
    BY <1>11 DEF TimePasses, TimerFires, TargetReleased, vars, JobEnds, JobAdded, JobUpdated,
       memory
  <2>. QED BY <2>1 DEF NothingAhead
<1>. QED BY <1>7, <1>8, <1>9, <1>10, <1>11 DEF Next, Surroundings

LEMMA NextOnTime ==
    ASSUME TypeInv, VersionInv, NothingAhead, LoopHandlersOnTime, [Next]_vars
    PROVE  LoopHandlersOnTime'
<1>. SUFFICES ASSUME NEW k \in 1..MaxLoops, jobs'[Loop(k)] # "absent"
              PROVE  store'.iterations >= k * IterationsPerLoop - 1
  BY DEF LoopHandlersOnTime
<1>1. /\ store'.iterations >= store.iterations /\ {store, obj} \subseteq Status
      /\ store.iterations \in Nat /\ store'.iterations \in Nat
  BY CountGrows DEF TypeInv, TypeOK
<1>2. k * IterationsPerLoop \in Nat /\ Loop(k) \in Job
  BY LoopBoundary, JobsAre, ConstantsOK
<1>3. CASE jobs[Loop(k)] # "absent"
  <2>1. store.iterations >= k * IterationsPerLoop - 1
    BY <1>3 DEF LoopHandlersOnTime
  <2>. QED BY <1>1, <1>2, <2>1
<1>4. CASE jobs[Loop(k)] = "absent"
  <2>1. PICK j \in Job : Launched(j)
    BY <1>2, <1>4, JobSteps, EndedJobs
  <2>2. j = Loop(k)
    BY <1>2, <1>4, <2>1, CreatedJobs DEF Launched
  <2>3. /\ pc = "iterate" /\ obj.iterations < MaxIterations /\ store' = store
        /\ CompletedLoop(Iterated(obj)) /\ Loop(LoopsDone(Iterated(obj))) = Loop(k)
    BY <2>1, <2>2, JobsAre DEF Launched
  <2>. DEFINE n == obj.iterations + 1
  <2>4. Iterated(obj).iterations = n /\ n \in 1..MaxIterations
    BY <1>1, <2>3, Counting, ConstantsOK DEF Status
  <2>5. n % IterationsPerLoop = 0 /\ Loop(n \div IterationsPerLoop) = Loop(k)
    BY <2>3, <2>4 DEF CompletedLoop, LoopsDone
  <2>6. n \div IterationsPerLoop = k /\ n = (n \div IterationsPerLoop) * IterationsPerLoop
    BY <2>4, <2>5, LoopArithmetic, JobsAre
  <2>7. obj.iterations <= store.iterations /\ obj.iterations \in Nat
    BY <1>1, <2>3, ConstantsOK DEF NothingAhead, Status
  <2>. QED BY <1>1, <1>2, <2>3, <2>6, <2>7
<1>. QED BY <1>3, <1>4

(* A loop handler runs at most once its loop is over but for the iteration *)
(* whose write may still be lost (iterate.go, completeIteration), however  *)
(* stale the reads and however often an iteration is repeated.             *)
THEOREM LoopsOnTime == Spec => []LoopHandlersOnTime
<1>1. Init => NothingAhead /\ LoopHandlersOnTime
  <2>. SUFFICES ASSUME Init PROVE NothingAhead /\ LoopHandlersOnTime
    OBVIOUS
  <2>1. /\ NewStatus.iterations = 0 /\ pending = <<NewStatus>> /\ Len(pending) = 1
        /\ pending[1] = NewStatus
    BY DEF Init, NewStatus
  <2>. QED BY <2>1, JobsAre DEF Init, NothingAhead, LoopHandlersOnTime
<1>2. TypeInv /\ VersionInv /\ NothingAhead /\ LoopHandlersOnTime /\ [Next]_vars
        => (NothingAhead /\ LoopHandlersOnTime)'
  BY NextAhead, NextOnTime
<1>. QED BY <1>1, <1>2, WritesAreFresh, PTL DEF Spec

-----------------------------------------------------------------------------
(***************************************************************************)
(* Triggers.  A request that works on an old version has an event or a key *)
(* behind it; without events, keys and timers the experiment is completed  *)
(* or waits for the target or for a job the informer says is running.      *)
(***************************************************************************)
TriggerInv ==
    /\ pc # "idle" /\ ~current => pending # <<>> \/ queued
    /\ pc = "idle" /\ pending = <<>> /\ ~queued /\ ~timer =>
          \/ store.stage = "Completed"
          \/ ~free
          \/ \E j \in Job : jobCache[j] = "running"

(* Why a request may end without another one to come.                      *)
Excused ==
    \/ ~current
    \/ pc = "check" /\ obj.stage = "Completed"
    \/ ~free
    \/ \E j \in Job : jobCache[j] = "running"

Goes ==
    \/ pc' = "idle" /\ (queued' \/ timer' \/ pending' # <<>>)
    \/ pc' = "idle" /\ Excused /\ pc # "idle" /\ UNCHANGED <<store, pending, queued>>
    \/ pc' # "idle" /\ (current' \/ pending' # <<>>)
    \/ pc' # "idle" /\ pc # "idle" /\ UNCHANGED <<current, pending, queued>>

LEMMA RequestGoes ==
    ASSUME TypeInv, Reconcile
    PROVE  Goes
<1>1. pending \in Seq(Status) /\ \A o : Append(pending, o) # <<>>
  <2>1. pending \in Seq(Status)
    BY DEF TypeInv, TypeOK
  <2>2. ASSUME NEW o
        PROVE  Append(pending, o) # <<>>
    <3>1. pending \in Seq(Status \cup {o})
      BY <2>1
    <3>. QED BY <3>1, AppendProperties
  <2>. QED BY <2>1, <2>2
<1>2. ASSUME NEW o, EndRequest(o) \/ EndRequestAndWait(o) \/ Retry \/ Fail(o), pc # "idle"
      PROVE  Goes
  <2>1. \A x : UpdateStatus(x) => pending' # <<>> \/ (~current /\ UNCHANGED <<store, pending>>)
    BY <1>1 DEF UpdateStatus, Publish
  <2>2. ASSUME NEW x, EndRequest(x)
        PROVE  Goes
    BY <2>1, <2>2, <1>2 DEF EndRequest, WriteFails, Done, Excused, Goes
  <2>. QED BY <1>2, <2>2 DEF EndRequestAndWait, WriteFails, Retry, Fail, Done, Goes
<1>3. ASSUME Leave, Excused, pc # "idle"
      PROVE  Goes
  BY <1>3 DEF Leave, Done, Goes
<1>4. CASE \/ InitializeStatus \/ HandlerFinished \/ HandlerFailed \/ LoopWeightsFail
           \/ InvalidTasks \/ StartInitializing
           \/ ReadMetrics \/ StartRunning \/ InvalidVersions
           \/ TooEarly \/ IterationFails \/ SaveLaunch
  BY <1>2, <1>4 DEF InitializeStatus, HandlerFinished, HandlerFailed, LoopWeightsFail,
     Checking, InvalidTasks, StartInitializing, ReadMetrics, StartRunning, InvalidVersions,
     Running, Started, Initialized, TooEarly, IterationFails, Iterating, SaveLaunch
<1>5. CASE AlreadyCompleted \/ AcquireTarget
  BY <1>2, <1>3, <1>5 DEF AlreadyCompleted, AcquireTarget, Excused
<1>6. CASE HandlerRunning
  <2>1. FirstStop \in Job /\ jobCache[FirstStop] = "running" /\ pc # "idle"
    BY <1>6, FirstStops DEF HandlerRunning, Checking
  <2>2. Excused
    BY <2>1 DEF Excused
  <2>. QED BY <1>2, <1>3, <1>6, <2>1, <2>2 DEF HandlerRunning
<1>7. CASE Begin
  BY <1>7 DEF Begin, Goes
<1>8. CASE HandlersDone \/ KeepStartTime
  BY <1>8 DEF HandlersDone, Checking, KeepStartTime, Running, Started, Initialized, GoOn, Goes
<1>9. CASE SetStartTime
  <2>1. pc # "idle"
    BY <1>9 DEF SetStartTime, Running, Started, Initialized
  <2>. QED BY <1>2, <1>9, <2>1, StartTimeNotSet DEF StartTimeIsSet, Goes
<1>10. ASSUME NEW j, NEW o, NEW launched, Launch(j, o, launched), pc # "idle"
       PROVE  Goes
  <2>1. CASE EndRequest(Ended(o, "launch failed"))
    BY <1>2, <1>10, <2>1
  <2>. QED BY <1>10, <2>1 DEF Launch, Goes
<1>11. CASE LaunchStart \/ FinishExperiment \/ RollbackExperiment \/ CompleteIteration
  <2>1. pc # "idle"
    BY <1>11 DEF LaunchStart, Initialized, FinishExperiment, RollbackExperiment, Iterating,
       CompleteIteration
  <2>. QED
    BY <1>2, <1>10, <1>11, <2>1 DEF LaunchStart, FinishExperiment, RollbackExperiment,
       Terminate, CompleteIteration
<1>. QED
  BY <1>4, <1>5, <1>6, <1>7, <1>8, <1>9, <1>11 DEF Reconcile

LEMMA NextTrigger ==
    ASSUME TypeInv, VersionInv, TriggerInv, [Next]_vars
    PROVE  TriggerInv'
<1>1. CASE Reconcile
  <2>1. UNCHANGED <<free, jobCache>>
    BY <1>1 DEF Reconcile
  <2>. QED BY <1>1, <2>1, RequestGoes DEF Goes, Excused, TriggerInv, VersionInv
<1>2. CASE Edit
  <2>1. pending' # <<>>
    BY <1>2, AppendProperties DEF Edit, Publish, TypeInv, TypeOK
  <2>. QED BY <2>1 DEF TriggerInv
<1>3. CASE Deliver \/ TimerFires \/ TargetReleased \/ Restart
  <2>1. queued'
    BY <1>3 DEF Deliver, TimerFires, TargetReleased, Restart
  <2>. QED BY <2>1 DEF TriggerInv
<1>4. CASE TimePasses \/ UNCHANGED vars \/ \E j \in Job : JobEnds(j)
  <2>1. UNCHANGED <<pc, current, pending, queued, timer, store, free, jobCache>>
    BY <1>4 DEF TimePasses, vars, JobEnds, cluster, memory
  <2>. QED BY <2>1 DEF TriggerInv
<1>5. ASSUME NEW j \in Job, JobAdded(j)
      PROVE  TriggerInv'
  <2>1. /\ UNCHANGED <<pc, current, pending, queued, timer, store, free>>
        /\ jobCache[j] = "absent"
        /\ \A i \in Job : i # j => jobCache'[i] = jobCache[i]
    BY <1>5 DEF JobAdded, memory, TypeInv, TypeOK
  <2>2. \A i \in Job : jobCache[i] = "running" => jobCache'[i] = "running"
    BY <2>1
  <2>. QED BY <2>1, <2>2 DEF TriggerInv
<1>6. ASSUME NEW j \in Job, JobUpdated(j)
      PROVE  TriggerInv'
  <2>1. queued'
    BY <1>6 DEF JobUpdated
  <2>. QED BY <2>1 DEF TriggerInv
<1>. QED BY <1>1, <1>2, <1>3, <1>4, <1>5, <1>6 DEF Next, Surroundings

(* Nothing is lost for good (the watches and RequeueAfters of              *)
(* experiment_controller.go): whatever the faults, conflicts and restarts, *)
(* an experiment that nothing will reconcile again has completed or waits  *)
(* for its target.                                                         *)
THEOREM NothingIsLost == Spec => []NeverStalls
<1>1. Init => TriggerInv
  BY DEF Init, TriggerInv
<1>2. TypeInv /\ VersionInv /\ TriggerInv /\ [Next]_vars => TriggerInv'
  BY NextTrigger
<1>3. TriggerInv => NeverStalls
  BY DEF TriggerInv, NeverStalls, Quiescent
<1>. QED BY <1>1, <1>2, <1>3, WritesAreFresh, PTL DEF Spec

-----------------------------------------------------------------------------
(***************************************************************************)
(* Requests that see the jobs the controller has created.                  *)
(***************************************************************************)

(* Past checkHandlersStatus, what has been launched has completed, and the *)
(* finish handler has not been launched.                                   *)
SeesItsJobs ==
    /\ pc = "check" => \A j \in Job : jobs[j] # "absent" => jobCache[j] # "absent"
    /\ pc \in {"act", "iterate"} =>
          /\ \A j \in Job : jobs[j] \in {"absent", "complete"}
          /\ jobs[Finish] = "absent"

(* How a request gets past the checks. *)
LEMMA PcSteps ==
    ASSUME [Next]_vars
    PROVE  \/ pc' = pc
           \/ pc' \in {"idle", "save"}
           \/ Begin /\ Reconcile
           \/ HandlersDone /\ Reconcile
           \/ pc = "act" /\ pc' = "iterate" /\ Running /\ Reconcile
<1>1. CASE Surroundings \/ UNCHANGED vars
  BY <1>1 DEF Surroundings, Edit, Deliver, TimePasses, TimerFires, TargetReleased, Restart,
     JobEnds, JobAdded, JobUpdated, vars, memory
<1>2. ASSUME NEW o, EndRequest(o) \/ EndRequestAndWait(o) \/ Leave \/ Retry \/ Fail(o)
      PROVE  pc' = "idle"
  BY <1>2 DEF EndRequest, EndRequestAndWait, WriteFails, Leave, Retry, Fail, Done
<1>3. CASE \/ InitializeStatus \/ AlreadyCompleted
           \/ HandlerRunning \/ HandlerFinished \/ HandlerFailed \/ LoopWeightsFail
           \/ InvalidTasks \/ AcquireTarget \/ StartInitializing
           \/ ReadMetrics \/ StartRunning \/ InvalidVersions
           \/ TooEarly \/ IterationFails \/ SaveLaunch
  BY <1>2, <1>3 DEF InitializeStatus, AlreadyCompleted, HandlerRunning, HandlerFinished,
     HandlerFailed, LoopWeightsFail, InvalidTasks, AcquireTarget, StartInitializing,
     ReadMetrics, StartRunning, InvalidVersions, TooEarly, IterationFails, SaveLaunch
<1>4. CASE Reconcile /\ (SetStartTime \/ KeepStartTime)
  BY <1>2, <1>4, StartTimeNotSet
     DEF SetStartTime, StartTimeIsSet, KeepStartTime, GoOn, Running, Started, Initialized
<1>5. ASSUME NEW j, NEW o, NEW launched, Launch(j, o, launched)
      PROVE  pc' \in {"idle", "save"}
  BY <1>2, <1>5 DEF Launch
<1>6. CASE LaunchStart \/ FinishExperiment \/ RollbackExperiment \/ CompleteIteration
  BY <1>2, <1>5, <1>6 DEF LaunchStart, FinishExperiment, RollbackExperiment, Terminate,
     CompleteIteration
<1>. QED BY <1>1, <1>3, <1>4, <1>6 DEF Next, Reconcile

(* Nothing that stops the request is left when the handlers are done.      *)
LEMMA HandlersAreDone ==
    ASSUME TypeInv, JobInv, SeesItsJobs, HandlersDone
    PROVE  /\ \A j \in Job : jobs[j] \in {"absent", "complete"}
           /\ jobs[Finish] = "absent"
<1>1. ASSUME NEW j \in Job, jobs[j] # "absent"
      PROVE  jobs[j] = "complete" /\ j # Finish
  <2>1. jobCache[j] # "absent" /\ j \in Handler
    BY <1>1 DEF SeesItsJobs, HandlersDone, Checking, JobInv
  <2>2. ~Stops(j)
    BY <2>1 DEF HandlersDone, StoppingJobs
  <2>3. jobCache[j] = "complete" /\ j # Finish
    BY <2>1, <2>2 DEF Stops, TypeInv, TypeOK, JobState
  <2>. QED BY <2>3 DEF JobInv
<1>. QED BY <1>1, JobsAre

LEMMA NextSees ==
    ASSUME FreshJobs, TypeInv, JobInv, SeesItsJobs, [Next]_vars
    PROVE  SeesItsJobs'
<1>1. CASE pc' \in {"idle", "save"}
  BY <1>1 DEF SeesItsJobs
<1>2. CASE Begin /\ Reconcile
  <2>1. \A j \in Job : jobs[j] # "absent" => jobCache[j] # "absent"
    BY <1>2 DEF Begin
  <2>. QED BY <1>2, <2>1 DEF Begin, Reconcile, SeesItsJobs
<1>3. CASE HandlersDone /\ Reconcile
  <2>1. jobs' = jobs /\ pc' = "act"
    BY <1>3 DEF HandlersDone, GoOn
  <2>. QED BY <1>3, <2>1, HandlersAreDone DEF SeesItsJobs
<1>4. CASE pc = "act" /\ pc' = "iterate" /\ Reconcile
  <2>1. jobs' = jobs
    BY <1>4, ReconcileLaunches DEF Launched
  <2>. QED BY <1>4, <2>1 DEF SeesItsJobs
<1>5. CASE pc' = pc /\ pc' \notin {"idle", "save"}
  <2>1. jobs' = jobs \/ \E j \in Job : JobEnds(j)
    BY <1>5, JobSteps DEF Launched
  <2>2. CASE pc = "check"
    <3>1. \A j \in Job : jobs'[j] # "absent" => jobs[j] # "absent"
      BY <2>1, EndedJobs
    <3>2. \A j \in Job : jobCache[j] # "absent" => jobCache'[j] # "absent"
      BY JobCacheSteps DEF JobInv, TypeInv, TypeOK
    <3>. QED BY <1>5, <2>2, <3>1, <3>2 DEF SeesItsJobs
  <2>3. CASE pc \in {"act", "iterate"}
    <3>1. jobs' = jobs
      BY <2>1, <2>3, EndedJobs DEF SeesItsJobs
    <3>. QED BY <1>5, <2>3, <3>1 DEF SeesItsJobs
  <2>. QED BY <1>5, <2>2, <2>3 DEF TypeInv, TypeOK
<1>. QED BY <1>1, <1>2, <1>3, <1>4, <1>5, PcSteps

FreshInv == TypeInv /\ VersionInv /\ JobInv /\ SavesItsJobs /\ SeesItsJobs

LEMMA FreshAlways == FreshJobs => (Spec => []FreshInv)
<1>. SUFFICES ASSUME FreshJobs PROVE Spec => []FreshInv
  OBVIOUS
<1>1. Init => SeesItsJobs
  BY DEF Init, SeesItsJobs
<1>2. TypeInv /\ VersionInv /\ JobInv /\ SavesItsJobs /\ SeesItsJobs /\ [Next]_vars
        => SeesItsJobs'
  BY NextSees
<1>. QED BY <1>1, <1>2, JobsAlways, PTL DEF Spec, FreshInv

(* If requests see the jobs the controller has created, the jobs of a      *)
(* start, loop or finish handler never run beside each other               *)
(* (experiment_controller.go:504), with any stale status and any faults.   *)
THEOREM HandlersTakeTurns == FreshJobs => (Spec => []OneHandlerAtATime)
<1>. SUFFICES ASSUME FreshJobs PROVE Spec => []OneHandlerAtATime
  OBVIOUS
<1>1. Init => OneHandlerAtATime
  BY DEF Init, OneHandlerAtATime
<1>2. FreshInv /\ OneHandlerAtATime /\ [Next]_vars => OneHandlerAtATime'
  <2>. SUFFICES ASSUME FreshInv, OneHandlerAtATime, [Next]_vars PROVE OneHandlerAtATime'
    OBVIOUS
  <2>. USE DEF FreshInv
  <2>1. ASSUME NEW j \in Job, Launched(j)
        PROVE  OneHandlerAtATime'
    <3>1. \A i \in Job : jobs[i] # "running"
      BY <2>1 DEF Launched, Initialized, SeesItsJobs
    <3>. QED BY <2>1, <3>1, CreatedJobs DEF Launched, OneHandlerAtATime
  <2>2. ASSUME NEW j \in Job, JobEnds(j)
        PROVE  OneHandlerAtATime'
    BY <2>2, EndedJobs DEF OneHandlerAtATime
  <2>. QED BY <2>1, <2>2, JobSteps DEF OneHandlerAtATime
<1>. QED BY <1>1, <1>2, FreshAlways, PTL DEF Spec

(* The start handler has completed when an iteration begins and from when  *)
(* Running is stored.                                                      *)
StartInv ==
    Start \in Handler =>
        /\ store.stage \in {"Running", "Finishing"} => jobs[Start] = "complete"
        /\ pc = "iterate" => jobs[Start] = "complete"

LEMMA StartHasCompleted ==
    ASSUME FreshInv, Start \in Handler, ~StartNotLaunched, pc = "act"
    PROVE  jobs[Start] = "complete"
BY JobsAre DEF FreshInv, StartNotLaunched, JobInv, SeesItsJobs

LEMMA NextStart ==
    ASSUME FreshInv, StartInv, [Next]_vars
    PROVE  StartInv'
<1>. SUFFICES ASSUME Start \in Handler,
                     store'.stage \in {"Running", "Finishing"} \/ pc' = "iterate"
              PROVE  jobs'[Start] = "complete"
  BY ActionsStay DEF StartInv
<1>. USE DEF FreshInv
<1>1. jobs[Start] = "complete" => jobs'[Start] = "complete"
  BY JobsStay, JobsAre
<1>2. CASE pc' = "iterate"
  <2>1. CASE pc = "iterate"
    BY <1>1, <2>1 DEF StartInv
  <2>2. CASE pc = "act" /\ Running
    BY <1>1, <2>2, StartHasCompleted DEF Running, Started
  <2>. QED BY <1>2, <2>1, <2>2, PcSteps DEF Begin, HandlersDone, GoOn
<1>3. CASE store'.stage \in {"Running", "Finishing"}
  <2>1. CASE store' = store
    BY <1>1, <1>3, <2>1 DEF StartInv
  <2>2. CASE MayWrite(store')
    <3>1. CASE store.stage \in {"Running", "Finishing"}
      BY <1>1, <3>1 DEF StartInv
    <3>2. CASE store.stage \notin {"Running", "Finishing"} /\ store'.stage = "Running"
      BY <1>1, <2>2, <3>2, StartHasCompleted DEF MayWrite
    <3>3. CASE store.stage \notin {"Running", "Finishing"} /\ store'.stage = "Finishing"
      BY <2>2, <3>3 DEF MayWrite, VersionInv, LaunchStep
    <3>. QED BY <1>3, <3>1, <3>2, <3>3
  <2>. QED BY <2>1, <2>2, StoreSteps
<1>. QED BY <1>2, <1>3

LEMMA StartAlways == FreshJobs => (Spec => []StartInv)
<1>. SUFFICES ASSUME FreshJobs PROVE Spec => []StartInv
  OBVIOUS
<1>1. Init => StartInv
  BY DEF Init, NewStatus, StartInv
<1>2. FreshInv /\ StartInv /\ [Next]_vars => StartInv'
  BY NextStart
<1>. QED BY <1>1, <1>2, FreshAlways, PTL DEF Spec

(* If requests see the jobs the controller has created, the stage goes     *)
(* past Initializing only when the start handler has completed             *)
(* (constants.go:118), although the cache is read twice on the way.        *)
THEOREM StartComesFirst == FreshJobs => (Spec => []StartHandlerFirst)
<1>1. StartInv => StartHandlerFirst
  BY DEF StartInv, StartHandlerFirst
<1>. QED BY <1>1, StartAlways, PTL

(* After success, all handlers have completed. *)
SuccessInv ==
    store.message = "succeeded" =>
        /\ store.iterations = MaxIterations
        /\ ~store.failed
        /\ \A j \in Handler : jobs[j] = "complete"

LEMMA SuccessHasJobs ==
    ASSUME FreshInv, StartInv, NEW t, MayWrite(t), t.message = "succeeded", NEW j \in Handler
    PROVE  jobs[j] = "complete"
<1>. USE DEF FreshInv
<1>1. /\ pc = "iterate" /\ Finish \notin Handler /\ store.iterations = MaxIterations
      /\ store.message # "launch failed"
  BY DEF MayWrite, StatusStep, VersionInv
<1>2. CASE j = Start
  BY <1>1, <1>2 DEF StartInv
<1>3. CASE j \in LoopJob
  <2>1. PICK k \in 1..MaxLoops : j = Loop(k)
    BY <1>3 DEF LoopJob
  <2>2. "loop" \in actions /\ j \in Job
    BY <1>3, HandlersAre
  <2>3. store.iterations >= k * IterationsPerLoop
    BY <1>1, LoopBoundary
  <2>4. jobs[j] # "absent"
    BY <1>1, <2>1, <2>2, <2>3 DEF SavesItsJobs, HasItsJobs
  <2>. QED BY <1>1, <2>2, <2>4 DEF SeesItsJobs
<1>. QED BY <1>1, <1>2, <1>3, JobsAre, HandlersAre

(* If requests see the jobs the controller has created, an experiment that *)
(* reports success has run all its iterations and none of its handlers has *)
(* failed or ever will: a stale request that comes late launches nothing   *)
(* new.                                                                    *)
THEOREM SuccessEarned == FreshJobs => (Spec => []SuccessIsEarned)
<1>. SUFFICES ASSUME FreshJobs PROVE Spec => []SuccessIsEarned
  OBVIOUS
<1>1. Init => SuccessInv
  BY DEF Init, NewStatus, SuccessInv
<1>2. FreshInv /\ StartInv /\ SuccessInv /\ [Next]_vars => SuccessInv'
  <2>. SUFFICES ASSUME FreshInv, StartInv, SuccessInv, [Next]_vars,
                       store'.message = "succeeded"
                PROVE  /\ store'.iterations = MaxIterations
                       /\ ~store'.failed
                       /\ \A j \in Handler' : jobs'[j] = "complete"
    BY DEF SuccessInv
  <2>. USE DEF FreshInv
  <2>1. Handler' = Handler /\ Handler \subseteq Job
    BY ActionsStay, HandlersAre
  <2>2. \A j \in Handler : jobs[j] = "complete" => jobs'[j] = "complete"
    BY <2>1, JobsStay
  <2>3. CASE store' = store
    BY <2>1, <2>2, <2>3 DEF SuccessInv
  <2>4. CASE MayWrite(store')
    <3>1. \A j \in Handler : jobs[j] = "complete"
      BY <2>4, SuccessHasJobs
    <3>. QED BY <2>1, <2>2, <2>4, <3>1 DEF MayWrite
  <2>. QED BY <2>3, <2>4, StoreSteps
<1>3. FreshInv /\ SuccessInv => SuccessIsEarned
  BY DEF FreshInv, JobInv, SuccessInv, SuccessIsEarned
<1>. QED BY <1>1, <1>2, <1>3, FreshAlways, StartAlways, PTL DEF Spec

(* A launch in Finishing counts no iteration. *)
FinishInv ==
    pc = "save" /\ current /\ store.stage = "Finishing" => obj.iterations = store.iterations

LEMMA FinishingHasJob ==
    ASSUME FreshInv, store.stage = "Finishing"
    PROVE  pc # "iterate"
BY DEF FreshInv, VersionInv, SavesItsJobs, HasItsJobs, SeesItsJobs

LEMMA NextFinish ==
    ASSUME FreshInv, FinishInv, [Next]_vars
    PROVE  FinishInv'
<1>. SUFFICES ASSUME pc' = "save", current', store'.stage = "Finishing"
              PROVE  obj'.iterations = store'.iterations
  BY DEF FinishInv
<1>. USE DEF FreshInv
<1>1. ASSUME NEW j \in Job, Launched(j)
      PROVE  obj'.iterations = store'.iterations
  <2>1. store' = store /\ current /\ pc \in {"act", "iterate"}
    BY <1>1 DEF Launched, Initialized
  <2>2. pc # "iterate" /\ obj = store
    BY <2>1, FinishingHasJob DEF VersionInv
  <2>. QED BY <1>1, <2>1, <2>2 DEF Launched
<1>2. CASE UNCHANGED <<pc, obj, current, store>>
  BY <1>2 DEF FinishInv
<1>3. CASE Reconcile
  <2>1. CASE pc = "save"
    <3>1. SaveLaunch \/ Begin
      BY <1>3, <2>1 DEF Reconcile, InitializeStatus, AlreadyCompleted, HandlerRunning,
         HandlerFinished, HandlerFailed, LoopWeightsFail, HandlersDone, Checking,
         InvalidTasks, AcquireTarget, StartInitializing, LaunchStart, ReadMetrics,
         StartRunning, InvalidVersions, SetStartTime, KeepStartTime, Running, Started,
         Initialized, FinishExperiment, TooEarly, IterationFails, RollbackExperiment,
         CompleteIteration, Iterating
    <3>. QED BY <3>1 DEF SaveLaunch, Begin, EndRequest, WriteFails, Done
  <2>. QED BY <1>1, <1>3, <2>1, ReconcileLaunches
<1>4. CASE Surroundings \/ UNCHANGED vars
  BY <1>2, <1>4, SurroundingsKeep DEF Surroundings, Edit, Deliver, TimePasses, TimerFires,
     TargetReleased, Restart, JobEnds, JobAdded, JobUpdated, vars, memory
<1>. QED BY <1>3, <1>4 DEF Next

(* If requests see the jobs the controller has created, no iteration is    *)
(* counted from Finishing on (constants.go:125).                           *)
THEOREM FinishingIsFinal == FreshJobs => (Spec => NoIterationWhenFinishing)
<1>. SUFFICES ASSUME FreshJobs PROVE Spec => NoIterationWhenFinishing
  OBVIOUS
<1>1. Init => FinishInv
  BY DEF Init, FinishInv
<1>2. FreshInv /\ FinishInv /\ [Next]_vars => FinishInv'
  BY NextFinish
<1>3. FreshInv /\ FinishInv /\ [Next]_vars
        => [store.stage = "Finishing" => store'.iterations = store.iterations]_vars
  BY StoreSteps, FinishingHasJob DEF FreshInv, FinishInv, MayWrite
<1>. QED BY <1>1, <1>2, <1>3, FreshAlways, PTL DEF Spec, NoIterationWhenFinishing

=============================================================================
