---------------------- MODULE ExperimentContractProofs ----------------------
(***************************************************************************)
(* The life cycle implements the contract, for any handlers, loops and     *)
(* iterations, on requests that see the jobs the controller has created.   *)
(***************************************************************************)
EXTENDS MCLifecycle, ExperimentLifecycleProofs

(* The contract numbers the handlers as the life cycle does. *)
LEMMA SameHandlers ==
    /\ Contract!Start = Start /\ Contract!Finish = Finish
    /\ \A k : Contract!Loop(k) = Loop(k)
    /\ Contract!LoopJob = LoopJob
    /\ Contract!Job = Job
    /\ Contract!Handler = Handler
    /\ Contract!MaxIterations = MaxIterations
<1>1. /\ Contract!Start = Start /\ Contract!Finish = Finish
      /\ \A k : Contract!Loop(k) = Loop(k)
      /\ Contract!MaxIterations = MaxIterations
  BY DEF Contract!Start, Start, Contract!Finish, Finish, Contract!Loop, Loop,
     Contract!MaxIterations, MaxIterations
<1>2. Contract!LoopJob = LoopJob
  BY <1>1, ConstantsOK DEF Contract!LoopJob, LoopJob
<1>3. Contract!Job = Job
  BY <1>1, <1>2 DEF Contract!Job, Job
<1>4. Contract!Handler = Handler
  BY <1>1, <1>2, <1>3, JobsAre DEF Contract!Handler, Handler
<1>. QED BY <1>1, <1>2, <1>3, <1>4

-----------------------------------------------------------------------------
(***************************************************************************)
(* The copies of the status that requests may act on: the cache, what is   *)
(* on its way to it, and what a request has read.                          *)
(***************************************************************************)
Copies ==
    {cache} \cup {pending[i] : i \in 1..Len(pending)}
            \cup (IF pc = "save" THEN {} ELSE {obj})

(* A copy was stored once. *)
LEMMA CopiesAreOld ==
    ASSUME TypeInv, VersionInv, [Next]_vars
    PROVE  Copies' \subseteq Copies \cup {store', NewStatus}
<1>. DEFINE S == Copies \cup {store', NewStatus}
<1>1. pending \in Seq(Status)
  BY DEF TypeInv, TypeOK
<1>2. /\ cache \in S /\ store' \in S /\ NewStatus \in S
      /\ \A i \in 1..Len(pending) : pending[i] \in S
      /\ pc # "save" => obj \in S
  BY DEF Copies
<1>. SUFFICES /\ cache' \in S
              /\ \A i \in 1..Len(pending') : pending'[i] \in S
              /\ pc' # "save" => obj' \in S
  BY DEF Copies
<1>. HIDE DEF S
<1>3. ASSUME pending' = Append(pending, store')
      PROVE  \A i \in 1..Len(pending') : pending'[i] \in S
  <2>1. /\ Len(pending') = Len(pending) + 1 /\ Len(pending) \in Nat
        /\ \A i \in 1..Len(pending) : pending'[i] = pending[i]
        /\ pending'[Len(pending) + 1] = store'
    BY <1>1, <1>3, AppendProperties, NextType DEF TypeInv, TypeOK
  <2>. QED BY <1>2, <2>1
<1>4. CASE Reconcile
  <2>1. \A i \in 1..Len(pending') : pending'[i] \in S
    BY <1>2, <1>3, <1>4, ReconcileWrites DEF Outcome
  <2>2. cache' \in S
    BY <1>2, <1>4 DEF Reconcile
  <2>3. pc' # "save" => obj' \in S
    BY <1>2, <1>4, MemorySteps
  <2>. QED BY <2>1, <2>2, <2>3
<1>5. CASE Edit
  <2>1. pending' = Append(pending, store') /\ UNCHANGED <<cache, pc, obj>>
    BY <1>5 DEF Edit, Publish
  <2>. QED BY <1>2, <1>3, <2>1
<1>6. CASE Deliver
  <2>1. /\ Len(Tail(pending)) = Len(pending) - 1 /\ Head(pending) = pending[1]
        /\ \A i \in 1..Len(Tail(pending)) : Tail(pending)[i] = pending[i + 1]
        /\ Len(pending) \in Nat \ {0}
    BY <1>1, <1>6, HeadTailProperties, EmptySeq DEF Deliver
  <2>2. \A i \in 1..Len(Tail(pending)) : i + 1 \in 1..Len(pending)
    BY <2>1
  <2>. QED BY <1>2, <1>6, <2>1, <2>2 DEF Deliver, memory
<1>7. CASE Restart
  <2>1. Len(pending') = 0 /\ cache' = store' /\ obj' = NewStatus
    BY <1>7 DEF Restart
  <2>. QED BY <1>2, <2>1
<1>8. CASE \/ TimePasses \/ TimerFires \/ TargetReleased \/ UNCHANGED vars
           \/ \E j \in Job : JobEnds(j) \/ JobAdded(j) \/ JobUpdated(j)
  <2>1. UNCHANGED <<pending, cache, pc, obj>>
    BY <1>8 DEF TimePasses, TimerFires, TargetReleased, vars, JobEnds, JobAdded, JobUpdated,
       memory
  <2>. QED BY <1>2, <2>1
<1>. QED BY <1>4, <1>5, <1>6, <1>7, <1>8 DEF Next, Surroundings

(* A copy is not ahead of the store, and the jobs it speaks of exist. *)
CopyInv(s) ==
    /\ s \in Status
    /\ HasItsJobs(s)
    /\ s.failed \/ s.message # "none" => s.stage = "Completed"
    /\ Rank[s.stage] <= Rank[store.stage]
    /\ s.iterations <= store.iterations

CopiesInv == \A s \in Copies : CopyInv(s)

LEMMA StoreGrows ==
    ASSUME TypeInv, VersionInv, [Next]_vars
    PROVE  /\ Rank[store.stage] \in Nat /\ Rank[store'.stage] \in Nat
           /\ Rank[store.stage] <= Rank[store'.stage]
<1>1. store.stage \in Stage /\ store'.stage \in Stage
  BY NextType DEF TypeInv, TypeOK, Status
<1>2. Rank[store.stage] \in Nat /\ Rank[store'.stage] \in Nat
  BY <1>1, Ranks
<1>3. store' = store \/ Rank[store.stage] <= Rank[store'.stage]
  BY StoreSteps DEF MayWrite, StatusStep
<1>. QED BY <1>2, <1>3

LEMMA NewIsBehind ==
    ASSUME TypeInv
    PROVE  CopyInv(NewStatus)
<1>1. HasItsJobs(NewStatus)
  <2>1. \A k \in 1..MaxLoops : ~(0 >= k * IterationsPerLoop)
    BY LoopBoundary
  <2>. QED BY <2>1 DEF HasItsJobs, NewStatus
<1>2. store.stage \in Stage /\ store.iterations \in Nat
  BY ConstantsOK DEF TypeInv, TypeOK, Status
<1>3. Rank["New"] <= Rank[store.stage] /\ 0 <= store.iterations
  BY <1>2, Ranks
<1>. QED BY <1>1, <1>3, NewType DEF CopyInv, NewStatus

LEMMA NextCopies ==
    ASSUME TypeInv, VersionInv, SavesItsJobs, CopiesInv, [Next]_vars
    PROVE  CopiesInv'
<1>1. TypeInv' /\ VersionInv' /\ SavesItsJobs'
  BY NextType, NextVersion, NextSavesJobs
<1>. SUFFICES ASSUME NEW s \in Copies \cup {store', NewStatus}
              PROVE  CopyInv(s)'
  BY CopiesAreOld DEF CopiesInv
<1>2. CASE s = store'
  <2>1. store' \in Status /\ HasItsJobs(store)'
    BY <1>1 DEF TypeInv, TypeOK, SavesItsJobs
  <2>2. Rank[store'.stage] \in Nat /\ store'.iterations \in Nat
    BY StoreGrows, CountGrows
  <2>3. HasItsJobs(s)'
    BY <1>2, <2>1 DEF HasItsJobs
  <2>. QED BY <1>1, <1>2, <2>1, <2>2, <2>3 DEF CopyInv, VersionInv
<1>3. CASE s \in Copies \cup {NewStatus}
  <2>1. CopyInv(s)
    BY <1>3, NewIsBehind DEF CopiesInv
  <2>2. HasItsJobs(s)'
    BY <2>1, StillHasThem DEF CopyInv, HasItsJobs
  <2>3. s.stage \in Stage /\ s.iterations \in Nat
    BY <2>1, ConstantsOK DEF CopyInv, Status
  <2>4. Rank[s.stage] <= Rank[store'.stage] /\ s.iterations <= store'.iterations
    BY <2>1, <2>3, StoreGrows, CountGrows, Ranks DEF CopyInv
  <2>. QED BY <2>1, <2>2, <2>4 DEF CopyInv
<1>. QED BY <1>2, <1>3

-----------------------------------------------------------------------------
(***************************************************************************)
(* The order of the handlers.                                              *)
(***************************************************************************)
QuietBesides(i) == \A j \in Job : j # i => jobs[j] \in {"absent", "complete"}

StartDone == Start \in Handler => jobs[Start] = "complete"

(* A handler that runs or has failed is alone, the finish handler is the   *)
(* last one, and the start handler has completed before any other starts.  *)
OrderInv ==
    /\ \A i \in Job : jobs[i] \in {"running", "failed"} => QuietBesides(i)
    /\ jobs[Finish] # "absent" => /\ QuietBesides(Finish)
                                  /\ Rank["Running"] <= Rank[store.stage]
    /\ (\E i \in Job : i # Start /\ jobs[i] # "absent") => StartDone

(* The loop job that an iteration launches. *)
LEMMA LoopLaunch ==
    ASSUME TypeInv, obj.iterations < MaxIterations, CompletedLoop(Iterated(obj))
    PROVE  \E k \in 1..MaxLoops :
              /\ LoopsDone(Iterated(obj)) = k
              /\ obj.iterations + 1 = k * IterationsPerLoop
<1>. DEFINE n == obj.iterations + 1
<1>1. Iterated(obj).iterations = n /\ n \in 1..MaxIterations
  BY Counting, ConstantsOK DEF TypeInv, TypeOK, Status
<1>2. n % IterationsPerLoop = 0 /\ LoopsDone(Iterated(obj)) = n \div IterationsPerLoop
  BY <1>1 DEF CompletedLoop, LoopsDone
<1>. QED BY <1>1, <1>2, LoopArithmetic

(* A launch from an iteration finds the experiment running, or ended by    *)
(* a request that this one has not heard of.                               *)
LEMMA Iterates ==
    ASSUME FreshInv, StartInv, CopiesInv, pc = "iterate"
    PROVE  /\ \A i \in Job : jobs[i] \in {"absent", "complete"}
           /\ jobs[Finish] = "absent" /\ StartDone
           /\ store.stage \in {"Running", "Completed"}
           /\ obj.stage = "Running" /\ obj.message = "none" /\ ~obj.failed
           /\ HasItsJobs(obj) /\ obj.iterations <= store.iterations
<1>. USE DEF FreshInv
<1>1. CopyInv(obj)
  BY DEF CopiesInv, Copies
<1>2. (\A i \in Job : jobs[i] \in {"absent", "complete"}) /\ jobs[Finish] = "absent" /\ StartDone
  BY DEF SeesItsJobs, StartInv, StartDone
<1>3. obj.stage \in {"Running", "Finishing"} /\ obj.message = "none" /\ ~obj.failed
  <2>1. obj.stage \in {"Running", "Finishing"}
    BY DEF TypeInv
  <2>. QED BY <1>1, <2>1 DEF CopyInv
<1>4. obj.stage = "Running"
  BY <1>1, <1>2, <1>3 DEF CopyInv, HasItsJobs
<1>5. store.stage \in Stage /\ 4 <= Rank[store.stage]
  BY <1>1, <1>4, Ranks DEF TypeInv, TypeOK, Status, CopyInv
<1>6. store.stage \in {"Running", "Finishing", "Completed"}
  BY <1>5, Stages, Ranks
<1>7. store.stage # "Finishing"
  BY FinishingHasJob
<1>. QED BY <1>1, <1>2, <1>3, <1>4, <1>6, <1>7 DEF CopyInv

(* The start handler is launched in Initializing, or when the experiment   *)
(* has ended without this request knowing.                                 *)
LEMMA InitializesOnly ==
    ASSUME FreshInv, StartInv, CopiesInv, OrderInv, Initialized,
           Start \in Handler, jobs[Start] = "absent"
    PROVE  /\ \A i \in Job : jobs[i] = "absent"
           /\ store.stage \in {"Initializing", "Completed"}
<1>. USE DEF FreshInv
<1>1. \A i \in Job : jobs[i] = "absent"
  BY JobsAre DEF OrderInv, StartDone
<1>2. obj.stage \in {"Initializing", "Running", "Finishing"} /\ CopyInv(obj)
  BY Stages DEF Initialized, TypeInv, TypeOK, Status, CopiesInv, Copies
<1>3. store.stage \in Stage /\ 3 <= Rank[store.stage]
  <2>1. store.stage \in Stage /\ obj.stage \in Stage /\ Rank[obj.stage] <= Rank[store.stage]
    BY <1>2 DEF TypeInv, TypeOK, Status, CopyInv
  <2>2. Rank[obj.stage] \in 3..5 /\ Rank[store.stage] \in 1..6
    BY <1>2, <2>1, Ranks
  <2>. QED BY <2>1, <2>2
<1>4. store.stage \in {"Initializing", "Running", "Finishing", "Completed"}
  BY <1>3, Stages, Ranks
<1>. QED BY <1>1, <1>4 DEF StartInv

LEMMA Launches ==
    ASSUME FreshInv, StartInv, CopiesInv, OrderInv, NEW j \in Job, Launched(j)
    PROVE  /\ j \in Handler
           /\ \A i \in Job : jobs[i] \in {"absent", "complete"}
           /\ jobs[Finish] = "absent"
           /\ \/ j = Start /\ Initialized /\ obj' = obj
              \/ j = Finish /\ pc = "iterate" /\ obj' = Advance(obj, "Finishing")
              \/ /\ pc = "iterate" /\ obj' = Iterated(obj) /\ obj.iterations < MaxIterations
                 /\ \E k \in 1..MaxLoops : j = Loop(k) /\ obj.iterations + 1 = k * IterationsPerLoop
<1>1. pc \in {"act", "iterate"}
  BY DEF Launched, Initialized
<1>2. (\A i \in Job : jobs[i] \in {"absent", "complete"}) /\ jobs[Finish] = "absent"
  BY <1>1 DEF FreshInv, SeesItsJobs
<1>. QED BY <1>2, LoopLaunch DEF Launched, FreshInv

LEMMA NextOrder ==
    ASSUME FreshInv, StartInv, CopiesInv, OrderInv, [Next]_vars
    PROVE  OrderInv'
<1>. USE DEF FreshInv
<1>1. Handler' = Handler /\ Rank[store.stage] <= Rank[store'.stage]
      /\ Rank[store.stage] \in Nat /\ Rank[store'.stage] \in Nat /\ Rank["Running"] \in Nat
  BY ActionsStay, StoreGrows, Ranks
<1>2. ASSUME \A i \in Job : jobs'[i] = jobs[i]
      PROVE  OrderInv'
  BY <1>1, <1>2, JobsAre DEF OrderInv, QuietBesides, StartDone
<1>3. ASSUME NEW j \in Job, Launched(j), jobs[j] = "absent"
      PROVE  OrderInv'
  <2>1. jobs'[j] = "running" /\ \A i \in Job : i # j => jobs'[i] = jobs[i]
    BY <1>3, CreatedJobs DEF Launched
  <2>2. (\A i \in Job : jobs[i] \in {"absent", "complete"}) /\ jobs[Finish] = "absent"
    BY <1>3, Launches
  <2>3. QuietBesides(j)' /\ \A i \in Job : jobs'[i] \in {"running", "failed"} => i = j
    BY <2>1, <2>2 DEF QuietBesides
  <2>4. jobs'[Finish] # "absent" => j = Finish
    BY <2>1, <2>2, JobsAre
  <2>5. j = Finish => Rank["Running"] <= Rank[store.stage]
    <3>1. j = Finish => pc = "iterate"
      BY <1>3, JobsAre DEF Launched
    <3>2. ASSUME pc = "iterate" PROVE store.stage \in {"Running", "Completed"}
      BY <3>2, Iterates
    <3>. QED BY <3>1, <3>2, Ranks
  <2>6. ASSUME NEW i \in Job, i # Start, jobs'[i] # "absent"
        PROVE  StartDone'
    <3>1. CASE i = j
      <4>1. pc = "iterate"
        BY <1>3, <2>6, <3>1 DEF Launched
      <4>2. StartDone
        BY <4>1, Iterates
      <4>. QED BY <1>1, <2>1, <2>6, <3>1, <4>2, JobsAre DEF StartDone
    <3>2. CASE i # j
      <4>1. StartDone
        BY <2>1, <2>6, <3>2 DEF OrderInv
      <4>2. Start \in Handler => j # Start
        BY <1>3, <4>1 DEF StartDone
      <4>. QED BY <1>1, <2>1, <4>1, <4>2, JobsAre DEF StartDone
    <3>. QED BY <3>1, <3>2
  <2>. QED BY <1>1, <2>3, <2>4, <2>5, <2>6 DEF OrderInv
<1>4. ASSUME NEW j \in Job, JobEnds(j)
      PROVE  OrderInv'
  <2>1. /\ jobs[j] = "running" /\ jobs'[j] \in {"complete", "failed"}
        /\ \A i \in Job : i # j => jobs'[i] = jobs[i]
    BY <1>4, EndedJobs
  <2>2. QuietBesides(j) /\ QuietBesides(j)'
    BY <2>1 DEF OrderInv, QuietBesides
  <2>3. \A i \in Job : jobs'[i] \in {"running", "failed"} => i = j
    BY <2>1, <2>2 DEF QuietBesides
  <2>4. jobs'[Finish] # "absent" => QuietBesides(Finish)' /\ jobs[Finish] # "absent"
    <3>1. ASSUME jobs'[Finish] # "absent" PROVE jobs[Finish] # "absent"
      BY <2>1, <3>1, JobsAre
    <3>2. ASSUME jobs[Finish] # "absent" PROVE j = Finish
      BY <2>1, <3>2 DEF OrderInv, QuietBesides
    <3>. QED BY <2>2, <3>1, <3>2
  <2>5. ASSUME NEW i \in Job, i # Start, jobs'[i] # "absent" PROVE StartDone'
    <3>1. jobs[i] # "absent"
      BY <2>1, <2>5
    <3>2. StartDone
      BY <2>5, <3>1 DEF OrderInv
    <3>. QED BY <1>1, <2>1, <3>2, JobsAre DEF StartDone
  <2>. QED BY <1>1, <2>2, <2>3, <2>4, <2>5 DEF OrderInv
<1>5. ASSUME NEW j \in Job, Launched(j), jobs[j] # "absent"
      PROVE  OrderInv'
  BY <1>2, <1>5, CreatedJobs DEF Launched
<1>. QED BY <1>2, <1>3, <1>4, <1>5, JobSteps

(* Requests that start on an up-to-date status act on the stored one.      *)
FreshObj == FreshStatus /\ pc \in {"check", "act", "iterate"} => obj = store

LEMMA NextFreshObj ==
    ASSUME TypeInv, VersionInv, FreshObj, [Next]_vars
    PROVE  FreshObj'
<1>. SUFFICES ASSUME FreshStatus, pc' \in {"check", "act", "iterate"}
              PROVE  obj' = store'
  BY DEF FreshObj
<1>1. CASE Surroundings \/ UNCHANGED vars
  <2>1. store' = store
    BY <1>1, SurroundingsKeep DEF vars
  <2>2. pc' = pc /\ obj' = obj
    BY <1>1 DEF Surroundings, Edit, Deliver, TimePasses, TimerFires, TargetReleased, Restart,
       JobEnds, JobAdded, JobUpdated, vars, memory
  <2>. QED BY <2>1, <2>2 DEF FreshObj
<1>2. CASE Reconcile /\ Begin
  BY <1>2 DEF Begin, VersionInv
<1>3. CASE HandlersDone \/ KeepStartTime
  BY <1>3 DEF HandlersDone, Checking, KeepStartTime, Running, Started, Initialized, GoOn, FreshObj
<1>4. CASE SetStartTime
  BY <1>4 DEF SetStartTime, StartTimeIsSet, WriteFails, Publish, Retry, Done
<1>5. CASE Reconcile /\ ~(Begin \/ HandlersDone \/ KeepStartTime \/ SetStartTime)
  <2>1. ASSUME NEW o, EndRequest(o) \/ EndRequestAndWait(o) \/ Leave \/ Retry \/ Fail(o)
        PROVE  pc' = "idle"
    BY <2>1 DEF EndRequest, EndRequestAndWait, WriteFails, Leave, Retry, Fail, Done
  <2>2. ASSUME NEW j, NEW o, NEW launched, Launch(j, o, launched)
        PROVE  pc' \in {"save", "idle"}
    BY <2>1, <2>2 DEF Launch
  <2>3. CASE \/ InitializeStatus \/ AlreadyCompleted
             \/ HandlerRunning \/ HandlerFinished \/ HandlerFailed \/ LoopWeightsFail
             \/ InvalidTasks \/ AcquireTarget \/ StartInitializing
             \/ ReadMetrics \/ StartRunning \/ InvalidVersions
             \/ TooEarly \/ IterationFails \/ SaveLaunch
    BY <2>1, <2>3 DEF InitializeStatus, AlreadyCompleted, HandlerRunning, HandlerFinished,
       HandlerFailed, LoopWeightsFail, InvalidTasks, AcquireTarget, StartInitializing,
       ReadMetrics, StartRunning, InvalidVersions, TooEarly, IterationFails, SaveLaunch
  <2>4. CASE LaunchStart \/ FinishExperiment \/ RollbackExperiment \/ CompleteIteration
    BY <2>1, <2>2, <2>4 DEF LaunchStart, FinishExperiment, RollbackExperiment, Terminate,
       CompleteIteration
  <2>. QED BY <1>5, <2>3, <2>4 DEF Reconcile
<1>. QED BY <1>1, <1>2, <1>3, <1>4, <1>5 DEF Next

(* What a request is about to save after a launch, and what has been       *)
(* launched for it.                                                        *)
SaveInv ==
    pc = "save" /\ current =>
        \/ obj = store
        \/ /\ store.stage = "Running" /\ obj = Advance(store, "Finishing")
           /\ Finish \in Handler /\ jobs[Finish] # "absent"
        \/ \E k \in 1..MaxLoops :
              /\ store.stage = "Running" /\ obj = Iterated(store)
              /\ store.iterations + 1 = k * IterationsPerLoop
              /\ QuietBesides(Loop(k)) /\ jobs[Finish] = "absent" /\ StartDone

LEMMA NextSave ==
    ASSUME FreshInv, StartInv, CopiesInv, OrderInv, SaveInv, [Next]_vars
    PROVE  SaveInv'
<1>. SUFFICES ASSUME pc' = "save", current'
              PROVE  \/ obj' = store'
                     \/ /\ store'.stage = "Running" /\ obj' = Advance(store', "Finishing")
                        /\ Finish \in Handler' /\ jobs'[Finish] # "absent"
                     \/ \E k \in 1..MaxLoops :
                           /\ store'.stage = "Running" /\ obj' = Iterated(store')
                           /\ store'.iterations + 1 = k * IterationsPerLoop
                           /\ QuietBesides(Loop(k))' /\ jobs'[Finish] = "absent" /\ StartDone'
  BY DEF SaveInv
<1>. USE DEF FreshInv
<1>1. Handler' = Handler
  BY ActionsStay
<1>2. ASSUME NEW j \in Job, Launched(j)
      PROVE  SaveInv'
  <2>1. current /\ store' = store /\ pc \in {"act", "iterate"}
    BY <1>2 DEF Launched, Initialized
  <2>2. obj = store
    BY <2>1 DEF VersionInv
  <2>3. jobs'[j] # "absent" /\ \A i \in Job : i # j => jobs'[i] = jobs[i]
    BY <1>2, CreatedJobs DEF Launched
  <2>4. CASE j = Start /\ obj' = obj
    BY <2>1, <2>2, <2>4 DEF SaveInv
  <2>5. CASE j = Finish /\ pc = "iterate" /\ obj' = Advance(obj, "Finishing")
    <3>1. store.stage = "Running"
      BY <2>2, <2>5, Iterates
    <3>. QED BY <1>1, <1>2, <2>1, <2>2, <2>3, <2>5, <3>1 DEF SaveInv, Launched
  <2>6. ASSUME pc = "iterate", obj' = Iterated(obj),
               NEW k \in 1..MaxLoops, j = Loop(k), obj.iterations + 1 = k * IterationsPerLoop
        PROVE  SaveInv'
    <3>1. /\ \A i \in Job : jobs[i] \in {"absent", "complete"}
          /\ jobs[Finish] = "absent" /\ StartDone /\ store.stage = "Running"
      BY <2>2, <2>6, Iterates
    <3>2. j # Start /\ j # Finish
      BY <2>6, JobsAre
    <3>3. QuietBesides(Loop(k))'
      BY <2>3, <2>6, <3>1 DEF QuietBesides
    <3>4. jobs'[Finish] = "absent" /\ StartDone'
      BY <1>1, <2>3, <3>1, <3>2, JobsAre DEF StartDone
    <3>. QED BY <2>1, <2>2, <2>6, <3>1, <3>3, <3>4 DEF SaveInv
  <2>. QED BY <1>2, <2>4, <2>5, <2>6, Launches
<1>3. ASSUME pc = "save", obj' = obj, current, store' = store,
             \A i \in Job : /\ jobs[i] # "absent" => jobs'[i] # "absent"
                            /\ jobs[i] \in {"absent", "complete"} => jobs'[i] = jobs[i]
      PROVE  SaveInv'
  <2>1. CASE obj = store
    BY <1>3, <2>1 DEF SaveInv
  <2>2. CASE /\ store.stage = "Running" /\ obj = Advance(store, "Finishing")
             /\ Finish \in Handler /\ jobs[Finish] # "absent"
    <3>1. jobs'[Finish] # "absent"
      BY <1>3, <2>2, JobsAre
    <3>2. store'.stage = "Running" /\ obj' = Advance(store', "Finishing")
      BY <1>3, <2>2
    <3>. QED BY <1>1, <2>2, <3>1, <3>2 DEF SaveInv
  <2>3. ASSUME NEW k \in 1..MaxLoops, store.stage = "Running", obj = Iterated(store),
               store.iterations + 1 = k * IterationsPerLoop,
               QuietBesides(Loop(k)), jobs[Finish] = "absent", StartDone
        PROVE  SaveInv'
    <3>1. QuietBesides(Loop(k))'
      BY <1>3, <2>3 DEF QuietBesides
    <3>2. jobs'[Finish] = "absent" /\ StartDone'
      BY <1>1, <1>3, <2>3, JobsAre DEF StartDone
    <3>. QED BY <1>3, <2>3, <3>1, <3>2 DEF SaveInv
  <2>. QED BY <1>3, <2>1, <2>2, <2>3 DEF SaveInv
<1>4. CASE Surroundings \/ UNCHANGED vars
  <2>1. store' = store /\ pc = "save" /\ obj' = obj /\ current
    BY <1>4, SurroundingsKeep DEF Surroundings, Edit, Deliver, TimePasses, TimerFires,
       TargetReleased, Restart, JobEnds, JobAdded, JobUpdated, vars, memory
  <2>2. ASSUME NEW i \in Job
        PROVE  /\ jobs[i] # "absent" => jobs'[i] # "absent"
               /\ jobs[i] \in {"absent", "complete"} => jobs'[i] = jobs[i]
    <3>1. jobs' = jobs \/ \E j \in Job : JobEnds(j)
      BY <1>4 DEF Surroundings, Edit, Deliver, TimePasses, TimerFires, TargetReleased, Restart,
         JobAdded, JobUpdated, vars, cluster
    <3>. QED BY <3>1, EndedJobs
  <2>. QED BY <1>3, <2>1, <2>2 DEF SaveInv
<1>5. CASE Reconcile
  <2>1. pc # "save"
    <3>1. pc = "save" => SaveLaunch
      BY <1>5 DEF Reconcile, Begin, InitializeStatus, AlreadyCompleted, HandlerRunning,
         HandlerFinished, HandlerFailed, LoopWeightsFail, HandlersDone, Checking,
         InvalidTasks, AcquireTarget, StartInitializing, LaunchStart, ReadMetrics,
         StartRunning, InvalidVersions, SetStartTime, KeepStartTime, Running, Started,
         Initialized, FinishExperiment, TooEarly, IterationFails, RollbackExperiment,
         CompleteIteration, Iterating
    <3>. QED BY <3>1 DEF SaveLaunch, EndRequest, WriteFails, Done
  <2>. QED BY <1>2, <1>5, <2>1, ReconcileLaunches DEF SaveInv
<1>. QED BY <1>4, <1>5 DEF Next, SaveInv

(* Everything the steps of the life cycle rely on. *)
LifeInv == FreshInv /\ StartInv /\ CopiesInv /\ OrderInv /\ FreshObj /\ SaveInv

LEMMA LifeAlways == FreshJobs => (Spec => []LifeInv)
<1>. SUFFICES ASSUME FreshJobs PROVE Spec => []LifeInv
  OBVIOUS
<1>1. Init => CopiesInv /\ OrderInv /\ FreshObj /\ SaveInv
  <2>. SUFFICES ASSUME Init PROVE CopiesInv /\ OrderInv /\ FreshObj /\ SaveInv
    OBVIOUS
  <2>1. \A s \in Copies : s = NewStatus
    <3>1. Len(pending) = 1 /\ pending[1] = NewStatus
      BY NewType DEF Init
    <3>. QED BY <3>1 DEF Init, Copies
  <2>2. CopiesInv
    BY <2>1, InitType, NewIsBehind DEF CopiesInv
  <2>. QED BY <2>2, JobsAre DEF Init, OrderInv, FreshObj, SaveInv
<1>2. FreshInv /\ StartInv /\ CopiesInv /\ OrderInv /\ FreshObj /\ SaveInv /\ [Next]_vars
        => (CopiesInv /\ OrderInv /\ FreshObj /\ SaveInv)'
  BY NextCopies, NextOrder, NextFreshObj, NextSave DEF FreshInv
<1>. QED BY <1>1, <1>2, FreshAlways, StartAlways, PTL DEF Spec, LifeInv

-----------------------------------------------------------------------------
(***************************************************************************)
(* Every step keeps the contract.                                          *)
(***************************************************************************)
Kept == Contract!Next \/ UNCHANGED Contract!vars

LEMMA QuietHandlers ==
    /\ (\A i \in Job : jobs[i] \in {"absent", "complete"}) => Contract!Quiet
    /\ \A i \in Job : QuietBesides(i) => Contract!QuietBut({i})
    /\ StartDone <=> Contract!StartIsDone
BY SameHandlers, HandlersAre
   DEF Contract!Quiet, Contract!QuietBut, Contract!StartIsDone, QuietBesides, StartDone

LEMMA Stutters ==
    ASSUME actions' = actions, jobs' = jobs,
           store'.stage = store.stage, store'.iterations = store.iterations,
           store'.failed = store.failed, store'.message = store.message
    PROVE  Kept
BY DEF Kept, Contract!vars

(* A request that writes nothing, or not on its version, or what it read.  *)
LEMMA NoChange ==
    ASSUME actions' = actions, jobs' = jobs, store' = store
    PROVE  Kept
BY Stutters

LEMMA EndsKept ==
    ASSUME LifeInv, NEW j \in Job, JobEnds(j), actions' = actions
    PROVE  Kept
<1>1. jobs[j] = "running" /\ store' = store
  BY DEF JobEnds
<1>2. Contract!HandlerEnds(j)
  BY <1>1 DEF JobEnds, Contract!HandlerEnds
<1>. QED BY <1>2, SameHandlers DEF Kept, Contract!Next

LEMMA LaunchKept ==
    ASSUME LifeInv, NEW j \in Job, Launched(j), actions' = actions
    PROVE  Kept
<1>. USE DEF LifeInv
<1>1. store' = store /\ jobs' = Created(j) /\ jobs \in [Job -> JobState]
  BY DEF Launched, FreshInv, TypeInv, TypeOK
<1>2. CASE jobs[j] # "absent"
  <2>1. jobs' = jobs
    BY <1>1, <1>2 DEF Created
  <2>. QED BY <1>1, <2>1, NoChange
<1>3. CASE jobs[j] = "absent"
  <2>1. jobs' = [jobs EXCEPT ![j] = "running"]
    BY <1>1, <1>3 DEF Created
  <2>2. /\ j \in Handler /\ jobs[Finish] = "absent"
        /\ \A i \in Job : jobs[i] \in {"absent", "complete"}
    BY Launches
  <2>3. Contract!Launch(j)
    BY <1>1, <1>3, <2>1, <2>2, QuietHandlers, SameHandlers DEF Contract!Launch
  <2>4. store.stage = "Completed" => ~FreshStatus
    <3>1. pc \in {"act", "iterate"}
      BY DEF Launched, Initialized
    <3>. QED BY <3>1 DEF FreshObj, FreshInv, TypeInv
  <2>5. CASE j = Start /\ Initialized
    <3>1. /\ \A i \in Job : jobs[i] = "absent"
          /\ store.stage \in {"Initializing", "Completed"}
      BY <1>3, <2>2, <2>5, InitializesOnly
    <3>2. Contract!LaunchStart
      BY <2>3, <2>4, <2>5, <3>1, SameHandlers DEF Contract!LaunchStart, Contract!In
    <3>. QED BY <3>2 DEF Kept, Contract!Next
  <2>6. ASSUME pc = "iterate"
        PROVE  store.stage \in {"Running", "Completed"} /\ Contract!In("Running")
    <3>1. store.stage \in {"Running", "Completed"}
      BY <2>6, Iterates
    <3>. QED BY <2>4, <3>1 DEF Contract!In
  <2>7. CASE j = Finish /\ pc = "iterate"
    <3>1. Contract!LaunchFinish
      BY <2>3, <2>6, <2>7, Iterates, QuietHandlers, SameHandlers DEF Contract!LaunchFinish
    <3>. QED BY <3>1 DEF Kept, Contract!Next
  <2>8. ASSUME pc = "iterate", NEW k \in 1..MaxLoops, j = Loop(k),
               obj.iterations + 1 = k * IterationsPerLoop
        PROVE  Kept
    <3>1. /\ k * IterationsPerLoop \in Nat /\ obj.iterations \in Nat /\ store.iterations \in Nat
          /\ k \in Nat
      BY LoopBoundary, ConstantsOK DEF FreshInv, TypeInv, TypeOK, Status
    <3>2. /\ HasItsJobs(obj) /\ obj.iterations <= store.iterations /\ obj.message = "none"
          /\ \A i \in Job : jobs[i] \in {"absent", "complete"}
          /\ StartDone
      BY <2>8, Iterates
    <3>3. "loop" \in actions
      BY <2>2, <2>8, JobsAre, HandlersAre
    <3>4. ASSUME NEW i \in 1..k - 1
          PROVE  jobs[Loop(i)] = "complete"
      <4>1. i \in 1..MaxLoops /\ i \in Nat /\ i <= k - 1
        BY ConstantsOK, <3>1
      <4>2. i * IterationsPerLoop <= (k - 1) * IterationsPerLoop
        BY <3>1, <4>1, ConstantsOK
      <4>3. (k - 1) * IterationsPerLoop = k * IterationsPerLoop - IterationsPerLoop
        BY <3>1, ConstantsOK
      <4>4. i * IterationsPerLoop \in Nat
        BY <4>1, ConstantsOK
      <4>5. obj.iterations >= i * IterationsPerLoop
        BY <2>8, <3>1, <4>2, <4>3, <4>4, ConstantsOK
      <4>. QED BY <3>2, <3>3, <4>1, <4>5, JobsAre DEF HasItsJobs
    <3>5. store.iterations >= k * IterationsPerLoop - 1
      BY <2>8, <3>1, <3>2
    <3>6. ASSUME store.stage = "Running"
          PROVE  store.iterations = k * IterationsPerLoop - 1
      <4>1. HasItsJobs(store) /\ store.message # "launch failed"
        BY <3>6 DEF FreshInv, SavesItsJobs, VersionInv
      <4>2. ~(store.iterations >= k * IterationsPerLoop)
        BY <1>3, <2>8, <3>3, <4>1 DEF HasItsJobs
      <4>. QED BY <3>1, <3>5, <4>2
    <3>7. \A i \in 1..k - 1 : Contract!Loop(i) = Loop(i)
      BY <3>1, SameHandlers
    <3>8. Contract!Loop(k) = j
      BY <2>8, <3>1, SameHandlers
    <3>9. Contract!LaunchLoop(k)
      BY <2>3, <2>6, <2>8, <3>2, <3>4, <3>5, <3>6, <3>7, <3>8, QuietHandlers
         DEF Contract!LaunchLoop
    <3>. QED BY <3>9 DEF Kept, Contract!Next
  <2>. QED BY <2>5, <2>7, <2>8, Launches
<1>. QED BY <1>2, <1>3

LEMMA Written ==
    ASSUME NEW o, EndRequest(o) \/ EndRequestAndWait(o)
    PROVE  jobs' = jobs /\ (store' = store \/ (current /\ store' = o))
BY DEF EndRequest, EndRequestAndWait, WriteFails, UpdateStatus, Publish

(* The end of an experiment with a verdict, from a status t that the       *)
(* request has made of the stored one.                                     *)
LEMMA EndKept ==
    ASSUME actions' = actions, jobs' = jobs, store.stage \notin {"New", "Completed"},
           NEW t \in Status, NEW m \in Message, store' = Ended(t, m)
    PROVE  /\ Contract!End(m)
           /\ store'.iterations = t.iterations /\ store'.failed = t.failed
BY Ending DEF Contract!End

(* Past the checks, with the stored version in hand. *)
LEMMA Acting ==
    ASSUME LifeInv, current, pc \in {"act", "iterate"}
    PROVE  /\ obj = store /\ obj \in Status
           /\ store.stage \in {"Waiting", "Initializing", "Running"}
           /\ ~store.failed /\ store.message = "none"
           /\ \A i \in Job : jobs[i] \in {"absent", "complete"}
           /\ jobs[Finish] = "absent"
           /\ Contract!Quiet
<1>. USE DEF LifeInv, FreshInv
<1>1. obj = store /\ obj \in Status /\ store.stage \notin {"New", "Completed"}
  BY DEF VersionInv, TypeInv, TypeOK
<1>2. ~store.failed /\ store.message = "none"
  BY <1>1, Stages DEF VersionInv, Status
<1>3. (\A i \in Job : jobs[i] \in {"absent", "complete"}) /\ jobs[Finish] = "absent"
  BY DEF SeesItsJobs
<1>4. store.stage # "Finishing"
  BY <1>2, <1>3 DEF SavesItsJobs, HasItsJobs
<1>. QED BY <1>1, <1>2, <1>3, <1>4, Stages, QuietHandlers DEF Status

(* failExperiment *)
LEMMA FailKept ==
    ASSUME LifeInv, actions' = actions, pc \in {"act", "iterate"}, StartDone,
           obj.stage # "Waiting",
           NEW o \in {obj, Advance(obj, "Running")}, Fail(o)
    PROVE  Kept
<1>1. jobs' = jobs /\ (store' = store \/ (current /\ store' = Ended(Failed(o), "failed")))
  BY Written DEF Fail
<1>2. CASE store' = store
  BY <1>1, <1>2, NoChange
<1>3. CASE current /\ store' = Ended(Failed(o), "failed")
  <2>1. obj = store /\ obj \in Status /\ store.stage \in {"Initializing", "Running"}
        /\ Contract!Quiet
    BY <1>3, Acting
  <2>2. o \in Status /\ o.iterations = store.iterations
    BY <2>1, Stages, Advancing
  <2>3. Failed(o) \in Status /\ Failed(o).failed /\ Failed(o).iterations = store.iterations
    BY <2>2, Failing
  <2>4. /\ Contract!End("failed") /\ store'.iterations = store.iterations
        /\ store'.failed = Failed(o).failed
    BY <1>1, <1>3, <2>1, <2>3, EndKept DEF Message
  <2>5. store'.failed = TRUE
    BY <2>3, <2>4 DEF Status
  <2>6. Contract!Fail
    BY <2>1, <2>4, <2>5, QuietHandlers DEF Contract!Fail
  <2>. QED BY <2>6 DEF Kept, Contract!Next
<1>. QED BY <1>1, <1>2, <1>3

(* A stage entered by a write that changes nothing else the user sees. *)
LEMMA EnterKept ==
    ASSUME actions' = actions, jobs' = jobs, store \in Status, store' \in Status,
           store'.iterations = store.iterations, store'.failed = store.failed,
           store'.message = store.message
    PROVE  Contract!Enter(store'.stage)
BY DEF Contract!Enter

(* What checkHandlersStatus finds. *)
LEMMA FirstStopIs ==
    ASSUME LifeInv, Checking, StoppingJobs # {}
    PROVE  /\ jobCache[FirstStop] = "complete" => /\ FirstStop = Finish /\ Finish \in Handler
                                                 /\ jobs[Finish] = "complete"
           /\ jobCache[FirstStop] = "failed" => FirstStop \in Handler /\ jobs[FirstStop] = "failed"
<1>1. FirstStop \in StoppingJobs /\ FirstStop \in Job
  BY FirstStops
<1>. QED BY <1>1 DEF StoppingJobs, Stops, LifeInv, FreshInv, JobInv

LEMMA CheckKept ==
    ASSUME LifeInv, actions' = actions,
           \/ InitializeStatus \/ AlreadyCompleted
           \/ HandlerRunning \/ HandlerFinished \/ HandlerFailed \/ LoopWeightsFail
           \/ HandlersDone
    PROVE  Kept
<1>. USE DEF LifeInv, FreshInv
<1>1. (Leave \/ Retry \/ (\E o : GoOn("act", o))) => Kept
  BY NoChange DEF Leave, Retry, GoOn
<1>2. ASSUME current, pc = "check"
      PROVE  obj = store /\ obj \in Status
  BY <1>2 DEF VersionInv, TypeInv, TypeOK
<1>3. CASE InitializeStatus
  <2>. DEFINE o == [obj EXCEPT !.stage = "Waiting"]
  <2>1. pc = "check" /\ obj.stage = "New" /\ jobs' = jobs
        /\ (store' = store \/ (current /\ store' = o))
    BY <1>3, Written DEF InitializeStatus
  <2>2. CASE current /\ store' = o
    <3>0. obj = store /\ store \in Status
      BY <1>2, <2>1, <2>2
    <3>1. /\ obj = store /\ store \in Status /\ store' \in Status
          /\ store'.stage = "Waiting" /\ store'.iterations = store.iterations
          /\ store'.failed = store.failed /\ store'.message = store.message
      <4>1. o \in Status
        BY <3>0, Setting
      <4>. QED BY <2>2, <3>0, <4>1 DEF Status
    <3>2. Contract!Accept
      BY <2>1, <3>1, EnterKept DEF Contract!Accept
    <3>. QED BY <3>2 DEF Kept, Contract!Next
  <2>. QED BY <2>1, <2>2, NoChange
<1>4. CASE HandlerRunning
  <2>1. CASE EndRequest(obj)
    BY <1>2, <1>4, <2>1, Written, NoChange DEF HandlerRunning, Checking
  <2>. QED BY <1>1, <1>4, <2>1 DEF HandlerRunning
<1>5. CASE HandlerFinished
  <2>1. /\ pc = "check" /\ obj.stage \notin {"New", "Completed"} /\ jobs' = jobs
        /\ store' = store \/ (current /\ store' = Ended(obj, "handler completed"))
    BY <1>5, Written DEF HandlerFinished, Checking
  <2>2. CASE current /\ store' = Ended(obj, "handler completed")
    <3>1. /\ obj = store /\ store \in Status
          /\ Contract!End("handler completed")
          /\ store'.iterations = store.iterations /\ store'.failed = store.failed
      BY <1>2, <2>1, <2>2, EndKept DEF Message
    <3>2. jobs[Finish] = "complete"
      BY <1>5, FirstStopIs DEF HandlerFinished
    <3>3. QuietBesides(Finish) /\ StartDone /\ Rank["Running"] <= Rank[store.stage]
      BY <3>2, JobsAre DEF OrderInv
    <3>4. \A i \in Job : jobs[i] \in {"absent", "complete"}
      BY <3>2, <3>3 DEF QuietBesides
    <3>5. store.stage \in {"Running", "Finishing"}
      <4>1. store.stage \in Stage /\ store.stage \notin {"New", "Completed"} /\ 4 <= Rank[store.stage]
        BY <2>1, <3>1, <3>3, Ranks DEF Status
      <4>. QED BY <4>1, Stages, Ranks
    <3>6. Contract!Finished
      BY <3>1, <3>2, <3>3, <3>4, <3>5, QuietHandlers, SameHandlers DEF Contract!Finished
    <3>. QED BY <3>6 DEF Kept, Contract!Next
  <2>. QED BY <2>1, <2>2, NoChange
<1>6. CASE HandlerFailed
  <2>1. /\ pc = "check" /\ obj.stage \notin {"New", "Completed"} /\ jobs' = jobs
        /\ store' = store \/ (current /\ store' = Ended(Failed(obj), "handler failed"))
    BY <1>6, Written DEF HandlerFailed, Checking
  <2>2. CASE current /\ store' = Ended(Failed(obj), "handler failed")
    <3>1. obj = store /\ store \in Status
      BY <1>2, <2>1, <2>2
    <3>2. Failed(obj) \in Status /\ Failed(obj).failed /\ Failed(obj).iterations = store.iterations
      BY <3>1, Failing
    <3>3. /\ Contract!End("handler failed")
          /\ store'.iterations = store.iterations /\ store'.failed = Failed(obj).failed
      BY <2>1, <2>2, <3>1, <3>2, EndKept DEF Message
    <3>4. FirstStop \in Handler /\ FirstStop \in Job /\ jobs[FirstStop] = "failed"
      BY <1>6, FirstStopIs, HandlersAre DEF HandlerFailed
    <3>5. Contract!QuietBut({FirstStop})
      BY <3>4, QuietHandlers DEF OrderInv
    <3>6. store'.failed = TRUE
      BY <3>2, <3>3 DEF Status
    <3>7. Contract!Break
      BY <3>3, <3>4, <3>5, <3>6, SameHandlers DEF Contract!Break
    <3>. QED BY <3>7 DEF Kept, Contract!Next
  <2>. QED BY <2>1, <2>2, NoChange
<1>7. CASE AlreadyCompleted \/ LoopWeightsFail \/ HandlersDone
  BY <1>1, <1>7 DEF AlreadyCompleted, LoopWeightsFail, HandlersDone
<1>. QED BY <1>3, <1>4, <1>5, <1>6, <1>7

LEMMA ActKept ==
    ASSUME LifeInv, actions' = actions,
           \/ InvalidTasks \/ AcquireTarget \/ StartInitializing
           \/ ReadMetrics \/ StartRunning \/ InvalidVersions
           \/ SetStartTime \/ KeepStartTime
    PROVE  Kept
<1>1. pc = "act"
  BY DEF InvalidTasks, AcquireTarget, StartInitializing, ReadMetrics, StartRunning,
     InvalidVersions, SetStartTime, KeepStartTime, Running, Started, Initialized
<1>2. Started => StartDone /\ obj.stage # "Waiting"
  BY <1>1, StartHasCompleted DEF Started, Initialized, LifeInv, StartDone
<1>3. (Leave \/ Retry \/ (\E o : GoOn("iterate", o))) => Kept
  BY NoChange DEF Leave, Retry, GoOn
<1>4. ASSUME NEW o \in Status, current => /\ o.stage = store.stage /\ o.failed = store.failed
                                         /\ o.iterations = store.iterations
                                         /\ o.message = store.message,
             EndRequest(o)
      PROVE  Kept
  BY <1>4, Written, Stutters
<1>5. CASE InvalidTasks
  <2>1. jobs' = jobs /\ (store' = store \/ (current /\ store' = Ended(obj, "failed")))
    BY <1>5, Written DEF InvalidTasks
  <2>2. CASE current /\ store' = Ended(obj, "failed")
    <3>1. /\ obj = store /\ store \in Status /\ Contract!Quiet
          /\ store.stage \in {"Waiting", "Initializing", "Running"}
      BY <1>1, <2>2, Acting
    <3>2. /\ Contract!End("failed") /\ store'.iterations = store.iterations
          /\ store'.failed = store.failed
      BY <2>1, <2>2, <3>1, EndKept DEF Message
    <3>3. Contract!Reject
      BY <3>1, <3>2 DEF Contract!Reject
    <3>. QED BY <3>3 DEF Kept, Contract!Next
  <2>. QED BY <2>1, <2>2, NoChange
<1>6. obj \in Status /\ (current => obj = store)
  BY <1>1 DEF LifeInv, FreshInv, TypeInv, TypeOK, VersionInv
<1>7. CASE AcquireTarget
  <2>. DEFINE o == [obj EXCEPT !.acquired = TRUE]
  <2>1. /\ o \in Status /\ o.stage = obj.stage /\ o.failed = obj.failed
        /\ o.iterations = obj.iterations /\ o.message = obj.message
    BY <1>6, Setting DEF Status
  <2>2. EndRequest(o) \/ Leave
    BY <1>7 DEF AcquireTarget
  <2>. HIDE DEF o
  <2>. QED BY <1>3, <1>4, <1>6, <2>1, <2>2
<1>8. CASE StartInitializing
  <2>1. /\ obj.stage = "Waiting" /\ jobs' = jobs
        /\ store' = store \/ (current /\ store' = Advance(obj, "Initializing"))
    BY <1>8, Written DEF StartInitializing
  <2>2. CASE current /\ store' = Advance(obj, "Initializing")
    <3>1. obj = store /\ store \in Status /\ Contract!Quiet
      BY <1>1, <2>2, Acting
    <3>2. /\ store' \in Status /\ store'.stage = "Initializing"
          /\ store'.iterations = store.iterations /\ store'.failed = store.failed
          /\ store'.message = store.message
      BY <2>1, <2>2, <3>1, Advancing, Orders, Stages
    <3>3. Contract!Initialize
      BY <2>1, <3>1, <3>2, EnterKept DEF Contract!Initialize
    <3>. QED BY <3>3 DEF Kept, Contract!Next
  <2>. QED BY <2>1, <2>2, NoChange
<1>9. CASE ReadMetrics
  <2>. DEFINE o == [obj EXCEPT !.metrics = TRUE]
  <2>1. /\ o \in Status /\ o.stage = obj.stage /\ o.failed = obj.failed
        /\ o.iterations = obj.iterations /\ o.message = obj.message
    BY <1>6, Setting DEF Status
  <2>2. Started /\ (EndRequest(o) \/ Fail(obj))
    BY <1>9 DEF ReadMetrics
  <2>. HIDE DEF o
  <2>3. CASE EndRequest(o)
    BY <1>4, <1>6, <2>1, <2>3
  <2>4. CASE Fail(obj)
    BY <1>1, <1>2, <2>2, <2>4, FailKept
  <2>. QED BY <2>2, <2>3, <2>4
<1>10. CASE StartRunning
  <2>1. Started /\ After("Running", obj.stage)
    BY <1>10 DEF StartRunning
  <2>2. CASE EndRequest(Advance(obj, "Running"))
    <3>1. jobs' = jobs /\ (store' = store \/ (current /\ store' = Advance(obj, "Running")))
      BY <2>2, Written
    <3>2. CASE current /\ store' = Advance(obj, "Running")
      <4>1. obj = store /\ store \in Status /\ Contract!Quiet
            /\ store.stage \in {"Waiting", "Initializing", "Running"}
        BY <1>1, <3>2, Acting
      <4>2. store.stage = "Initializing" /\ StartDone
        BY <1>2, <2>1, <4>1, Orders, Stages
      <4>3. /\ store' \in Status /\ store'.stage = "Running"
            /\ store'.iterations = store.iterations /\ store'.failed = store.failed
            /\ store'.message = store.message
        BY <2>1, <3>2, <4>1, Advancing, Stages
      <4>4. Contract!Run
        BY <3>1, <4>1, <4>2, <4>3, EnterKept, QuietHandlers DEF Contract!Run
      <4>. QED BY <4>4 DEF Kept, Contract!Next
    <3>. QED BY <3>1, <3>2, NoChange
  <2>3. CASE Fail(Advance(obj, "Running"))
    BY <1>1, <1>2, <2>1, <2>3, FailKept
  <2>. QED BY <1>10, <2>2, <2>3 DEF StartRunning
<1>11. CASE InvalidVersions
  BY <1>1, <1>2, <1>11, FailKept DEF InvalidVersions, Running
<1>12. CASE SetStartTime
  <2>. DEFINE o == [obj EXCEPT !.started = TRUE]
  <2>1. /\ o \in Status /\ o.stage = obj.stage /\ o.failed = obj.failed
        /\ o.iterations = obj.iterations /\ o.message = obj.message
    BY <1>6, Setting DEF Status
  <2>2. CASE StartTimeIsSet
    <3>1. jobs' = jobs /\ store' = o /\ obj = store
      BY <1>6, <2>2 DEF StartTimeIsSet, Publish
    <3>. QED BY <2>1, <3>1, Stutters
  <2>3. CASE ~StartTimeIsSet
    <3>1. Retry \/ EndRequest(o)
      BY <1>12, <2>3, StartTimeNotSet
    <3>. HIDE DEF o
    <3>. QED BY <1>3, <1>4, <1>6, <2>1, <3>1
  <2>. QED BY <2>2, <2>3
<1>13. CASE KeepStartTime
  BY <1>3, <1>13 DEF KeepStartTime
<1>. QED BY <1>5, <1>7, <1>8, <1>9, <1>10, <1>11, <1>12, <1>13

LEMMA NoLoopJob == Start \notin LoopJob /\ Finish \notin LoopJob
<1>1. ASSUME NEW k \in 1..MaxLoops PROVE Loop(k) # 0 /\ Loop(k) # 1
  BY ConstantsOK DEF Loop
<1>. QED BY <1>1 DEF Start, Finish, LoopJob

(* A handler that cannot be started. *)
LEMMA CannotLaunchKept ==
    ASSUME LifeInv, actions' = actions, pc \in {"act", "iterate"}, obj.stage # "Waiting",
           NEW j \in Handler, NEW o \in Status, EndRequest(Ended(o, "launch failed")),
           o.failed = obj.failed,
           o.iterations = (IF j \in LoopJob THEN obj.iterations + 1 ELSE obj.iterations),
           \A k \in 1..MaxLoops : j = Loop(k) => o.iterations = k * IterationsPerLoop
    PROVE  Kept
<1>1. jobs' = jobs /\ (store' = store \/ (current /\ store' = Ended(o, "launch failed")))
  BY Written
<1>2. CASE current /\ store' = Ended(o, "launch failed")
  <2>1. obj = store /\ store.stage \in {"Initializing", "Running"} /\ Contract!Quiet
    BY <1>2, Acting
  <2>2. /\ Contract!End("launch failed")
        /\ store'.iterations = o.iterations /\ store'.failed = store.failed
    BY <1>1, <1>2, <2>1, EndKept DEF Message
  <2>3. store.stage = "Running" => Contract!StartIsDone
    BY QuietHandlers DEF LifeInv, StartInv, StartDone
  <2>4. \A k \in 1..MaxLoops : Contract!Loop(k) = Loop(k)
    BY SameHandlers, ConstantsOK
  <2>5. Contract!CannotLaunch(j)
    BY <2>1, <2>2, <2>3, <2>4, SameHandlers DEF Contract!CannotLaunch
  <2>. QED BY <2>5, SameHandlers, HandlersAre DEF Kept, Contract!Next
<1>. QED BY <1>1, <1>2, NoChange

LEMMA StartFailsKept ==
    ASSUME LifeInv, actions' = actions, pc' # "save", LaunchStart
    PROVE  Kept
<1>1. /\ pc = "act" /\ obj.stage # "Waiting" /\ Start \in Handler
      /\ EndRequest(Ended(obj, "launch failed"))
  BY DEF LaunchStart, Initialized, StartNotLaunched, Launch
<1>2. obj \in Status
  BY DEF LifeInv, FreshInv, TypeInv, TypeOK
<1>3. Start \notin LoopJob
  BY JobsAre
<1>4. \A k \in 1..MaxLoops : Start # Loop(k)
  BY <1>3, JobsAre
<1>. QED BY <1>1, <1>2, <1>3, <1>4, CannotLaunchKept

(* finishExperiment and rollbackExperiment *)
LEMMA TerminateKept ==
    ASSUME LifeInv, actions' = actions, pc' # "save", pc = "iterate",
           NEW msg \in {"succeeded", "rolled back"}, Terminate(obj, msg),
           msg = "succeeded" => obj.iterations = MaxIterations,
           msg = "rolled back" => obj.iterations < MaxIterations
    PROVE  Kept
<1>1. /\ obj \in Status /\ obj.stage = "Running" /\ StartDone
      /\ obj.iterations \in 0..MaxIterations /\ MaxIterations \in Nat
  BY Iterates, ConstantsOK DEF LifeInv, FreshInv, TypeInv, TypeOK, Status
<1>2. CASE Finish \in Handler
  <2>1. EndRequest(Ended(obj, "launch failed"))
    BY <1>2 DEF Terminate, Launch
  <2>2. Finish \notin LoopJob
    BY NoLoopJob
  <2>3. \A k \in 1..MaxLoops : Finish # Loop(k)
    BY <2>2, JobsAre
  <2>. QED BY <1>1, <1>2, <2>1, <2>2, <2>3, CannotLaunchKept
<1>3. CASE Finish \notin Handler
  <2>1. jobs' = jobs /\ (store' = store \/ (current /\ store' = Ended(obj, msg)))
    BY <1>3, Written DEF Terminate
  <2>2. CASE current /\ store' = Ended(obj, msg)
    <3>1. /\ obj = store /\ store.stage = "Running" /\ Contract!Quiet
          /\ store.message = "none"
      BY <1>1, <2>2, Acting
    <3>2. msg \in Message
      BY DEF Message
    <3>3. /\ Contract!End(msg) /\ store'.iterations = store.iterations
          /\ store'.failed = store.failed
      BY <1>1, <2>1, <2>2, <3>1, <3>2, EndKept
    <3>4. CASE msg = "succeeded"
      <4>1. store.iterations = MaxIterations
        BY <3>1, <3>4
      <4>2. \A j \in Handler : jobs[j] = "complete"
        <5>1. SUFFICES ASSUME NEW j \in Handler PROVE jobs[j] = "complete"
          OBVIOUS
        <5>2. CASE j = Start
          BY <1>1, <5>2 DEF StartDone
        <5>3. CASE j \in LoopJob
          <6>1. PICK k \in 1..MaxLoops : j = Loop(k)
            BY <5>3 DEF LoopJob
          <6>2. "loop" \in actions /\ store.iterations >= k * IterationsPerLoop
            BY <4>1, <5>3, HandlersAre, LoopBoundary
          <6>3. jobs[j] # "absent"
            BY <3>1, <6>1, <6>2 DEF LifeInv, FreshInv, SavesItsJobs, HasItsJobs
          <6>. QED BY <6>3, HandlersAre, Iterates DEF LifeInv
        <5>. QED BY <1>3, <5>2, <5>3, JobsAre, HandlersAre
      <4>3. Contract!Succeed
        BY <1>3, <3>1, <3>3, <3>4, <4>1, <4>2, SameHandlers DEF Contract!Succeed
      <4>. QED BY <4>3 DEF Kept, Contract!Next
    <3>5. CASE msg = "rolled back"
      <4>1. store.iterations < MaxIterations
        BY <1>1, <3>1, <3>5
      <4>2. Contract!RollBack
        BY <1>1, <1>3, <3>1, <3>3, <3>5, <4>1, SameHandlers, QuietHandlers DEF Contract!RollBack
      <4>. QED BY <4>2 DEF Kept, Contract!Next
    <3>. QED BY <3>4, <3>5
  <2>. QED BY <2>1, <2>2, NoChange
<1>. QED BY <1>2, <1>3

(* An iteration whose loop is over has its loop's job. *)
LEMMA LoopsHaveJobs ==
    ASSUME LifeInv, NEW t \in Status, t.iterations = store.iterations + 1,
           store.message = "none",
           \A k \in 1..MaxLoops : CompletedLoop(t) /\ LoopsDone(t) = k /\ Loop(k) \in Handler
                                      => jobs[Loop(k)] # "absent"
    PROVE  \A k \in 1..MaxLoops :
              store.iterations + 1 >= k * IterationsPerLoop /\ Loop(k) \in Handler
                  => jobs[Loop(k)] # "absent"
<1>. SUFFICES ASSUME NEW k \in 1..MaxLoops, store.iterations + 1 >= k * IterationsPerLoop,
                     Loop(k) \in Handler
              PROVE  jobs[Loop(k)] # "absent"
  OBVIOUS
<1>1. CASE store.iterations >= k * IterationsPerLoop
  BY <1>1, JobsAre, HandlersAre DEF LifeInv, FreshInv, SavesItsJobs, HasItsJobs
<1>2. CASE ~(store.iterations >= k * IterationsPerLoop)
  BY <1>2, OneLoopMore DEF LifeInv, FreshInv, TypeInv, TypeOK
<1>. QED BY <1>1, <1>2

(* The write of an iteration. *)
LEMMA IterationKept ==
    ASSUME LifeInv, actions' = actions, jobs' = jobs, store.stage = "Running",
           store.iterations < MaxIterations, StartDone, jobs[Finish] = "absent",
           store' = Iterated(store),
           \A k \in 1..MaxLoops :
              CompletedLoop(Iterated(store)) /\ LoopsDone(Iterated(store)) = k
                 /\ Loop(k) \in Handler => jobs[Loop(k)] # "absent",
           \/ \A i \in Job : jobs[i] \in {"absent", "complete"}
           \/ \E k \in 1..MaxLoops : /\ store.iterations + 1 = k * IterationsPerLoop
                                     /\ QuietBesides(Loop(k))
    PROVE  Kept
<1>1. store \in Status /\ store.message = "none"
  BY Stages DEF LifeInv, FreshInv, TypeInv, TypeOK, VersionInv
<1>2. /\ store' \in Status /\ store'.iterations = store.iterations + 1
      /\ store'.stage = store.stage /\ store'.failed = store.failed
      /\ store'.message = store.message
  BY <1>1, Counting
<1>3. \A k \in 1..MaxLoops :
         store.iterations + 1 >= k * IterationsPerLoop /\ Loop(k) \in Handler
             => jobs[Loop(k)] # "absent"
  BY <1>1, <1>2, LoopsHaveJobs
<1>4. \A k \in 1..MaxLoops : Contract!Loop(k) = Loop(k) /\ Loop(k) \in Job
  BY SameHandlers, JobsAre, ConstantsOK
<1>5. \/ Contract!Quiet
      \/ \E k \in 1..MaxLoops : /\ store.iterations + 1 = k * IterationsPerLoop
                                /\ Contract!QuietBut({Contract!Loop(k)})
  BY <1>4, QuietHandlers
<1>6. Contract!Iterate
  BY <1>2, <1>3, <1>4, <1>5, SameHandlers, QuietHandlers DEF Contract!Iterate
<1>. QED BY <1>6 DEF Kept, Contract!Next

LEMMA IterateKept ==
    ASSUME LifeInv, actions' = actions, pc' # "save",
           \/ FinishExperiment \/ TooEarly \/ IterationFails \/ RollbackExperiment
           \/ CompleteIteration
    PROVE  Kept
<1>1. pc = "iterate"
  BY DEF FinishExperiment, TooEarly, IterationFails, RollbackExperiment, CompleteIteration,
     Iterating
<1>2. /\ obj \in Status /\ obj.iterations \in 0..MaxIterations /\ MaxIterations \in Nat
      /\ StartDone /\ obj.stage = "Running" /\ jobs[Finish] = "absent"
      /\ \A i \in Job : jobs[i] \in {"absent", "complete"}
  BY <1>1, Iterates, ConstantsOK DEF LifeInv, FreshInv, TypeInv, TypeOK, Status
<1>3. CASE FinishExperiment
  <2>1. Terminate(obj, "succeeded") /\ obj.iterations = MaxIterations
    BY <1>2, <1>3 DEF FinishExperiment, MoreIterationsNeeded
  <2>. QED BY <1>1, <2>1, TerminateKept
<1>4. CASE TooEarly
  BY <1>4, NoChange DEF TooEarly, Retry
<1>5. CASE IterationFails
  BY <1>1, <1>2, <1>5, FailKept DEF IterationFails
<1>6. CASE RollbackExperiment
  <2>1. Terminate(obj, "rolled back") /\ obj.iterations < MaxIterations
    BY <1>6 DEF RollbackExperiment, Iterating, MoreIterationsNeeded
  <2>. QED BY <1>1, <2>1, TerminateKept
<1>7. CASE CompleteIteration
  <2>1. obj.iterations < MaxIterations
    BY <1>7 DEF CompleteIteration, Iterating, MoreIterationsNeeded
  <2>2. /\ Iterated(obj) \in Status /\ Iterated(obj).iterations = obj.iterations + 1
        /\ Iterated(obj).failed = obj.failed
    BY <1>2, <2>1, Counting
  <2>3. CASE CompletedLoop(Iterated(obj)) /\ Loop(LoopsDone(Iterated(obj))) \in Handler
    <3>1. EndRequest(Ended(Iterated(obj), "launch failed"))
      BY <1>7, <2>3 DEF CompleteIteration, Launch
    <3>2. PICK k \in 1..MaxLoops : /\ LoopsDone(Iterated(obj)) = k
                                   /\ obj.iterations + 1 = k * IterationsPerLoop
      BY <2>1, <2>3, LoopLaunch DEF LifeInv, FreshInv
    <3>3. Loop(k) \in Handler /\ Loop(k) \in LoopJob
      BY <2>3, <3>2, JobsAre
    <3>4. \A i \in 1..MaxLoops : Loop(k) = Loop(i) => i = k
      BY ConstantsOK DEF Loop
    <3>. QED BY <1>1, <1>2, <2>2, <3>1, <3>2, <3>3, <3>4, CannotLaunchKept
  <2>4. CASE ~(CompletedLoop(Iterated(obj)) /\ Loop(LoopsDone(Iterated(obj))) \in Handler)
    <3>1. jobs' = jobs /\ (store' = store \/ (current /\ store' = Iterated(obj)))
      BY <1>7, <2>4, Written DEF CompleteIteration
    <3>2. CASE current /\ store' = Iterated(obj)
      <4>1. obj = store
        BY <1>1, <3>2, Acting
      <4>. QED BY <1>2, <2>1, <2>4, <3>1, <3>2, <4>1, IterationKept
    <3>. QED BY <3>1, <3>2, NoChange
  <2>. QED BY <2>3, <2>4
<1>. QED BY <1>3, <1>4, <1>5, <1>6, <1>7

(* The write that follows a launch. *)
LEMMA SaveKept ==
    ASSUME LifeInv, actions' = actions, SaveLaunch
    PROVE  Kept
<1>1. pc = "save" /\ jobs' = jobs /\ (store' = store \/ (current /\ store' = obj))
  BY Written DEF SaveLaunch
<1>2. store \in Status
  BY DEF LifeInv, FreshInv, TypeInv, TypeOK
<1>3. CASE store' = store
  BY <1>1, <1>3, NoChange
<1>4. ASSUME current, store' = obj, store.stage = "Running", obj = Advance(store, "Finishing"),
             Finish \in Handler, jobs[Finish] # "absent"
      PROVE  Kept
  <2>1. /\ store' \in Status /\ store'.stage = "Finishing"
        /\ store'.iterations = store.iterations /\ store'.failed = store.failed
        /\ store'.message = store.message
    BY <1>2, <1>4, Advancing, Orders, Stages
  <2>2. Contract!QuietBut({Finish})
    BY <1>4, QuietHandlers, JobsAre DEF LifeInv, OrderInv
  <2>3. Contract!Conclude
    BY <1>1, <1>2, <1>4, <2>1, <2>2, EnterKept, SameHandlers DEF Contract!Conclude
  <2>. QED BY <2>3 DEF Kept, Contract!Next
<1>5. ASSUME NEW k \in 1..MaxLoops, current, store' = obj, store.stage = "Running",
             obj = Iterated(store), store.iterations + 1 = k * IterationsPerLoop,
             QuietBesides(Loop(k)), jobs[Finish] = "absent", StartDone
      PROVE  Kept
  <2>1. store.iterations < MaxIterations
    <3>1. k * IterationsPerLoop \in 1..MaxIterations /\ MaxIterations \in Nat
          /\ store.iterations \in Nat
      BY <1>2, LoopBoundary, ConstantsOK DEF Status
    <3>. QED BY <1>5, <3>1
  <2>2. Iterated(store).iterations = k * IterationsPerLoop
    BY <1>2, <1>5, <2>1, Counting
  <2>3. LoopsDone(Iterated(store)) = k
    BY <2>2, LoopBoundary DEF LoopsDone
  <2>4. store.message # "launch failed"
    BY <1>5 DEF LifeInv, FreshInv, VersionInv
  <2>5. Iterated(store).message = store.message
    BY <1>2, <2>1, Counting
  <2>6. Loop(k) \in Handler => jobs[Loop(k)] # "absent"
    <3>1. HasItsJobs(obj)
      BY <1>1, <1>5 DEF LifeInv, FreshInv, SavesItsJobs
    <3>2. k * IterationsPerLoop >= k * IterationsPerLoop
      BY LoopBoundary
    <3>. QED BY <1>5, <2>2, <2>4, <2>5, <3>1, <3>2, JobsAre, HandlersAre DEF HasItsJobs
  <2>. QED BY <1>1, <1>5, <2>1, <2>3, <2>6, IterationKept
<1>. QED BY <1>1, <1>3, <1>4, <1>5 DEF LifeInv, SaveInv

(* A step of the life cycle is one of the contract, or shows nothing.      *)
LEMMA StepKept ==
    ASSUME LifeInv, [Next]_vars
    PROVE  Kept
<1>1. actions' = actions
  BY ActionsStay
<1>2. CASE Reconcile
  <2>1. CASE \E j \in Job : Launched(j)
    BY <1>1, <2>1, LaunchKept
  <2>2. CASE jobs' = jobs /\ pc' # "save"
    <3>1. CASE Begin
      BY <1>1, <3>1, NoChange DEF Begin
    <3>2. CASE \/ InitializeStatus \/ AlreadyCompleted
               \/ HandlerRunning \/ HandlerFinished \/ HandlerFailed \/ LoopWeightsFail
               \/ HandlersDone
      BY <1>1, <3>2, CheckKept
    <3>3. CASE \/ InvalidTasks \/ AcquireTarget \/ StartInitializing
               \/ ReadMetrics \/ StartRunning \/ InvalidVersions
               \/ SetStartTime \/ KeepStartTime
      BY <1>1, <3>3, ActKept
    <3>4. CASE LaunchStart
      BY <1>1, <2>2, <3>4, StartFailsKept
    <3>5. CASE \/ FinishExperiment \/ TooEarly \/ IterationFails \/ RollbackExperiment
               \/ CompleteIteration
      BY <1>1, <2>2, <3>5, IterateKept
    <3>6. CASE SaveLaunch
      BY <1>1, <3>6, SaveKept
    <3>. QED BY <1>2, <3>1, <3>2, <3>3, <3>4, <3>5, <3>6 DEF Reconcile
  <2>. QED BY <1>2, <2>1, <2>2, ReconcileLaunches DEF LifeInv, FreshInv
<1>3. ASSUME NEW j \in Job, JobEnds(j)
      PROVE  Kept
  BY <1>1, <1>3, EndsKept
<1>4. CASE \/ Edit \/ Deliver \/ TimePasses \/ TimerFires \/ TargetReleased \/ Restart
           \/ (\E j \in Job : JobAdded(j) \/ JobUpdated(j)) \/ UNCHANGED vars
  <2>1. jobs' = jobs /\ store' = store
    BY <1>4 DEF Edit, Publish, Deliver, TimePasses, TimerFires, TargetReleased, Restart,
       JobAdded, JobUpdated, vars, cluster
  <2>. QED BY <1>1, <2>1, NoChange
<1>. QED BY <1>2, <1>3, <1>4 DEF Next, Surroundings

LEMMA InitKept == Init => Contract!Init
BY SameHandlers DEF Init, NewStatus, Contract!Init

(* If requests see the jobs the controller has created, the life cycle     *)
(* implements its contract, whatever the stale copies of the status,       *)
(* conflicts, failures and restarts: handlers start one after the other    *)
(* and none after a failure, iterations are counted between them, and the  *)
(* experiment ends as its outcome says.  On an up-to-date status nothing   *)
(* starts when the experiment has ended (LateLaunches is ~FreshStatus).    *)
THEOREM ImplementsContract == FreshJobs => (Spec => KeepsContract)
<1>. SUFFICES ASSUME FreshJobs PROVE Spec => Contract!Spec
  BY DEF KeepsContract
<1>1. Init => Contract!Init
  BY InitKept
<1>2. LifeInv /\ [Next]_vars => [Contract!Next]_(Contract!vars)
  BY StepKept DEF Kept
<1>. QED BY <1>1, <1>2, LifeAlways, PTL DEF Spec, Contract!Spec

-----------------------------------------------------------------------------
(***************************************************************************)
(* What follows from the contract.                                         *)
(***************************************************************************)

(* If requests see the jobs the controller has created, a handler that     *)
(* runs or has failed is alone (experiment_controller.go:117): nothing     *)
(* starts beside it, and nothing ever starts after a failure, not even     *)
(* from a request that acts on an old copy of the status.                  *)
THEOREM FailureIsLast == FreshJobs => (Spec => []FailureStopsHandlers)
<1>1. LifeInv => FailureStopsHandlers
  <2>. SUFFICES ASSUME LifeInv, NEW i \in Job, NEW j \in Job,
                       {jobs[i], jobs[j]} \subseteq {"running", "failed"}
                PROVE  i = j
    BY SameHandlers DEF FailureStopsHandlers, Contract!FailureStopsHandlers
  <2>. QED BY DEF LifeInv, OrderInv, QuietBesides
<1>. QED BY <1>1, LifeAlways, PTL

(* If requests see the jobs the controller has created and the present     *)
(* status, nothing is launched for an experiment that has completed        *)
(* (experiment_controller.go:111).  Seeing the jobs alone is not enough.   *)
THEOREM EndIsQuiet == FreshJobs /\ FreshStatus => (Spec => NothingStartsAfterEnd)
<1>. SUFFICES ASSUME FreshJobs, FreshStatus PROVE Spec => NothingStartsAfterEnd
  OBVIOUS
<1>. DEFINE NoStart == store.stage = "Completed" =>
                          \A j \in Job : jobs[j] = "absent" => jobs'[j] = "absent"
<1>1. LifeInv /\ [Next]_vars => NoStart
  <2>. SUFFICES ASSUME LifeInv, [Next]_vars, store.stage = "Completed", NEW j \in Job,
                       jobs[j] = "absent"
                PROVE  jobs'[j] = "absent"
    OBVIOUS
  <2>1. CASE jobs' = jobs
    BY <2>1
  <2>2. ASSUME NEW i \in Job, Contract!HandlerEnds(i)
        PROVE  jobs'[j] = "absent"
    BY <2>2 DEF Contract!HandlerEnds, LifeInv, FreshInv, TypeInv, TypeOK
  <2>3. ~(Contract!LaunchStart \/ (\E k \in 1..MaxLoops : Contract!LaunchLoop(k))
             \/ Contract!LaunchFinish)
    BY DEF Contract!LaunchStart, Contract!LaunchLoop, Contract!LaunchFinish, Contract!In
  <2>4. CASE \/ Contract!Accept \/ Contract!Initialize \/ Contract!Run \/ Contract!Conclude
             \/ Contract!Iterate \/ UNCHANGED Contract!vars
    BY <2>1, <2>4 DEF Contract!Accept, Contract!Initialize, Contract!Run, Contract!Conclude,
       Contract!Enter, Contract!Iterate, Contract!vars
  <2>5. CASE \/ Contract!Succeed \/ Contract!RollBack \/ Contract!Finished \/ Contract!Break
             \/ Contract!Fail \/ Contract!Reject \/ (\E i \in Job : Contract!CannotLaunch(i))
    BY <2>1, <2>5 DEF Contract!Succeed, Contract!RollBack, Contract!Finished, Contract!Break,
       Contract!Fail, Contract!Reject, Contract!CannotLaunch, Contract!End
  <2>. QED BY <2>2, <2>3, <2>4, <2>5, StepKept, SameHandlers DEF Kept, Contract!Next
<1>2. LifeInv /\ [Next]_vars => [NoStart]_vars
  BY <1>1
<1>. QED BY <1>2, LifeAlways, PTL DEF Spec, NothingStartsAfterEnd

LEMMA Unfinished ==
    ASSUME LifeInv, store.stage # "Completed"
    PROVE  ~store.failed /\ store.message = "none"
BY Stages DEF LifeInv, FreshInv, VersionInv, TypeInv, TypeOK, Status

(* The steps before the end. *)
LEMMA OutcomeOpen ==
    ASSUME LifeInv, OutcomeIsTrue,
           \/ Contract!Accept \/ Contract!Initialize \/ Contract!Run \/ Contract!Conclude
           \/ Contract!Iterate
    PROVE  OutcomeIsTrue'
<1>1. store.stage # "Completed" /\ store'.message = store.message
  BY DEF Contract!Accept, Contract!Initialize, Contract!Run, Contract!Conclude,
     Contract!Iterate, Contract!Enter
<1>2. store'.message = "none"
  BY <1>1, Unfinished
<1>. QED BY <1>2 DEF OutcomeIsTrue, Contract!OutcomeIsTrue

(* The steps of a handler. *)
LEMMA OutcomeStays ==
    ASSUME LifeInv, OutcomeIsTrue, NEW j \in Job,
           Contract!Launch(j) \/ Contract!HandlerEnds(j)
    PROVE  OutcomeIsTrue'
<1>1. /\ actions' = actions /\ Contract!Handler' = Contract!Handler
      /\ store'.message = store.message /\ store'.failed = store.failed
      /\ store'.iterations = store.iterations
  BY DEF Contract!Launch, Contract!HandlerEnds, Contract!Handler
<1>2. jobs \in [Job -> JobState] /\ Finish \in Job /\ Handler \subseteq Job
  BY JobsAre, HandlersAre DEF LifeInv, FreshInv, TypeInv, TypeOK
<1>3. \A i \in Job : i # j => jobs'[i] = jobs[i]
  BY <1>2 DEF Contract!Launch, Contract!HandlerEnds
<1>4. jobs[j] \in {"absent", "running"}
  BY DEF Contract!Launch, Contract!HandlerEnds
<1>5. jobs[j] # "absent" => j \in Handler
  BY DEF LifeInv, FreshInv, JobInv
<1>6. jobs[j] = "absent" => /\ j \in Handler /\ jobs[Finish] = "absent"
                            /\ \A i \in Handler : jobs[i] # "failed"
  <2>1. SUFFICES ASSUME Contract!Launch(j) PROVE /\ j \in Handler /\ jobs[Finish] = "absent"
                            /\ \A i \in Handler : jobs[i] # "failed"
    BY DEF Contract!HandlerEnds
  <2>. QED BY <2>1, SameHandlers DEF Contract!Launch, Contract!Quiet, Contract!QuietBut
<1>7. store.message # "succeeded"
  BY <1>4, <1>5, <1>6, SameHandlers DEF OutcomeIsTrue, Contract!OutcomeIsTrue
<1>8. store.message # "handler completed"
  BY <1>4, <1>6, SameHandlers DEF OutcomeIsTrue, Contract!OutcomeIsTrue
<1>9. ASSUME store.message = "handler failed"
      PROVE  /\ store.failed
             /\ \E i \in Handler : jobs'[i] = "failed" /\ Contract!QuietBut({i})'
  <2>1. PICK i \in Handler : jobs[i] = "failed" /\ Contract!QuietBut({i})
    BY <1>9, SameHandlers DEF OutcomeIsTrue, Contract!OutcomeIsTrue
  <2>2. i # j /\ jobs[j] # "absent"
    BY <1>4, <1>6, <2>1
  <2>3. FALSE
    BY <1>4, <1>5, <2>1, <2>2, SameHandlers DEF Contract!QuietBut
  <2>. QED BY <2>3
<1>. QED BY <1>1, <1>7, <1>8, <1>9, SameHandlers DEF OutcomeIsTrue, Contract!OutcomeIsTrue

(* The steps that end the experiment. *)
LEMMA OutcomeGiven ==
    ASSUME LifeInv, LifeInv',
           \/ Contract!Succeed \/ Contract!RollBack \/ Contract!Finished \/ Contract!Break
           \/ Contract!Fail \/ Contract!Reject \/ (\E j \in Job : Contract!CannotLaunch(j))
    PROVE  OutcomeIsTrue'
<1>1. /\ store.stage # "Completed" /\ jobs' = jobs /\ Contract!Handler' = Contract!Handler
      /\ ~store.failed
  BY Unfinished DEF Contract!Succeed, Contract!RollBack, Contract!Finished, Contract!Break,
     Contract!Fail, Contract!Reject, Contract!CannotLaunch, Contract!End, Contract!Handler
<1>2. CASE Contract!Fail \/ Contract!Reject \/ (\E j \in Job : Contract!CannotLaunch(j))
  <2>1. store'.message \in {"failed", "launch failed"}
    BY <1>2 DEF Contract!Fail, Contract!Reject, Contract!CannotLaunch, Contract!End
  <2>. QED BY <2>1 DEF OutcomeIsTrue, Contract!OutcomeIsTrue
<1>3. CASE Contract!Succeed
  BY <1>1, <1>3 DEF Contract!Succeed, Contract!End, OutcomeIsTrue, Contract!OutcomeIsTrue
<1>4. CASE Contract!RollBack
  BY <1>1, <1>4 DEF Contract!RollBack, Contract!End, OutcomeIsTrue, Contract!OutcomeIsTrue
<1>5. CASE Contract!Finished
  <2>1. \A j \in Job : jobs[j] \in {"absent", "complete"}
    BY <1>5, SameHandlers DEF Contract!Finished, Contract!Quiet, Contract!QuietBut,
       LifeInv, FreshInv, JobInv
  <2>2. jobs[Finish] = "complete" /\ store'.message = "handler completed"
        /\ store'.failed = store.failed
    BY <1>5, SameHandlers DEF Contract!Finished, Contract!End
  <2>. QED BY <1>1, <2>1, <2>2, SameHandlers DEF OutcomeIsTrue, Contract!OutcomeIsTrue
<1>6. CASE Contract!Break
  <2>1. PICK j \in Contract!Handler : jobs[j] = "failed" /\ Contract!QuietBut({j})
    BY <1>6 DEF Contract!Break
  <2>2. Contract!QuietBut({j})'
    BY <1>1, <2>1 DEF Contract!QuietBut
  <2>3. store'.failed /\ store'.message = "handler failed"
    BY <1>6 DEF Contract!Break, Contract!End
  <2>. QED BY <1>1, <2>1, <2>2, <2>3 DEF OutcomeIsTrue, Contract!OutcomeIsTrue
<1>. QED BY <1>2, <1>3, <1>4, <1>5, <1>6

LEMMA OutcomeKept ==
    ASSUME LifeInv, LifeInv', OutcomeIsTrue, Kept
    PROVE  OutcomeIsTrue'
<1>1. CASE UNCHANGED Contract!vars
  BY <1>1 DEF Contract!vars, OutcomeIsTrue, Contract!OutcomeIsTrue, Contract!Handler,
     Contract!QuietBut
<1>2. Contract!LaunchStart \/ (\E k \in 1..MaxLoops : Contract!LaunchLoop(k))
         \/ Contract!LaunchFinish => \E j \in Job : Contract!Launch(j)
  BY SameHandlers, JobsAre DEF Contract!LaunchStart, Contract!LaunchLoop, Contract!LaunchFinish
<1>. QED BY <1>1, <1>2, OutcomeOpen, OutcomeStays, OutcomeGiven, SameHandlers
         DEF Kept, Contract!Next

(* If requests see the jobs the controller has created, what the Completed *)
(* condition says (endExperiment, experiment_controller.go:309) is true    *)
(* and stays true: "succeeded" and "handler completed" of an experiment    *)
(* none of whose handlers has failed or will, "handler failed" of one that *)
(* has recorded it and runs nothing else.                                  *)
THEOREM OutcomesHold == FreshJobs => (Spec => []OutcomeIsTrue)
<1>. SUFFICES ASSUME FreshJobs PROVE Spec => []OutcomeIsTrue
  OBVIOUS
<1>1. Init => OutcomeIsTrue
  BY DEF Init, NewStatus, OutcomeIsTrue, Contract!OutcomeIsTrue
<1>2. LifeInv /\ LifeInv' /\ OutcomeIsTrue /\ [Next]_vars => OutcomeIsTrue'
  BY StepKept, OutcomeKept
<1>. QED BY <1>1, <1>2, LifeAlways, PTL DEF Spec

=============================================================================
