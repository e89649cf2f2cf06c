----------------------------- MODULE TargetLock -----------------------------
(***************************************************************************)
(* The protocol by which experiments of the iter8 controller take turns on *)
(* a target (controllers/target.go, and the parts of Reconcile around it). *)
(*                                                                         *)
(* The lock is not a lock object: an experiment holds its target while the *)
(* status stored for it says TargetAcquired and not Completed.  The single *)
(* reconcile worker decides from an informer cache that trails the stored  *)
(* objects, and writes under the resourceVersion it has read.              *)
(***************************************************************************)
EXTENDS Naturals, Sequences, FiniteSets

CONSTANTS
    Experiment,      \* the names experiments may have
    NoKey,           \* what the worker holds when it is idle
    Target,          \* values of spec.target
    TargetOf,        \* spec.target of each experiment
    MaxTime,         \* bound on the clock, in seconds
    MaxPending,      \* bound on watch events that are not delivered yet
    FreshReads,      \* TRUE: a reconcile starts only on a cache that is up to date
    CoarseClock      \* TRUE: two experiments may be initialised in the same second

ASSUME ConstantsAssumption ==
    /\ NoKey \notin Experiment
    /\ TargetOf \in [Experiment -> Target]
    /\ MaxTime \in Nat \ {0}
    /\ MaxPending \in Nat \ {0}
    /\ FreshReads \in BOOLEAN
    /\ CoarseClock \in BOOLEAN

(***************************************************************************)
(* What the lock reads of an Experiment object.  "new" has no InitTime;    *)
(* "waiting" has one, with Completed = TargetAcquired = False; "owner" has *)
(* TargetAcquired = True and Completed = False; "done" has Completed =     *)
(* True.  "unborn" and "gone" are before creation and after deletion.      *)
(***************************************************************************)
Phase == {"unborn", "new", "waiting", "owner", "done", "gone"}

Object == [phase : Phase, init : 0..MaxTime]

Unborn == [phase |-> "unborn", init |-> 0]

VARIABLES
    store,      \* the objects in the API server
    cache,      \* the informer's copy of them
    pending,    \* watch events on their way to the informer, oldest first
    queue,      \* the controller's work queue; a key is in it at most once
    released,   \* events sent on ReleaseEvents that are not in the queue yet
    pc,         \* where the worker is: idle, run, trigger or sweep
    cur,        \* the key the worker reconciles
    obj,        \* instance: the object Reconcile has read for that key
    current,    \* TRUE while the stored object is the version that was read
    clock       \* metav1.Now(), in seconds

vars == <<store, cache, pending, queue, released, pc, cur, obj, current, clock>>

-----------------------------------------------------------------------------
Exists(o) == o.phase \notin {"unborn", "gone"}

(* Not completed, and initialised: Completed is False, not Unknown. *)
IsContender(o) == o.phase \in {"waiting", "owner"}

Rivals(e) == {d \in Experiment \ {e} : TargetOf[d] = TargetOf[e]}

(* activeContendersForTarget, as the cache shows them *)
ActiveContenders(t) == {d \in Experiment : TargetOf[d] = t /\ IsContender(cache[d])}

(* Mutants of CanAcquire: no priority, no owner check. *)
CanAcquireUnordered(e, o) ==
    \A d \in ActiveContenders(TargetOf[e]) \ {e} : cache[d].phase # "owner"

CanAcquireOwned(e, o) ==
    \A d \in ActiveContenders(TargetOf[e]) \ {e} : cache[d].init >= o.init

(* The decision of acquireTarget for an instance that has not acquired.    *)
CanAcquire(e, o) ==
    \A d \in ActiveContenders(TargetOf[e]) \ {e} :
        cache[d].phase # "owner" /\ cache[d].init >= o.init

(* Mutant of NextWaiting: the experiment that ends is not left out.        *)
NextWaitingAll(t, exclude) ==
    LET others == ActiveContenders(t)
    IN  IF \E d \in others : cache[d].phase = "owner"
          THEN {}
          ELSE {d \in others : \A x \in others : cache[d].init <= cache[x].init}

(* nextWaitingExperiment: any of the earliest, since List has no order;    *)
(* exclude is {instance}, or {} when Reconcile found no instance.          *)
NextWaiting(t, exclude) ==
    LET others == ActiveContenders(t) \ exclude
    IN  IF \E d \in others : cache[d].phase = "owner"
          THEN {}
          ELSE {d \in others : \A x \in others : cache[d].init <= cache[x].init}

(* Mutant of Triggered: the nil check is missing.                          *)
TriggeredUnchecked(t, exclude) ==
    LET next == NextWaiting(t, exclude)
    IN  IF next = {} THEN {{NoKey}} ELSE {{d} : d \in next}

(* The sets of experiments triggerNextExperiment may send for a target.    *)
Triggered(t, exclude) ==
    LET next == NextWaiting(t, exclude)
    IN  IF next = {} THEN {{}} ELSE {{d} : d \in next}

(* The targets triggerWaitingExperiments goes through.                     *)
ListedTargets == {TargetOf[d] : d \in {x \in Experiment : Exists(cache[x])}}

Event(e, o) == [exp |-> e, obj |-> o]

Delivered(e) == \A i \in 1..Len(pending) : pending[i].exp # e

-----------------------------------------------------------------------------
Init ==
    /\ store = [e \in Experiment |-> Unborn]
    /\ cache = store
    /\ pending = <<>>
    /\ queue = {}
    /\ released = {}
    /\ pc = "idle"
    /\ cur = NoKey
    /\ obj = Unborn
    /\ current = FALSE
    /\ clock = 1

(***************************************************************************)
(* The API server and its watch.                                           *)
(***************************************************************************)
Put(e, o) ==
    /\ Len(pending) < MaxPending
    /\ store' = [store EXCEPT ![e] = o]
    /\ pending' = Append(pending, Event(e, o))
    /\ current' = (current /\ e # cur)

(* A user creates an experiment.  A name is used once. *)
Create(e) ==
    /\ store[e].phase = "unborn"
    /\ Put(e, [phase |-> "new", init |-> 0])
    /\ UNCHANGED <<cache, queue, released, pc, cur, obj, clock>>

(* A user deletes it; there is no finalizer. *)
Delete(e) ==
    /\ Exists(store[e])
    /\ Put(e, [store[e] EXCEPT !.phase = "gone"])
    /\ UNCHANGED <<cache, queue, released, pc, cur, obj, clock>>

(* Someone else updates it: a user its spec, or a task its analysis.       *)
Edit(e) ==
    /\ Exists(store[e])
    /\ Put(e, store[e])
    /\ UNCHANGED <<cache, queue, released, pc, cur, obj, clock>>

(* The informer applies the oldest event and enqueues its key; there is no *)
(* predicate on experiments.                                               *)
Deliver ==
    /\ pending # <<>>
    /\ cache' = [cache EXCEPT ![Head(pending).exp] = Head(pending).obj]
    /\ queue' = queue \cup {Head(pending).exp}
    /\ pending' = Tail(pending)
    /\ UNCHANGED <<store, released, pc, cur, obj, current, clock>>

(* The channel source moves a release event into the queue. *)
DeliverRelease(e) ==
    /\ e \in released
    /\ released' = released \ {e}
    /\ queue' = queue \cup {e}
    /\ UNCHANGED <<store, cache, pending, pc, cur, obj, current, clock>>

(* A timer, a rate-limited retry or a handler job that changed enqueues an *)
(* experiment that holds its target.                                       *)
Wake(e) ==
    /\ cache[e].phase = "owner"
    /\ e \notin queue
    /\ queue' = queue \cup {e}
    /\ UNCHANGED <<store, cache, pending, released, pc, cur, obj, current, clock>>

(* The informer's periodic resync (every ten hours by default).  *)
Resync ==
    /\ queue' = queue \cup {e \in Experiment : Exists(cache[e])}
    /\ UNCHANGED <<store, cache, pending, released, pc, cur, obj, current, clock>>

Tick ==
    /\ CoarseClock
    /\ clock < MaxTime
    /\ clock' = clock + 1
    /\ UNCHANGED <<store, cache, pending, queue, released, pc, cur, obj, current>>

(***************************************************************************)
(* Reconcile.                                                              *)
(***************************************************************************)

(* The worker takes a key and reads its object from the cache. *)
Begin(e) ==
    /\ pc = "idle"
    /\ e \in queue
    /\ FreshReads => pending = <<>>
    /\ queue' = queue \ {e}
    /\ pc' = IF Exists(cache[e]) THEN "run" ELSE "sweep"
    /\ cur' = e
    /\ obj' = cache[e]
    /\ current' = Delivered(e)
    /\ UNCHANGED <<store, cache, pending, released, clock>>

(* Mutant of UpdateStatus: the write ignores the resourceVersion.          *)
UpdateStatusBlind(o) ==
    /\ Len(pending) < MaxPending
    /\ store' = [store EXCEPT ![cur] = o]
    /\ pending' = Append(pending, Event(cur, o))
    /\ queue' = queue

(* updateStatus: the write takes effect only on the version that was read, *)
(* and a conflict counts as success.  Every other failure is an error that *)
(* puts the key back: the object is gone, or the call fails, be it without *)
(* an effect or with its answer lost.                                      *)
UpdateStatus(o) ==
    /\ Len(pending) < MaxPending
    /\ \/ /\ current
          /\ store' = [store EXCEPT ![cur] = o]
          /\ pending' = Append(pending, Event(cur, o))
          /\ queue' \in {queue, queue \cup {cur}}
       \/ /\ ~current
          /\ Exists(store[cur])
          /\ UNCHANGED <<store, pending, queue>>
       \/ /\ UNCHANGED <<store, pending>>
          /\ queue' = queue \cup {cur}

(* The request ends; the worker forgets the instance it has read. *)
Done ==
    /\ pc' = "idle"
    /\ cur' = NoKey
    /\ obj' = Unborn
    /\ current' = FALSE

InitializeStatus ==
    /\ pc = "run"
    /\ obj.phase = "new"
    /\ CoarseClock \/ clock < MaxTime
    /\ UpdateStatus([phase |-> "waiting", init |-> clock])
    /\ clock' = IF CoarseClock THEN clock ELSE clock + 1
    /\ Done
    /\ UNCHANGED <<cache, released>>

AlreadyCompleted ==
    /\ pc = "run"
    /\ obj.phase = "done"
    /\ Done
    /\ UNCHANGED <<store, cache, pending, queue, released, clock>>

(* acquireTarget records the target and still returns false. *)
AcquireTarget ==
    /\ pc = "run"
    /\ obj.phase = "waiting"
    /\ CanAcquire(cur, obj)
    /\ UpdateStatus([obj EXCEPT !.phase = "owner"])
    /\ Done
    /\ UNCHANGED <<cache, released, clock>>

(* acquireTarget finds an owner or an earlier contender: end the request   *)
(* and wait to be triggered again.                                         *)
KeepWaiting ==
    /\ pc = "run"
    /\ obj.phase = "waiting"
    /\ ~CanAcquire(cur, obj)
    /\ Done
    /\ UNCHANGED <<store, cache, pending, queue, released, clock>>

(* The holder of the target advances, with a write or without one.         *)
Proceed ==
    /\ pc = "run"
    /\ obj.phase = "owner"
    /\ \/ UpdateStatus(obj)
       \/ UNCHANGED <<store, pending, queue>>
    /\ Done
    /\ UNCHANGED <<cache, released, clock>>

(* endExperiment, which an experiment may also reach before it acquires    *)
(* (invalid tasks, a handler that looks failed).                           *)
EndExperiment ==
    /\ pc = "run"
    /\ IsContender(obj)
    /\ UpdateStatus([obj EXCEPT !.phase = "done"])
    /\ pc' = "trigger"
    /\ current' = FALSE
    /\ obj' = Unborn
    /\ UNCHANGED <<cache, released, cur, clock>>

(* triggerNextExperiment at the end of endExperiment, after the write and  *)
(* from the cache, whatever became of the write.                           *)
TriggerNext ==
    /\ pc = "trigger"
    /\ \E s \in Triggered(TargetOf[cur], {cur}) : released' = released \cup s
    /\ Done
    /\ UNCHANGED <<store, cache, pending, queue, clock>>

(* Reconcile of a key without an object: triggerWaitingExperiments(nil).   *)
TriggerWaiting ==
    /\ pc = "sweep"
    /\ \E choice \in [ListedTargets -> UNION {Triggered(t, {}) : t \in ListedTargets}] :
          /\ \A t \in ListedTargets : choice[t] \in Triggered(t, {})
          /\ released' = released \cup UNION {choice[t] : t \in ListedTargets}
    /\ Done
    /\ UNCHANGED <<store, cache, pending, queue, clock>>

Reconcile ==
    \/ InitializeStatus
    \/ AlreadyCompleted
    \/ AcquireTarget
    \/ KeepWaiting
    \/ Proceed
    \/ EndExperiment
    \/ TriggerNext
    \/ TriggerWaiting

(* The controller stops and a new one starts: what was in memory is lost,  *)
(* the new informer lists every experiment and enqueues it.                *)
Restart ==
    /\ cache' = store
    /\ pending' = <<>>
    /\ queue' = {e \in Experiment : Exists(store[e])}
    /\ released' = {}
    /\ Done
    /\ UNCHANGED <<store, clock>>

Next ==
    \/ \E e \in Experiment :
          \/ Create(e) \/ Delete(e) \/ Edit(e)
          \/ DeliverRelease(e) \/ Wake(e)
          \/ Begin(e)
    \/ Deliver
    \/ Resync
    \/ Tick
    \/ Reconcile
    \/ Restart

Spec == Init /\ [][Next]_vars

-----------------------------------------------------------------------------
(***************************************************************************)
(* Fairness: the work queue is first in, first out and the worker is never *)
(* starved (SF on Begin and on the steps of Reconcile, which crashes and   *)
(* other keys interrupt); watch and release events arrive; a holder is     *)
(* reconciled again (its timers and handler jobs) and its work ends, which *)
(* is what the bound on iterations of its own life cycle gives.  Edits by  *)
(* others come to an end, since each may cost the controller a conflict,   *)
(* and so do failures of its writes.                                       *)
(***************************************************************************)
ReconcileStep(e) == cur = e /\ Reconcile

HolderEnds(e) == cur = e /\ obj.phase = "owner" /\ current /\ EndExperiment

EditsEnd == <>[][\A e \in Experiment : ~Edit(e)]_vars

WriteFails ==
    current /\ UNCHANGED store /\ (InitializeStatus \/ AcquireTarget \/ EndExperiment)

FailuresEnd == <>[][~WriteFails]_vars

Fairness ==
    /\ EditsEnd
    /\ FailuresEnd
    /\ WF_vars(Deliver)
    /\ \A e \in Experiment :
          /\ WF_vars(DeliverRelease(e))
          /\ WF_vars(Wake(e))
          /\ SF_vars(Begin(e))
          /\ SF_vars(ReconcileStep(e))
          /\ SF_vars(HolderEnds(e))

FairSpec == Spec /\ Fairness

-----------------------------------------------------------------------------
(* Every variable keeps its type. *)
TypeOK ==
    /\ store \in [Experiment -> Object]
    /\ cache \in [Experiment -> Object]
    /\ pending \in Seq([exp : Experiment, obj : Object])
    /\ queue \subseteq Experiment
    /\ released \subseteq Experiment
    /\ pc \in {"idle", "run", "trigger", "sweep"}
    /\ cur \in Experiment \cup {NoKey}
    /\ pc # "idle" => cur # NoKey
    /\ obj \in Object
    /\ current \in BOOLEAN
    /\ clock \in 1..MaxTime

(* "Two experiments cannot be running concurrently for the same target"    *)
(* (api/v2alpha2/experiment_types.go:61): no two stored experiments of one *)
(* target are acquired and not completed, whatever the cache showed when   *)
(* they acquired it.                                                       *)
MutualExclusion ==
    \A e \in Experiment : \A d \in Rivals(e) :
        ~(store[e].phase = "owner" /\ store[d].phase = "owner")

(* No lost wake-up (experiment_controller.go:140, "wait to be triggered    *)
(* again"): when the controller has nothing left to do and nothing is on   *)
(* its way to it, a target without a holder has nobody waiting for it.     *)
Quiescent == pc = "idle" /\ queue = {} /\ released = {} /\ pending = <<>>

NoStrandedWaiter ==
    Quiescent =>
        \A e \in Experiment :
            store[e].phase = "waiting" =>
                \E d \in Rivals(e) : store[d].phase = "owner"

(* A target goes to the contender with the earliest InitTime               *)
(* (target.go:44-66): whoever becomes its holder, no contender that was    *)
(* initialised earlier, in a second before, is passed over.                *)
AcquiresInOrder ==
    [][\A e \in Experiment :
          store[e].phase # "owner" /\ store'[e].phase = "owner" =>
              \A d \in Rivals(e) :
                  IsContender(store[d]) => store[d].init >= store[e].init]_vars

(* Writes from a stale cache lose nothing (updateStatus and its benign     *)
(* conflicts): no step takes back an acquisition or a completion, revives  *)
(* a deleted experiment or changes an InitTime.                            *)
PhaseRank ==
    [p \in Phase |->
        CASE p = "unborn" -> 0 [] p = "new" -> 1 [] p = "waiting" -> 2
          [] p = "owner" -> 3 [] p = "done" -> 4 [] p = "gone" -> 5]

Advances(o, n) ==
    /\ PhaseRank[o.phase] <= PhaseRank[n.phase]
    /\ PhaseRank[o.phase] >= 2 => n.init = o.init

StatusNeverRegresses == [][\A e \in Experiment : Advances(store[e], store'[e])]_vars

(* The next experiment is triggered when a holder completes or is deleted  *)
(* (target.go:98-178): whoever waits for a target does not wait for ever.  *)
EveryWaiterServed ==
    \A e \in Experiment : store[e].phase = "waiting" ~> store[e].phase # "waiting"

=============================================================================
