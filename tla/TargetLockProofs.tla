-------------------------- MODULE TargetLockProofs --------------------------
(***************************************************************************)
(* Theorems about TargetLock for any experiments, targets, bounds and      *)
(* assignment of experiments to targets.                                   *)
(***************************************************************************)
EXTENDS TargetLock, SequenceTheorems, TLAPS

LEMMA ConstantsOK ==
    /\ NoKey \notin Experiment
    /\ TargetOf \in [Experiment -> Target]
    /\ MaxTime \in Nat /\ MaxTime >= 1
    /\ MaxPending \in Nat \ {0}
    /\ FreshReads \in BOOLEAN
    /\ CoarseClock \in BOOLEAN
BY ConstantsAssumption

-----------------------------------------------------------------------------
(***************************************************************************)
(* Type correctness.                                                       *)
(***************************************************************************)

(* A well-typed write keeps the store and the watch well typed.            *)
LEMMA PutType ==
    ASSUME TypeOK, NEW e \in Experiment, NEW o \in Object, Put(e, o)
    PROVE  /\ store' \in [Experiment -> Object]
           /\ pending' \in Seq([exp : Experiment, obj : Object])
           /\ current' \in BOOLEAN
<1>1. Event(e, o) \in [exp : Experiment, obj : Object]
  BY DEF Event
<1>2. pending' = Append(pending, Event(e, o))
  BY DEF Put
<1>3. pending' \in Seq([exp : Experiment, obj : Object])
  BY <1>1, <1>2 DEF TypeOK
<1>. QED BY <1>3 DEF Put, TypeOK

LEMMA UpdateStatusType ==
    ASSUME TypeOK, pc # "idle", NEW o \in Object, UpdateStatus(o)
    PROVE  /\ store' \in [Experiment -> Object]
           /\ pending' \in Seq([exp : Experiment, obj : Object])
           /\ queue' \subseteq Experiment
<1>1. cur \in Experiment
  BY DEF TypeOK
<1>2. Event(cur, o) \in [exp : Experiment, obj : Object]
  BY <1>1 DEF Event
<1>3. Append(pending, Event(cur, o)) \in Seq([exp : Experiment, obj : Object])
  BY <1>2 DEF TypeOK
<1>4. CASE current
  BY <1>1, <1>3, <1>4 DEF UpdateStatus, TypeOK
<1>5. CASE ~current
  BY <1>1, <1>5 DEF UpdateStatus, TypeOK
<1>. QED BY <1>4, <1>5

LEMMA UnbornType == Unborn \in Object
<1>1. 0 \in 0..MaxTime
  BY ConstantsOK
<1>. QED BY <1>1 DEF Unborn, Object, Phase

(* What Done leaves behind is well typed.                                  *)
LEMMA DoneType ==
    ASSUME Done, TypeOK
    PROVE  /\ pc' = "idle" /\ cur' \in Experiment \cup {NoKey}
           /\ obj' \in Object /\ current' \in BOOLEAN
BY UnbornType DEF Done

(* Whom a trigger may send are experiments.                                *)
LEMMA TriggeredType ==
    ASSUME NEW t, NEW x, NEW s \in Triggered(t, x)
    PROVE  s \subseteq Experiment
BY DEF Triggered, NextWaiting, ActiveContenders

LEMMA InitType == Init => TypeOK
<1>. SUFFICES ASSUME Init PROVE TypeOK
  OBVIOUS
<1>1. clock \in 1..MaxTime
  BY ConstantsOK DEF Init
<1>2. pending \in Seq([exp : Experiment, obj : Object])
  BY DEF Init
<1>. QED BY <1>1, <1>2, UnbornType DEF Init, TypeOK

(* The environment, the informer and the queue keep types.                 *)
LEMMA EnvironmentType ==
    ASSUME TypeOK, NEW e \in Experiment,
           Create(e) \/ Delete(e) \/ Edit(e) \/ DeliverRelease(e) \/ Wake(e)
    PROVE  TypeOK'
<1>1. CASE Create(e)
  <2>1. [phase |-> "new", init |-> 0] \in Object
    BY UnbornType DEF Unborn, Object, Phase
  <2>. QED BY <1>1, <2>1, PutType DEF Create, TypeOK
<1>2. CASE Delete(e)
  <2>1. [store[e] EXCEPT !.phase = "gone"] \in Object
    BY DEF TypeOK, Object, Phase
  <2>. QED BY <1>2, <2>1, PutType DEF Delete, TypeOK
<1>3. CASE Edit(e)
  <2>1. store[e] \in Object
    BY DEF TypeOK
  <2>. QED BY <1>3, <2>1, PutType DEF Edit, TypeOK
<1>4. CASE DeliverRelease(e)
  BY <1>4 DEF DeliverRelease, TypeOK
<1>5. CASE Wake(e)
  BY <1>5 DEF Wake, TypeOK
<1>. QED BY <1>1, <1>2, <1>3, <1>4, <1>5

(* The oldest watch event, when there is one.                              *)
LEMMA HeadType ==
    ASSUME TypeOK, pending # <<>>
    PROVE  /\ Head(pending).exp \in Experiment
           /\ Head(pending).obj \in Object
           /\ Tail(pending) \in Seq([exp : Experiment, obj : Object])
<1>1. pending \in Seq([exp : Experiment, obj : Object])
  BY DEF TypeOK
<1>2. /\ Head(pending) \in [exp : Experiment, obj : Object]
      /\ Tail(pending) \in Seq([exp : Experiment, obj : Object])
  BY <1>1, HeadTailProperties
<1>. QED BY <1>2

LEMMA ReconcileType == TypeOK /\ Reconcile => TypeOK'
<1>. SUFFICES ASSUME TypeOK, Reconcile PROVE TypeOK'
  OBVIOUS
<1>1. CASE InitializeStatus
  <2>1. [phase |-> "waiting", init |-> clock] \in Object
    BY ConstantsOK DEF TypeOK, Object, Phase
  <2>2. clock' \in 1..MaxTime
    BY <1>1, ConstantsOK DEF InitializeStatus, TypeOK
  <2>. QED BY <1>1, <2>1, <2>2, UpdateStatusType, DoneType DEF InitializeStatus, TypeOK
<1>2. CASE AlreadyCompleted
  BY <1>2, DoneType DEF AlreadyCompleted, TypeOK
<1>3. CASE AcquireTarget
  <2>1. [obj EXCEPT !.phase = "owner"] \in Object
    BY DEF TypeOK, Object, Phase
  <2>. QED BY <1>3, <2>1, UpdateStatusType, DoneType DEF AcquireTarget, TypeOK
<1>4. CASE KeepWaiting
  BY <1>4, DoneType DEF KeepWaiting, TypeOK
<1>5. CASE Proceed
  <2>1. obj \in Object
    BY DEF TypeOK
  <2>. QED BY <1>5, <2>1, UpdateStatusType, DoneType DEF Proceed, TypeOK
<1>6. CASE EndExperiment
  <2>1. [obj EXCEPT !.phase = "done"] \in Object
    BY DEF TypeOK, Object, Phase
  <2>. QED BY <1>6, <2>1, UpdateStatusType, UnbornType DEF EndExperiment, TypeOK
<1>7. CASE TriggerNext
  BY <1>7, DoneType, TriggeredType DEF TriggerNext, TypeOK
<1>8. CASE TriggerWaiting
  <2>1. PICK choice \in [ListedTargets -> UNION {Triggered(t, {}) : t \in ListedTargets}] :
          /\ \A t \in ListedTargets : choice[t] \in Triggered(t, {})
          /\ released' = released \cup UNION {choice[t] : t \in ListedTargets}
    BY <1>8 DEF TriggerWaiting
  <2>2. \A t \in ListedTargets : choice[t] \subseteq Experiment
    BY <2>1, TriggeredType
  <2>3. released' \subseteq Experiment
    BY <2>1, <2>2 DEF TypeOK
  <2>. QED BY <1>8, <2>3, DoneType DEF TriggerWaiting, TypeOK
<1>. QED
  BY <1>1, <1>2, <1>3, <1>4, <1>5, <1>6, <1>7, <1>8 DEF Reconcile

LEMMA NextType == TypeOK /\ [Next]_vars => TypeOK'
<1>. SUFFICES ASSUME TypeOK, [Next]_vars PROVE TypeOK'
  OBVIOUS
<1>1. CASE \E e \in Experiment :
             Create(e) \/ Delete(e) \/ Edit(e) \/ DeliverRelease(e) \/ Wake(e)
  BY <1>1, EnvironmentType
<1>2. ASSUME NEW e \in Experiment, Begin(e) PROVE TypeOK'
  <2>1. cache[e] \in Object /\ e # NoKey
    BY ConstantsOK DEF TypeOK
  <2>2. current' \in BOOLEAN
    BY <1>2 DEF Begin, Delivered
  <2>. QED BY <1>2, <2>1, <2>2 DEF Begin, TypeOK
<1>3. CASE Deliver
  BY <1>3, HeadType DEF Deliver, TypeOK
<1>4. CASE Resync
  BY <1>4 DEF Resync, TypeOK
<1>5. CASE Tick
  BY <1>5, ConstantsOK DEF Tick, TypeOK
<1>6. CASE Reconcile
  BY <1>6, ReconcileType
<1>7. CASE Restart
  BY <1>7, DoneType DEF Restart, TypeOK
<1>8. CASE UNCHANGED vars
  BY <1>8 DEF vars, TypeOK
<1>. QED BY <1>1, <1>2, <1>3, <1>4, <1>5, <1>6, <1>7, <1>8 DEF Next

(* Every variable of the protocol keeps its type in every behaviour.       *)
THEOREM TypeCorrect == Spec => []TypeOK
BY InitType, NextType, PTL DEF Spec

-----------------------------------------------------------------------------
(***************************************************************************)
(* What the informer cache says of the store.  A copy without events on    *)
(* its way is the stored object; the last event on its way carries it.     *)
(***************************************************************************)
LastOfItsKey(i) ==
    \A j \in 1..Len(pending) : j > i => pending[j].exp # pending[i].exp

CacheFollowsStore ==
    /\ \A e \in Experiment : Delivered(e) => cache[e] = store[e]
    /\ \A i \in 1..Len(pending) :
          LastOfItsKey(i) => pending[i].obj = store[pending[i].exp]

(* The instance is the stored object as long as nobody has written it.     *)
InstanceIsCurrent == current => cur # NoKey /\ obj = store[cur]

(* With reads that are up to date, the cache shows every contender of the  *)
(* store while the worker decides: until its own write only others write,  *)
(* and they create, delete or edit but never initialise or acquire.        *)
SeesContenders ==
    FreshReads /\ pc = "run" =>
        \A e \in Experiment :
            IsContender(store[e]) =>
                /\ cache[e] = store[e]
                /\ \A i \in 1..Len(pending) :
                      pending[i].exp = e => pending[i].obj = store[e]

WatchInv == TypeOK /\ CacheFollowsStore /\ InstanceIsCurrent /\ SeesContenders

LEMMA PendingAppend ==
    ASSUME TypeOK, NEW e \in Experiment, NEW o \in Object,
           pending' = Append(pending, Event(e, o))
    PROVE  /\ Len(pending) \in Nat
           /\ Len(pending') = Len(pending) + 1
           /\ \A i \in 1..Len(pending) : pending'[i] = pending[i]
           /\ pending'[Len(pending) + 1].exp = e
           /\ pending'[Len(pending) + 1].obj = o
           /\ \A i \in 1..Len(pending) : pending[i].exp \in Experiment
<1>1. pending \in Seq([exp : Experiment, obj : Object])
  BY DEF TypeOK
<1>2. Event(e, o) \in [exp : Experiment, obj : Object]
  BY DEF Event
<1>3. \A i \in 1..Len(pending) : pending[i] \in [exp : Experiment, obj : Object]
  BY <1>1, ElementOfSeq
<1>4. Len(pending) \in Nat
  BY <1>1
<1>5. /\ Len(pending') = Len(pending) + 1
      /\ \A i \in 1..Len(pending) : pending'[i] = pending[i]
      /\ pending'[Len(pending) + 1] = Event(e, o)
  BY <1>1, <1>2, AppendProperties
<1>. QED BY <1>3, <1>4, <1>5 DEF Event

LEMMA PendingTail ==
    ASSUME TypeOK, pending # <<>>, pending' = Tail(pending)
    PROVE  /\ Len(pending) \in Nat \ {0}
           /\ Len(pending') = Len(pending) - 1
           /\ \A i \in 1..Len(pending') : pending'[i] = pending[i + 1]
           /\ Head(pending) = pending[1]
<1>1. pending \in Seq([exp : Experiment, obj : Object])
  BY DEF TypeOK
<1>2. /\ Len(Tail(pending)) = Len(pending) - 1
      /\ \A i \in 1..Len(Tail(pending)) : Tail(pending)[i] = pending[i + 1]
  BY <1>1, HeadTailProperties
<1>3. Len(pending) \in Nat \ {0}
  BY <1>1, EmptySeq
<1>. QED BY <1>1, <1>2, <1>3

(* A write that the API server accepts. *)
Written(e, o) ==
    /\ store' = [store EXCEPT ![e] = o]
    /\ pending' = Append(pending, Event(e, o))
    /\ cache' = cache

LEMMA WrittenKeepsCache ==
    ASSUME TypeOK, CacheFollowsStore,
           NEW e \in Experiment, NEW o \in Object, Written(e, o)
    PROVE  CacheFollowsStore'
<1>. DEFINE n == Len(pending) + 1
<1>1. /\ Len(pending) \in Nat
      /\ Len(pending') = n
      /\ \A i \in 1..Len(pending) : pending'[i] = pending[i]
      /\ pending'[n].exp = e
      /\ pending'[n].obj = o
      /\ \A i \in 1..Len(pending) : pending[i].exp \in Experiment
  BY PendingAppend DEF Written
<1>2. /\ \A d \in Experiment \ {e} : store'[d] = store[d]
      /\ store'[e] = o
      /\ cache' = cache
  BY DEF Written, TypeOK
<1>3. ASSUME NEW d \in Experiment, Delivered(d)'
      PROVE  cache'[d] = store'[d]
  <2>1. d # e
    BY <1>1, <1>3 DEF Delivered
  <2>2. Delivered(d)
    BY <1>1, <1>3 DEF Delivered
  <2>. QED BY <1>2, <2>1, <2>2 DEF CacheFollowsStore
<1>4. ASSUME NEW i \in 1..Len(pending'), LastOfItsKey(i)'
      PROVE  pending'[i].obj = store'[pending'[i].exp]
  <2>1. CASE i = n
    BY <1>1, <1>2, <2>1
  <2>2. CASE i # n
    <3>1. i \in 1..Len(pending)
      BY <1>1, <2>2
    <3>2. pending[i].exp # e
      BY <1>1, <1>4, <3>1 DEF LastOfItsKey
    <3>3. LastOfItsKey(i)
      BY <1>1, <1>4, <3>1 DEF LastOfItsKey
    <3>. QED BY <1>1, <1>2, <3>1, <3>2, <3>3 DEF CacheFollowsStore
  <2>. QED BY <2>1, <2>2
<1>. QED BY <1>3, <1>4 DEF CacheFollowsStore

LEMMA DeliverKeepsCache ==
    ASSUME TypeOK, CacheFollowsStore, Deliver
    PROVE  CacheFollowsStore'
<1>1. /\ Len(pending) \in Nat \ {0}
      /\ Len(pending') = Len(pending) - 1
      /\ \A i \in 1..Len(pending') : pending'[i] = pending[i + 1]
      /\ Head(pending) = pending[1]
  BY PendingTail DEF Deliver
<1>2. Head(pending).exp \in Experiment
  BY HeadType DEF Deliver
<1>3. /\ store' = store
      /\ cache' = [cache EXCEPT ![pending[1].exp] = pending[1].obj]
  BY <1>1 DEF Deliver
<1>4. ASSUME NEW d \in Experiment, Delivered(d)'
      PROVE  cache'[d] = store'[d]
  <2>1. \A j \in 1..Len(pending) : j > 1 => pending[j].exp # d
    <3>. SUFFICES ASSUME NEW j \in 1..Len(pending), j > 1 PROVE pending[j].exp # d
      OBVIOUS
    <3>1. j - 1 \in 1..Len(pending') /\ pending'[j - 1] = pending[(j - 1) + 1]
      BY <1>1
    <3>. QED BY <1>1, <1>4, <3>1 DEF Delivered
  <2>2. CASE pending[1].exp = d
    <3>1. LastOfItsKey(1)
      BY <2>1, <2>2 DEF LastOfItsKey
    <3>2. 1 \in 1..Len(pending)
      BY <1>1
    <3>3. pending[1].obj = store[d]
      BY <2>2, <3>1, <3>2 DEF CacheFollowsStore
    <3>. QED BY <1>3, <2>2, <3>3 DEF TypeOK
  <2>3. CASE pending[1].exp # d
    <3>1. Delivered(d)
      BY <1>1, <2>1, <2>3 DEF Delivered
    <3>. QED BY <1>3, <2>3, <3>1 DEF CacheFollowsStore, TypeOK
  <2>. QED BY <2>2, <2>3
<1>5. ASSUME NEW i \in 1..Len(pending'), LastOfItsKey(i)'
      PROVE  pending'[i].obj = store'[pending'[i].exp]
  <2>1. i + 1 \in 1..Len(pending) /\ pending'[i] = pending[i + 1]
    BY <1>1
  <2>2. LastOfItsKey(i + 1)
    <3>. SUFFICES ASSUME NEW j \in 1..Len(pending), j > i + 1
                  PROVE  pending[j].exp # pending[i + 1].exp
      BY DEF LastOfItsKey
    <3>1. j - 1 \in 1..Len(pending') /\ j - 1 > i /\ pending'[j - 1] = pending[(j - 1) + 1]
      BY <1>1
    <3>. QED BY <1>1, <1>5, <2>1, <3>1 DEF LastOfItsKey
  <2>. QED BY <1>3, <2>1, <2>2 DEF CacheFollowsStore
<1>. QED BY <1>4, <1>5 DEF CacheFollowsStore

(* Every write of the controller or of others is one the cache follows.    *)
LEMMA PutIsWritten ==
    ASSUME NEW e \in Experiment, NEW o, Put(e, o), UNCHANGED cache
    PROVE  Written(e, o)
BY DEF Put, Written

LEMMA UpdateStatusKeepsCache ==
    ASSUME TypeOK, CacheFollowsStore, pc # "idle", UNCHANGED cache,
           NEW o \in Object, UpdateStatus(o)
    PROVE  CacheFollowsStore'
<1>1. cur \in Experiment
  BY DEF TypeOK
<1>2. CASE Written(cur, o)
  BY <1>1, <1>2, WrittenKeepsCache
<1>3. CASE UNCHANGED <<store, pending>>
  BY <1>3 DEF CacheFollowsStore, Delivered, LastOfItsKey
<1>. QED BY <1>2, <1>3 DEF UpdateStatus, Written

(* The objects that actions write.                                         *)
LEMMA WrittenObjects ==
    ASSUME TypeOK
    PROVE  /\ [phase |-> "new", init |-> 0] \in Object
           /\ [phase |-> "waiting", init |-> clock] \in Object
           /\ \A e \in Experiment : store[e] \in Object
           /\ \A e \in Experiment : [store[e] EXCEPT !.phase = "gone"] \in Object
           /\ obj \in Object
           /\ [obj EXCEPT !.phase = "owner"] \in Object
           /\ [obj EXCEPT !.phase = "done"] \in Object
<1>1. [phase |-> "new", init |-> 0] \in Object
  BY ConstantsOK DEF Object, Phase
<1>2. [phase |-> "waiting", init |-> clock] \in Object
  BY ConstantsOK DEF TypeOK, Object, Phase
<1>3. \A o \in Object : \A p \in Phase : [o EXCEPT !.phase = p] \in Object
  BY DEF Object
<1>4. "gone" \in Phase /\ "owner" \in Phase /\ "done" \in Phase
  BY DEF Phase
<1>. QED BY <1>1, <1>2, <1>3, <1>4 DEF TypeOK

LEMMA NextKeepsCache ==
    ASSUME TypeOK, CacheFollowsStore, [Next]_vars
    PROVE  CacheFollowsStore'
<1>1. CASE UNCHANGED <<store, cache, pending>>
  BY <1>1 DEF CacheFollowsStore, Delivered, LastOfItsKey
<1>2. ASSUME NEW e \in Experiment, Create(e) \/ Delete(e) \/ Edit(e)
      PROVE  CacheFollowsStore'
  BY <1>2, WrittenObjects, PutIsWritten, WrittenKeepsCache DEF Create, Delete, Edit
<1>3. CASE Deliver
  BY <1>3, DeliverKeepsCache
<1>4. CASE Reconcile /\ ~UNCHANGED <<store, cache, pending>>
  <2>1. InitializeStatus \/ AcquireTarget \/ Proceed \/ EndExperiment
    BY <1>4 DEF Reconcile, AlreadyCompleted, KeepWaiting, TriggerNext, TriggerWaiting
  <2>. QED
    BY <1>4, <2>1, WrittenObjects, UpdateStatusKeepsCache
       DEF InitializeStatus, AcquireTarget, Proceed, EndExperiment
<1>5. CASE Restart
  BY <1>5 DEF Restart, CacheFollowsStore, Delivered, LastOfItsKey
<1>6. CASE \E e \in Experiment : DeliverRelease(e) \/ Wake(e) \/ Begin(e)
  BY <1>1, <1>6 DEF DeliverRelease, Wake, Begin
<1>7. CASE Resync \/ Tick \/ UNCHANGED vars
  BY <1>1, <1>7 DEF Resync, Tick, vars
<1>. QED BY <1>1, <1>2, <1>3, <1>4, <1>5, <1>6, <1>7 DEF Next

(* Until it writes, the worker knows whether its version still stands.     *)
LEMMA NextKeepsInstance ==
    ASSUME TypeOK, CacheFollowsStore, InstanceIsCurrent, [Next]_vars
    PROVE  InstanceIsCurrent'
<1>. SUFFICES ASSUME current' PROVE cur' # NoKey /\ obj' = store'[cur']
  BY DEF InstanceIsCurrent
<1>1. ASSUME NEW e \in Experiment, Create(e) \/ Delete(e) \/ Edit(e)
      PROVE  cur' # NoKey /\ obj' = store'[cur']
  <2>1. current /\ e # cur /\ cur' = cur /\ obj' = obj
    BY <1>1 DEF Create, Delete, Edit, Put
  <2>2. cur \in Experiment /\ store'[cur] = store[cur]
    BY <1>1, <2>1 DEF Create, Delete, Edit, Put, TypeOK, InstanceIsCurrent
  <2>. QED BY <2>1, <2>2 DEF InstanceIsCurrent
<1>2. ASSUME NEW e \in Experiment, Begin(e) PROVE cur' # NoKey /\ obj' = store'[cur']
  BY <1>2, ConstantsOK DEF Begin, CacheFollowsStore
<1>3. ASSUME NEW e \in Experiment, DeliverRelease(e) \/ Wake(e)
      PROVE  cur' # NoKey /\ obj' = store'[cur']
  BY <1>3 DEF DeliverRelease, Wake, InstanceIsCurrent
<1>4. CASE Deliver \/ Resync \/ Tick \/ UNCHANGED vars
  BY <1>4 DEF Deliver, Resync, Tick, vars, InstanceIsCurrent
<1>5. ~Reconcile
  BY DEF Reconcile, InitializeStatus, AlreadyCompleted, AcquireTarget, KeepWaiting,
         Proceed, EndExperiment, TriggerNext, TriggerWaiting, Done
<1>6. ~Restart
  BY DEF Restart, Done
<1>. QED BY <1>1, <1>2, <1>3, <1>4, <1>5, <1>6 DEF Next

(* With reads that are up to date, the worker decides on every contender   *)
(* there is.                                                               *)
LEMMA NextKeepsSight ==
    ASSUME TypeOK, CacheFollowsStore, SeesContenders, [Next]_vars
    PROVE  SeesContenders'
<1>. SUFFICES ASSUME FreshReads, pc' = "run", NEW e \in Experiment, IsContender(store'[e])
              PROVE  /\ cache'[e] = store'[e]
                     /\ \A i \in 1..Len(pending') :
                           pending'[i].exp = e => pending'[i].obj = store'[e]
  BY DEF SeesContenders
<1>. DEFINE Seen == /\ cache[e] = store[e]
                    /\ \A i \in 1..Len(pending) :
                          pending[i].exp = e => pending[i].obj = store[e]
            SeenNext == /\ cache'[e] = store'[e]
                        /\ \A i \in 1..Len(pending') :
                              pending'[i].exp = e => pending'[i].obj = store'[e]
<1>1. CASE UNCHANGED <<store, cache, pending, pc>>
  BY <1>1 DEF SeesContenders
<1>2. ASSUME NEW d \in Experiment, Create(d) \/ Delete(d) \/ Edit(d)
      PROVE  SeenNext
  <2>. PICK o \in Object :
         /\ Put(d, o)
         /\ o = store[d] \/ ~IsContender(o)
    BY <1>2, WrittenObjects DEF Create, Delete, Edit, IsContender, TypeOK, Object
  <2>1. pc = "run" /\ cache' = cache
    BY <1>2 DEF Create, Delete, Edit
  <2>2. /\ Len(pending) \in Nat
        /\ Len(pending') = Len(pending) + 1
        /\ \A i \in 1..Len(pending) : pending'[i] = pending[i]
        /\ pending'[Len(pending) + 1].exp = d
        /\ pending'[Len(pending) + 1].obj = o
    BY PendingAppend DEF Put
  <2>3. store'[e] = store[e]
    BY DEF Put, TypeOK
  <2>4. Seen
    BY <2>1, <2>3 DEF SeesContenders
  <2>5. d = e => o = store[e]
    BY <2>3 DEF Put, TypeOK
  <2>. QED BY <2>1, <2>2, <2>3, <2>4, <2>5
<1>3. CASE Deliver
  <2>1. /\ Len(pending) \in Nat \ {0}
        /\ Len(pending') = Len(pending) - 1
        /\ \A i \in 1..Len(pending') : pending'[i] = pending[i + 1]
        /\ Head(pending) = pending[1]
    BY <1>3, PendingTail DEF Deliver
  <2>2. Seen
    BY <1>3 DEF Deliver, SeesContenders
  <2>3. cache'[e] = store'[e]
    BY <1>3, <2>1, <2>2 DEF Deliver, TypeOK
  <2>4. ASSUME NEW i \in 1..Len(pending'), pending'[i].exp = e
        PROVE  pending'[i].obj = store'[e]
    <3>1. i + 1 \in 1..Len(pending) /\ pending'[i] = pending[i + 1]
      BY <2>1
    <3>. QED BY <1>3, <2>2, <2>4, <3>1 DEF Deliver
  <2>. QED BY <2>3, <2>4
<1>4. ASSUME NEW d \in Experiment, Begin(d) PROVE SeenNext
  <2>1. pending = <<>> /\ Len(pending) = 0
    BY <1>4, EmptySeq DEF Begin
  <2>2. cache[e] = store[e]
    BY <2>1 DEF CacheFollowsStore, Delivered
  <2>. QED BY <1>4, <2>1, <2>2 DEF Begin
<1>5. ASSUME NEW d \in Experiment, DeliverRelease(d) \/ Wake(d) PROVE SeenNext
  BY <1>1, <1>5 DEF DeliverRelease, Wake
<1>6. CASE Resync \/ Tick \/ UNCHANGED vars
  BY <1>1, <1>6 DEF Resync, Tick, vars
<1>7. ~Reconcile
  BY DEF Reconcile, InitializeStatus, AlreadyCompleted, AcquireTarget, KeepWaiting,
         Proceed, EndExperiment, TriggerNext, TriggerWaiting, Done
<1>8. ~Restart
  BY DEF Restart, Done
<1>. QED BY <1>2, <1>3, <1>4, <1>5, <1>6, <1>7, <1>8 DEF Next

THEOREM WatchInvariant == Spec => []WatchInv
<1>1. Init => WatchInv
  <2>. SUFFICES ASSUME Init PROVE WatchInv
    OBVIOUS
  <2>1. TypeOK
    BY InitType
  <2>2. Len(pending) = 0
    BY EmptySeq DEF Init
  <2>. QED
    BY <2>1, <2>2 DEF Init, WatchInv, CacheFollowsStore, InstanceIsCurrent, SeesContenders
<1>2. WatchInv /\ [Next]_vars => WatchInv'
  BY NextType, NextKeepsCache, NextKeepsInstance, NextKeepsSight DEF WatchInv
<1>. QED BY <1>1, <1>2, PTL DEF Spec

-----------------------------------------------------------------------------
(***************************************************************************)
(* Safety.                                                                 *)
(***************************************************************************)

(* The worker writes the experiment it reconciles, and only the version    *)
(* it has read.                                                            *)
LEMMA UpdateStatusWrites ==
    ASSUME WatchInv, pc = "run", NEW o \in Object, UpdateStatus(o),
           NEW e \in Experiment, store'[e] # store[e]
    PROVE  current /\ cur = e /\ obj = store[e] /\ store'[e] = o
<1>1. cur \in Experiment
  BY DEF WatchInv, TypeOK
<1>2. current
  BY DEF UpdateStatus
<1>3. store' = [store EXCEPT ![cur] = o]
  BY <1>2 DEF UpdateStatus
<1>4. cur = e /\ store'[e] = o
  BY <1>1, <1>3 DEF WatchInv, TypeOK
<1>. QED BY <1>2, <1>4 DEF WatchInv, InstanceIsCurrent

(* Everything that ever happens to a stored experiment.                    *)
LEMMA StoreChanges ==
    ASSUME WatchInv, [Next]_vars, NEW e \in Experiment, store'[e] # store[e]
    PROVE  \/ /\ Create(e)
              /\ store[e].phase = "unborn" /\ store'[e] = [phase |-> "new", init |-> 0]
           \/ store'[e] = [store[e] EXCEPT !.phase = "gone"]
           \/ /\ InitializeStatus /\ cur = e
              /\ store[e].phase = "new" /\ store'[e] = [phase |-> "waiting", init |-> clock]
           \/ /\ AcquireTarget /\ current /\ cur = e /\ obj = store[e]
              /\ store[e].phase = "waiting"
              /\ store'[e] = [store[e] EXCEPT !.phase = "owner"]
           \/ /\ EndExperiment /\ cur = e
              /\ IsContender(store[e]) /\ store'[e] = [store[e] EXCEPT !.phase = "done"]
<1>1. ASSUME NEW d \in Experiment, Create(d)
      PROVE  /\ Create(e)
             /\ store[e].phase = "unborn" /\ store'[e] = [phase |-> "new", init |-> 0]
  <2>1. d = e
    BY <1>1 DEF Create, Put, WatchInv, TypeOK
  <2>. QED BY <1>1, <2>1 DEF Create, Put, WatchInv, TypeOK
<1>2. ASSUME NEW d \in Experiment, Delete(d)
      PROVE  store'[e] = [store[e] EXCEPT !.phase = "gone"]
  BY <1>2 DEF Delete, Put, WatchInv, TypeOK
<1>3. ASSUME NEW d \in Experiment, Edit(d) PROVE FALSE
  BY <1>3 DEF Edit, Put, WatchInv, TypeOK
<1>4. ~(Deliver \/ Resync \/ Tick \/ Restart \/ UNCHANGED vars)
  BY DEF Deliver, Resync, Tick, Restart, vars
<1>5. ~\E d \in Experiment : DeliverRelease(d) \/ Wake(d) \/ Begin(d)
  BY DEF DeliverRelease, Wake, Begin
<1>6. ~(AlreadyCompleted \/ KeepWaiting \/ TriggerNext \/ TriggerWaiting)
  BY DEF AlreadyCompleted, KeepWaiting, TriggerNext, TriggerWaiting
<1>. USE WrittenObjects, UpdateStatusWrites
<1>7. CASE InitializeStatus
  <2>1. UpdateStatus([phase |-> "waiting", init |-> clock]) /\ pc = "run"
    BY <1>7 DEF InitializeStatus
  <2>. QED BY <1>7, <2>1 DEF InitializeStatus, WatchInv
<1>8. CASE AcquireTarget
  <2>1. UpdateStatus([obj EXCEPT !.phase = "owner"]) /\ pc = "run"
    BY <1>8 DEF AcquireTarget
  <2>. QED BY <1>8, <2>1 DEF AcquireTarget, WatchInv
<1>9. CASE EndExperiment
  <2>1. UpdateStatus([obj EXCEPT !.phase = "done"]) /\ pc = "run"
    BY <1>9 DEF EndExperiment
  <2>. QED BY <1>9, <2>1 DEF EndExperiment, WatchInv
<1>10. ~Proceed
  <2>. SUFFICES ASSUME Proceed PROVE FALSE
    OBVIOUS
  <2>1. UpdateStatus(obj) /\ pc = "run"
    BY DEF Proceed
  <2>. QED BY <2>1 DEF WatchInv
<1>. QED
  BY <1>1, <1>2, <1>3, <1>4, <1>5, <1>6, <1>7, <1>8, <1>9, <1>10 DEF Next, Reconcile

(* The only step that makes an experiment the holder of its target.        *)
LEMMA OnlyAcquireMakesOwner ==
    ASSUME WatchInv, [Next]_vars, NEW e \in Experiment,
           store[e].phase # "owner", store'[e].phase = "owner"
    PROVE  /\ AcquireTarget /\ cur = e /\ current
           /\ obj = store[e] /\ store[e].phase = "waiting"
<1>1. store[e] \in Object
  BY DEF WatchInv, TypeOK
<1>2. store'[e] # store[e]
  OBVIOUS
<1>3. \/ store'[e] = [phase |-> "new", init |-> 0]
      \/ store'[e] = [store[e] EXCEPT !.phase = "gone"]
      \/ store'[e] = [phase |-> "waiting", init |-> clock]
      \/ store'[e] = [store[e] EXCEPT !.phase = "done"]
      \/ /\ AcquireTarget /\ current /\ cur = e /\ obj = store[e]
         /\ store[e].phase = "waiting"
  BY <1>2, StoreChanges
<1>. QED BY <1>1, <1>3 DEF Object

(* The worker acquires only a target that is free, and before later rivals.*)
LEMMA AcquiresFreeTarget ==
    ASSUME FreshReads, WatchInv, [Next]_vars, NEW e \in Experiment,
           store[e].phase # "owner", store'[e].phase = "owner"
    PROVE  \A d \in Rivals(e) :
              IsContender(store[d]) =>
                  store[d].phase = "waiting" /\ store[d].init >= store[e].init
<1>1. /\ AcquireTarget /\ cur = e /\ current
      /\ obj = store[e] /\ store[e].phase = "waiting"
  BY OnlyAcquireMakesOwner
<1>. SUFFICES ASSUME NEW d \in Rivals(e), IsContender(store[d])
              PROVE  store[d].phase = "waiting" /\ store[d].init >= store[e].init
  OBVIOUS
<1>2. d \in Experiment \ {e} /\ TargetOf[d] = TargetOf[e]
  BY DEF Rivals
<1>3. cache[d] = store[d]
  BY <1>1, <1>2 DEF AcquireTarget, WatchInv, SeesContenders
<1>4. d \in ActiveContenders(TargetOf[e]) \ {e}
  BY <1>2, <1>3 DEF ActiveContenders
<1>. QED BY <1>1, <1>3, <1>4 DEF AcquireTarget, CanAcquire, IsContender

(* With reads that are up to date no two experiments run for one target    *)
(* (experiment_types.go:61), for any number of experiments, targets and    *)
(* restarts, and with InitTimes that tie.                                  *)
THEOREM FreshMutualExclusion == FreshReads => (Spec => []MutualExclusion)
<1>. SUFFICES ASSUME FreshReads PROVE Spec => []MutualExclusion
  OBVIOUS
<1>1. Init => MutualExclusion
  BY DEF Init, MutualExclusion, Rivals, Unborn
<1>2. WatchInv /\ MutualExclusion /\ [Next]_vars => MutualExclusion'
  <2>. SUFFICES ASSUME WatchInv, MutualExclusion, [Next]_vars,
                       NEW e \in Experiment, NEW d \in Rivals(e),
                       store'[e].phase = "owner", store'[d].phase = "owner"
                PROVE  FALSE
    BY DEF MutualExclusion, Rivals
  <2>1. d \in Experiment /\ e \in Rivals(d) /\ d # e
    BY DEF Rivals
  <2>2. CASE store[e].phase # "owner" /\ store[d].phase = "owner"
    BY <2>2, AcquiresFreeTarget DEF IsContender
  <2>3. CASE store[e].phase = "owner" /\ store[d].phase # "owner"
    BY <2>1, <2>3, AcquiresFreeTarget DEF IsContender
  <2>4. CASE store[e].phase # "owner" /\ store[d].phase # "owner"
    BY <2>1, <2>4, OnlyAcquireMakesOwner
  <2>. QED BY <2>2, <2>3, <2>4 DEF MutualExclusion
<1>. QED BY <1>1, <1>2, WatchInvariant, PTL DEF Spec

(* A target never goes past a contender initialised in an earlier second   *)
(* (target.go:44-66), with reads that are up to date.                      *)
THEOREM FreshOrder == FreshReads => (Spec => AcquiresInOrder)
<1>. SUFFICES ASSUME FreshReads PROVE Spec => AcquiresInOrder
  OBVIOUS
<1>. DEFINE InOrder ==
       \A e \in Experiment :
          store[e].phase # "owner" /\ store'[e].phase = "owner" =>
              \A d \in Rivals(e) :
                  IsContender(store[d]) => store[d].init >= store[e].init
<1>1. WatchInv /\ [Next]_vars => [InOrder]_vars
  BY AcquiresFreeTarget
<1>. QED BY <1>1, WatchInvariant, PTL DEF Spec, AcquiresInOrder

(* No write takes back what another has recorded (updateStatus and its     *)
(* benign conflicts), however stale the cache is.                          *)
THEOREM StatusMonotone == Spec => StatusNeverRegresses
<1>. DEFINE Keeps == \A e \in Experiment : Advances(store[e], store'[e])
<1>1. /\ PhaseRank["unborn"] = 0 /\ PhaseRank["new"] = 1 /\ PhaseRank["waiting"] = 2
      /\ PhaseRank["owner"] = 3 /\ PhaseRank["done"] = 4 /\ PhaseRank["gone"] = 5
  BY DEF PhaseRank, Phase
<1>2. \A p \in Phase : PhaseRank[p] \in 0..5
  BY <1>1 DEF Phase
<1>3. ASSUME WatchInv, [Next]_vars, NEW e \in Experiment
      PROVE  Advances(store[e], store'[e])
  <2>1. store[e] \in Object
    BY <1>3 DEF WatchInv, TypeOK
  <2>2. CASE store'[e] = store[e]
    BY <1>2, <2>1, <2>2 DEF Advances, Object
  <2>3. CASE store'[e] # store[e]
    <3>1. \/ store[e].phase = "unborn" /\ store'[e] = [phase |-> "new", init |-> 0]
          \/ store'[e] = [store[e] EXCEPT !.phase = "gone"]
          \/ store[e].phase = "new" /\ store'[e] = [phase |-> "waiting", init |-> clock]
          \/ store[e].phase = "waiting" /\ store'[e] = [store[e] EXCEPT !.phase = "owner"]
          \/ IsContender(store[e]) /\ store'[e] = [store[e] EXCEPT !.phase = "done"]
      BY <1>3, <2>3, StoreChanges
    <3>. QED BY <1>1, <2>1, <3>1 DEF Advances, Object, Phase, IsContender
  <2>. QED BY <2>2, <2>3
<1>4. WatchInv /\ [Next]_vars => [Keeps]_vars
  BY <1>3
<1>. QED BY <1>4, WatchInvariant, PTL DEF Spec, StatusNeverRegresses

=============================================================================
