------------------------- MODULE TakingTurnsProofs -------------------------
(***************************************************************************)
(* TargetLock implements TicketLock: with reads that are up to date, or    *)
(* with any reads if no two experiments are initialised in one second.     *)
(* And with reads that are up to date nobody waits for a free target.      *)
(***************************************************************************)
EXTENDS MCTargetLock, TargetLockProofs, WellFoundedInduction

-----------------------------------------------------------------------------
(***************************************************************************)
(* Times and versions.                                                     *)
(***************************************************************************)

(* InitTime is set by initialisation, and not before.                      *)
WellFormed(o) ==
    /\ o.phase \in {"unborn", "new"} => o.init = 0
    /\ IsContender(o) => o.init # 0

(* n may be the same object some versions later.                           *)
Later(o, n) ==
    /\ PhaseRank[o.phase] <= PhaseRank[n.phase]
    /\ o.init # 0 => n.init = o.init

LEMMA Ranks ==
    /\ PhaseRank["unborn"] = 0 /\ PhaseRank["new"] = 1 /\ PhaseRank["waiting"] = 2
    /\ PhaseRank["owner"] = 3 /\ PhaseRank["done"] = 4 /\ PhaseRank["gone"] = 5
BY DEF PhaseRank, Phase

LEMMA LaterOrder ==
    /\ \A o \in Object : Later(o, o)
    /\ \A o, p, q \in Object : Later(o, p) /\ Later(p, q) => Later(o, q)
<1>1. \A o \in Object : PhaseRank[o.phase] \in Int /\ o.init \in Nat
  BY Ranks, ConstantsOK DEF Object, Phase
<1>. QED BY <1>1 DEF Later

(* A contender's versions since its initialisation are contenders.         *)
LEMMA StaysContender ==
    ASSUME NEW o \in Object, NEW n \in Object, WellFormed(o), o.init # 0,
           Later(o, n), IsContender(n)
    PROVE  IsContender(o) /\ o.init = n.init
BY Ranks DEF WellFormed, Later, IsContender, Object, Phase

TimesInv ==
    \A e \in Experiment : WellFormed(store[e]) /\ store[e].init <= clock

DistinctTimes ==
    ~CoarseClock =>
        /\ \A e \in Experiment : store[e].init < clock
        /\ \A e, d \in Experiment :
              e # d /\ store[e].init = store[d].init => store[e].init = 0

LEMMA ClockGrows ==
    ASSUME TypeOK, [Next]_vars
    PROVE  /\ clock \in Nat /\ clock >= 1
           /\ clock' \in Nat /\ clock' >= clock
<1>1. clock \in 1..MaxTime /\ MaxTime \in Nat
  BY ConstantsOK DEF TypeOK
<1>2. clock' = clock \/ clock' = clock + 1
  BY DEF Next, Create, Delete, Edit, DeliverRelease, Wake, Begin, Deliver, Resync, Tick,
         Reconcile, InitializeStatus, AlreadyCompleted, AcquireTarget, KeepWaiting, Proceed,
         EndExperiment, TriggerNext, TriggerWaiting, Restart, vars
<1>. QED BY <1>1, <1>2

LEMMA NextTimes ==
    ASSUME WatchInv, TimesInv, [Next]_vars
    PROVE  TimesInv'
<1>. SUFFICES ASSUME NEW e \in Experiment
              PROVE  WellFormed(store'[e]) /\ store'[e].init <= clock'
  BY DEF TimesInv, WellFormed, IsContender
<1>1. /\ clock \in Nat /\ clock >= 1
      /\ clock' \in Nat /\ clock' >= clock
  BY ClockGrows DEF WatchInv
<1>2. /\ store[e] \in Object /\ store[e].init \in Nat
      /\ WellFormed(store[e]) /\ store[e].init <= clock
  BY ConstantsOK DEF WatchInv, TypeOK, Object, TimesInv
<1>3. CASE store'[e] = store[e]
  BY <1>1, <1>2, <1>3
<1>4. CASE store'[e] # store[e]
  <2>1. \/ store'[e] = [phase |-> "new", init |-> 0]
        \/ store'[e] = [store[e] EXCEPT !.phase = "gone"]
        \/ store'[e] = [phase |-> "waiting", init |-> clock]
        \/ IsContender(store[e]) /\ store'[e] = [store[e] EXCEPT !.phase = "owner"]
        \/ store'[e] = [store[e] EXCEPT !.phase = "done"]
    BY <1>4, StoreChanges DEF IsContender
  <2>. QED BY <1>1, <1>2, <2>1 DEF WellFormed, IsContender, Object
<1>. QED BY <1>3, <1>4

(* Who joins does so at the present time, as the only one.                 *)
LEMMA Joins ==
    ASSUME WatchInv, TimesInv, [Next]_vars, NEW e \in Experiment,
           store'[e].init # store[e].init
    PROVE  /\ InitializeStatus /\ cur = e
           /\ store[e].phase = "new" /\ store[e].init = 0
           /\ store'[e] = [phase |-> "waiting", init |-> clock]
<1>1. store[e] \in Object /\ WellFormed(store[e])
  BY DEF WatchInv, TypeOK, TimesInv
<1>2. store'[e] # store[e]
  OBVIOUS
<1>3. \/ store[e].phase = "unborn" /\ store'[e] = [phase |-> "new", init |-> 0]
      \/ store'[e] = [store[e] EXCEPT !.phase = "gone"]
      \/ /\ InitializeStatus /\ cur = e
         /\ store[e].phase = "new" /\ store'[e] = [phase |-> "waiting", init |-> clock]
      \/ store'[e] = [store[e] EXCEPT !.phase = "owner"]
      \/ store'[e] = [store[e] EXCEPT !.phase = "done"]
  BY <1>2, StoreChanges
<1>. QED BY <1>1, <1>3 DEF WellFormed, Object

LEMMA NextDistinct ==
    ASSUME WatchInv, TimesInv, DistinctTimes, [Next]_vars
    PROVE  DistinctTimes'
<1>. SUFFICES ASSUME ~CoarseClock PROVE DistinctTimes'
  BY DEF DistinctTimes
<1>1. /\ clock \in Nat /\ clock >= 1
      /\ clock' \in Nat /\ clock' >= clock
  BY ClockGrows DEF WatchInv
<1>2. \A e \in Experiment : store[e].init \in Nat /\ store[e].init < clock
  BY ConstantsOK DEF WatchInv, TypeOK, Object, DistinctTimes
<1>3. InitializeStatus => clock' = clock + 1
  BY DEF InitializeStatus
<1>4. ASSUME NEW e \in Experiment
      PROVE  \/ store'[e].init = store[e].init
             \/ store'[e].init = clock /\ cur = e /\ clock' = clock + 1
  BY <1>3, Joins
<1>5. ASSUME NEW e \in Experiment
      PROVE  store'[e].init < clock'
  BY <1>1, <1>2, <1>4
<1>6. ASSUME NEW e \in Experiment, NEW d \in Experiment, e # d,
             store'[e].init = store'[d].init
      PROVE  store'[e].init = 0
  <2>1. CASE store'[e].init = store[e].init /\ store'[d].init = store[d].init
    BY <1>6, <2>1 DEF DistinctTimes
  <2>2. CASE store'[e].init = clock \/ store'[d].init = clock
    BY <1>1, <1>2, <1>4, <1>6, <2>2
  <2>. QED BY <1>4, <2>1, <2>2
<1>. QED BY <1>5, <1>6 DEF DistinctTimes

(* Stored objects only get later versions.                                 *)
LEMMA StoreLater ==
    ASSUME WatchInv, TimesInv, [Next]_vars, NEW e \in Experiment
    PROVE  Later(store[e], store'[e])
<1>1. store[e] \in Object /\ WellFormed(store[e])
  BY DEF WatchInv, TypeOK, TimesInv
<1>2. CASE store'[e] = store[e]
  BY <1>1, <1>2, LaterOrder
<1>3. CASE store'[e] # store[e]
  <2>1. \/ store[e].phase = "unborn" /\ store'[e] = [phase |-> "new", init |-> 0]
        \/ store'[e] = [store[e] EXCEPT !.phase = "gone"]
        \/ store[e].phase = "new" /\ store'[e] = [phase |-> "waiting", init |-> clock]
        \/ store[e].phase = "waiting" /\ store'[e] = [store[e] EXCEPT !.phase = "owner"]
        \/ IsContender(store[e]) /\ store'[e] = [store[e] EXCEPT !.phase = "done"]
    BY <1>3, StoreChanges
  <2>. QED BY <1>1, <2>1, Ranks DEF Later, WellFormed, IsContender, Object, Phase
<1>. QED BY <1>2, <1>3

-----------------------------------------------------------------------------
(***************************************************************************)
(* The watch shows versions in the order in which they were written.       *)
(***************************************************************************)
VersionsInv ==
    /\ \A e \in Experiment : WellFormed(cache[e]) /\ Later(cache[e], store[e])
    /\ \A i \in 1..Len(pending) :
          /\ WellFormed(pending[i].obj)
          /\ Later(cache[pending[i].exp], pending[i].obj)
          /\ Later(pending[i].obj, store[pending[i].exp])
    /\ \A i, j \in 1..Len(pending) :
          i < j /\ pending[i].exp = pending[j].exp => Later(pending[i].obj, pending[j].obj)

LEMMA PendingTypes ==
    ASSUME TypeOK
    PROVE  /\ Len(pending) \in Nat
           /\ \A i \in 1..Len(pending) : pending[i].exp \in Experiment /\ pending[i].obj \in Object
<1>1. pending \in Seq([exp : Experiment, obj : Object])
  BY DEF TypeOK
<1>2. \A i \in 1..Len(pending) : pending[i] \in [exp : Experiment, obj : Object]
  BY <1>1, ElementOfSeq
<1>. QED BY <1>1, <1>2

(* What a step does to the store and its watch.                            *)
LEMMA WatchStep ==
    ASSUME TypeOK, [Next]_vars
    PROVE  \/ UNCHANGED <<store, cache, pending>>
           \/ \E e \in Experiment : \E o \in Object : Written(e, o)
           \/ Deliver
           \/ Restart /\ store' = store /\ cache' = store /\ pending' = <<>>
<1>1. ASSUME NEW e \in Experiment, Create(e) \/ Delete(e) \/ Edit(e)
      PROVE  \E o \in Object : Written(e, o)
  <2>1. PICK o \in Object : Put(e, o) /\ UNCHANGED cache
    BY <1>1, WrittenObjects DEF Create, Delete, Edit
  <2>. QED BY <2>1, PutIsWritten
<1>2. ASSUME NEW o \in Object, UpdateStatus(o), pc # "idle", UNCHANGED cache
      PROVE  UNCHANGED <<store, cache, pending>> \/ Written(cur, o)
  BY <1>2 DEF UpdateStatus, Written
<1>3. CASE Reconcile /\ ~UNCHANGED <<store, cache, pending>>
  <2>1. InitializeStatus \/ AcquireTarget \/ Proceed \/ EndExperiment
    BY <1>3 DEF Reconcile, AlreadyCompleted, KeepWaiting, TriggerNext, TriggerWaiting
  <2>2. PICK o \in Object : UpdateStatus(o) /\ pc # "idle" /\ UNCHANGED cache
    BY <1>3, <2>1, WrittenObjects DEF InitializeStatus, AcquireTarget, Proceed, EndExperiment
  <2>3. cur \in Experiment
    BY <2>2 DEF TypeOK
  <2>. QED BY <1>2, <1>3, <2>2, <2>3
<1>4. CASE Restart
  BY <1>4 DEF Restart
<1>5. CASE \E e \in Experiment : DeliverRelease(e) \/ Wake(e) \/ Begin(e)
  BY <1>5 DEF DeliverRelease, Wake, Begin
<1>6. CASE Resync \/ Tick \/ UNCHANGED vars
  BY <1>6 DEF Resync, Tick, vars
<1>. QED BY <1>1, <1>3, <1>4, <1>5, <1>6 DEF Next

(* Undelivered events after a write and after a delivery.                  *)
LEMMA WrittenEvents ==
    ASSUME TypeOK, NEW e \in Experiment, NEW o \in Object, Written(e, o)
    PROVE  /\ cache' = cache /\ store' = [store EXCEPT ![e] = o]
           /\ Len(pending) \in Nat /\ Len(pending') = Len(pending) + 1
           /\ \A i \in 1..Len(pending) : pending'[i] = pending[i]
           /\ pending'[Len(pending) + 1].exp = e
           /\ pending'[Len(pending) + 1].obj = o
           /\ \A i \in 1..Len(pending') : i = Len(pending) + 1 \/ i \in 1..Len(pending)
BY PendingAppend DEF Written

LEMMA DeliveredEvents ==
    ASSUME TypeOK, Deliver
    PROVE  /\ store' = store
           /\ Len(pending) \in Nat \ {0} /\ Len(pending') = Len(pending) - 1
           /\ \A i \in 1..Len(pending') : i + 1 \in 2..Len(pending) /\ pending'[i] = pending[i + 1]
           /\ pending[1].exp \in Experiment /\ pending[1].obj \in Object
           /\ cache' = [cache EXCEPT ![pending[1].exp] = pending[1].obj]
<1>1. /\ Len(pending) \in Nat \ {0}
      /\ Len(pending') = Len(pending) - 1
      /\ \A i \in 1..Len(pending') : pending'[i] = pending[i + 1]
      /\ Head(pending) = pending[1]
  BY PendingTail DEF Deliver
<1>2. pending[1].exp \in Experiment /\ pending[1].obj \in Object
  BY <1>1, PendingTypes
<1>3. \A i \in 1..Len(pending') : i + 1 \in 2..Len(pending)
  BY <1>1
<1>4. store' = store /\ cache' = [cache EXCEPT ![pending[1].exp] = pending[1].obj]
  BY <1>1 DEF Deliver
<1>. QED BY <1>1, <1>2, <1>3, <1>4

LEMMA NextVersions ==
    ASSUME WatchInv, TimesInv, VersionsInv, [Next]_vars
    PROVE  VersionsInv'
<1>. SUFFICES /\ \A e \in Experiment : WellFormed(cache'[e]) /\ Later(cache'[e], store'[e])
              /\ \A i \in 1..Len(pending') :
                    /\ WellFormed(pending'[i].obj)
                    /\ Later(cache'[pending'[i].exp], pending'[i].obj)
                    /\ Later(pending'[i].obj, store'[pending'[i].exp])
              /\ \A i, j \in 1..Len(pending') :
                    i < j /\ pending'[i].exp = pending'[j].exp
                       => Later(pending'[i].obj, pending'[j].obj)
  BY DEF VersionsInv, Later, WellFormed, IsContender
<1>1. /\ TypeOK /\ TypeOK'
      /\ \A e \in Experiment :
            /\ store[e] \in Object /\ cache[e] \in Object
            /\ store'[e] \in Object /\ cache'[e] \in Object
            /\ WellFormed(store[e]) /\ WellFormed(store'[e])
            /\ Later(store[e], store'[e])
  BY NextType, NextTimes, StoreLater DEF WatchInv, TypeOK, TimesInv, WellFormed, IsContender
<1>2. /\ Len(pending) \in Nat
      /\ \A i \in 1..Len(pending) : pending[i].exp \in Experiment /\ pending[i].obj \in Object
  BY <1>1, PendingTypes
<1>3. /\ \A e \in Experiment : WellFormed(cache[e]) /\ Later(cache[e], store[e])
      /\ \A i \in 1..Len(pending) :
            /\ WellFormed(pending[i].obj)
            /\ Later(cache[pending[i].exp], pending[i].obj)
            /\ Later(pending[i].obj, store[pending[i].exp])
      /\ \A i, j \in 1..Len(pending) :
            i < j /\ pending[i].exp = pending[j].exp => Later(pending[i].obj, pending[j].obj)
  BY DEF VersionsInv
<1>4. CASE UNCHANGED <<store, cache, pending>>
  BY <1>3, <1>4
<1>5. ASSUME NEW e \in Experiment, NEW o \in Object, Written(e, o)
      PROVE  /\ \A d \in Experiment : WellFormed(cache'[d]) /\ Later(cache'[d], store'[d])
             /\ \A i \in 1..Len(pending') :
                   /\ WellFormed(pending'[i].obj)
                   /\ Later(cache'[pending'[i].exp], pending'[i].obj)
                   /\ Later(pending'[i].obj, store'[pending'[i].exp])
             /\ \A i, j \in 1..Len(pending') :
                   i < j /\ pending'[i].exp = pending'[j].exp
                      => Later(pending'[i].obj, pending'[j].obj)
  <2>. DEFINE n == Len(pending) + 1
  <2>1. /\ cache' = cache /\ store'[e] = o
        /\ Len(pending') = n
        /\ \A i \in 1..Len(pending) : pending'[i] = pending[i]
        /\ pending'[n].exp = e /\ pending'[n].obj = o
        /\ \A i \in 1..Len(pending') : i = n \/ i \in 1..Len(pending)
    <3>1. store \in [Experiment -> Object]
      BY <1>1 DEF TypeOK
    <3>. QED BY <1>1, <1>5, <3>1, WrittenEvents
  <2>2. \A d \in Experiment : WellFormed(cache'[d]) /\ Later(cache'[d], store'[d])
    BY <1>1, <1>3, <2>1, LaterOrder
  <2>3. \A i \in 1..Len(pending) : Later(pending[i].obj, store'[pending[i].exp])
    BY <1>1, <1>2, <1>3, LaterOrder
  <2>4. WellFormed(o) /\ Later(o, o)
    BY <1>1, <2>1, LaterOrder
  <2>5. ASSUME NEW i \in 1..Len(pending')
        PROVE  /\ WellFormed(pending'[i].obj)
               /\ Later(cache'[pending'[i].exp], pending'[i].obj)
               /\ Later(pending'[i].obj, store'[pending'[i].exp])
    BY <1>3, <2>1, <2>2, <2>3, <2>4
  <2>6. ASSUME NEW i \in 1..Len(pending'), NEW j \in 1..Len(pending'), i < j,
               pending'[i].exp = pending'[j].exp
        PROVE  Later(pending'[i].obj, pending'[j].obj)
    <3>1. i \in 1..Len(pending)
      BY <1>2, <2>1, <2>6
    <3>2. CASE j = n
      BY <2>1, <2>3, <2>6, <3>1, <3>2
    <3>3. CASE j # n
      BY <1>3, <2>1, <2>6, <3>1, <3>3
    <3>. QED BY <3>2, <3>3
  <2>. QED BY <2>2, <2>5, <2>6
<1>6. CASE Deliver
  <2>1. /\ store' = store
        /\ Len(pending') = Len(pending) - 1 /\ 1 \in 1..Len(pending)
        /\ \A i \in 1..Len(pending') : i + 1 \in 2..Len(pending) /\ pending'[i] = pending[i + 1]
        /\ cache' = [cache EXCEPT ![pending[1].exp] = pending[1].obj]
    BY <1>1, <1>6, DeliveredEvents
  <2>2. /\ cache'[pending[1].exp] = pending[1].obj
        /\ \A d \in Experiment : d # pending[1].exp => cache'[d] = cache[d]
    BY <1>1, <1>2, <2>1 DEF TypeOK
  <2>3. ASSUME NEW d \in Experiment
        PROVE  WellFormed(cache'[d]) /\ Later(cache'[d], store'[d])
    BY <1>3, <2>1, <2>2
  <2>4. ASSUME NEW i \in 1..Len(pending')
        PROVE  /\ WellFormed(pending'[i].obj)
               /\ Later(cache'[pending'[i].exp], pending'[i].obj)
               /\ Later(pending'[i].obj, store'[pending'[i].exp])
    <3>1. i + 1 \in 1..Len(pending) /\ 1 < i + 1 /\ pending'[i] = pending[i + 1]
      BY <2>1
    <3>2. Later(cache'[pending[i + 1].exp], pending[i + 1].obj)
      BY <1>2, <1>3, <2>1, <2>2, <3>1
    <3>. QED BY <1>3, <2>1, <3>1, <3>2
  <2>5. ASSUME NEW i \in 1..Len(pending'), NEW j \in 1..Len(pending'), i < j,
               pending'[i].exp = pending'[j].exp
        PROVE  Later(pending'[i].obj, pending'[j].obj)
    <3>1. /\ i + 1 \in 1..Len(pending) /\ pending'[i] = pending[i + 1]
          /\ j + 1 \in 1..Len(pending) /\ pending'[j] = pending[j + 1]
          /\ i + 1 < j + 1
      BY <2>1, <2>5
    <3>. QED BY <1>3, <2>5, <3>1
  <2>. QED BY <2>3, <2>4, <2>5
<1>7. CASE store' = store /\ cache' = store /\ pending' = <<>>
  <2>1. Len(pending') = 0
    BY <1>7, EmptySeq
  <2>. QED BY <1>1, <1>7, <2>1, LaterOrder
<1>. QED BY <1>1, <1>4, <1>5, <1>6, <1>7, WatchStep

-----------------------------------------------------------------------------
(***************************************************************************)
(* With distinct InitTimes: who is shown as initialised is shown after     *)
(* everyone who was initialised before, since events keep their order.     *)
(***************************************************************************)
Shown(e) == cache[e].init = store[e].init

(* The cache will show e when it has applied the events before the i-th.   *)
ShownBefore(e, i) ==
    Shown(e) \/ \E j \in 1..Len(pending) :
                   j < i /\ pending[j].exp = e /\ pending[j].obj.init = store[e].init

InOrderOfTimes ==
    \A e \in Experiment :
        store[e].init # 0 =>
            /\ \A d \in Experiment : store[e].init < cache[d].init => Shown(e)
            /\ \A i \in 1..Len(pending) :
                  store[e].init < pending[i].obj.init => ShownBefore(e, i)

(* The worker's instance is no later than what the cache shows of it.      *)
InstanceShown == pc = "run" => Later(obj, cache[cur])

(* No stored contender was initialised before a holder of its target.      *)
HoldersFirst ==
    \A e \in Experiment : \A d \in Rivals(e) :
        store[e].phase = "owner" /\ IsContender(store[d]) => store[e].init <= store[d].init

TimeInv ==
    /\ WatchInv /\ TimesInv /\ DistinctTimes /\ VersionsInv /\ InstanceShown
    /\ ~CoarseClock => InOrderOfTimes

LEMMA Smallest ==
    ASSUME NEW S \in SUBSET Nat, S # {}
    PROVE  \E n \in S : \A m \in S : n <= m
<1>. DEFINE Less == {p \in Nat \X Nat : p[1] < p[2]}
<1>1. IsWellFoundedOn(Less, Nat)
  BY NatLessThanWellFounded DEF OpToRel
<1>2. \E n \in S : \A m \in S : <<m, n>> \notin Less
  <2>. HIDE DEF Less
  <2>. QED BY <1>1, WFMin
<1>3. \A m, n \in Nat : <<m, n>> \notin Less => n <= m
  OBVIOUS
<1>. HIDE DEF Less
<1>. QED BY <1>2, <1>3

(* Whatever is stored is shown, or an event on its way shows it.           *)
LEMMA StoredIsSent ==
    ASSUME TypeOK, CacheFollowsStore, NEW e \in Experiment
    PROVE  \/ cache[e] = store[e]
           \/ \E j \in 1..Len(pending) : pending[j].exp = e /\ pending[j].obj = store[e]
<1>. DEFINE Of == {j \in 1..Len(pending) : pending[j].exp = e}
<1>1. CASE Of = {}
  BY <1>1 DEF CacheFollowsStore, Delivered
<1>2. CASE Of # {}
  <2>1. Len(pending) \in Nat
    BY PendingTypes
  <2>2. PICK m \in Of : \A j \in Of : j <= m
    <3>. DEFINE Left == {Len(pending) - j : j \in Of}
    <3>1. Left \in SUBSET Nat /\ Left # {}
      BY <1>2, <2>1
    <3>2. PICK k \in Left : \A l \in Left : k <= l
      <4>. HIDE DEF Left
      <4>. QED BY <3>1, Smallest
    <3>3. PICK m \in Of : k = Len(pending) - m
      BY <3>2
    <3>4. \A j \in Of : k <= Len(pending) - j
      BY <3>2
    <3>. QED BY <2>1, <3>3, <3>4
  <2>3. LastOfItsKey(m)
    BY <2>1, <2>2 DEF LastOfItsKey
  <2>. QED BY <2>2, <2>3 DEF CacheFollowsStore
<1>. QED BY <1>1, <1>2

LEMMA NextInstance ==
    ASSUME WatchInv, TimesInv, VersionsInv, InstanceShown, [Next]_vars
    PROVE  InstanceShown'
<1>. SUFFICES ASSUME pc' = "run" PROVE Later(obj', cache'[cur'])
  BY DEF InstanceShown, Later
<1>1. /\ TypeOK /\ TypeOK'
      /\ Len(pending) \in Nat
      /\ \A i \in 1..Len(pending) : pending[i].exp \in Experiment /\ pending[i].obj \in Object
  BY NextType, PendingTypes DEF WatchInv
<1>2. ASSUME NEW e \in Experiment, Begin(e) PROVE Later(obj', cache'[cur'])
  <2>1. cache[e] \in Object
    BY <1>1 DEF TypeOK
  <2>. QED BY <1>2, <2>1, LaterOrder DEF Begin
<1>3. ~Reconcile /\ ~Restart
  BY DEF Reconcile, InitializeStatus, AlreadyCompleted, AcquireTarget, KeepWaiting,
         Proceed, EndExperiment, TriggerNext, TriggerWaiting, Restart, Done
<1>4. CASE ~\E e \in Experiment : Begin(e)
  <2>1. pc = "run" /\ UNCHANGED <<cur, obj>>
    BY <1>3, <1>4 DEF Next, Create, Delete, Edit, DeliverRelease, Wake, Deliver, Resync,
                      Tick, vars
  <2>2. Later(obj, cache[cur]) /\ cur \in Experiment
    BY <1>1, <2>1 DEF InstanceShown, TypeOK
  <2>3. CASE Deliver
    <3>1. /\ 1 \in 1..Len(pending)
          /\ cache' = [cache EXCEPT ![pending[1].exp] = pending[1].obj]
      BY <1>1, <2>3, DeliveredEvents
    <3>2. pending[1].exp = cur => Later(cache[cur], pending[1].obj)
      BY <3>1 DEF VersionsInv
    <3>3. obj \in Object /\ cache[cur] \in Object /\ pending[1].obj \in Object
      BY <1>1, <2>2, <3>1 DEF TypeOK
    <3>4. CASE pending[1].exp = cur
      <4>1. cache'[cur] = pending[1].obj
        BY <1>1, <2>2, <3>1, <3>4 DEF TypeOK
      <4>. QED BY <2>1, <2>2, <3>2, <3>3, <3>4, <4>1, LaterOrder
    <3>5. CASE pending[1].exp # cur
      BY <1>1, <2>1, <2>2, <3>1, <3>5 DEF TypeOK
    <3>. QED BY <3>4, <3>5
  <2>4. CASE ~Deliver
    <3>1. cache' = cache
      BY <1>3, <1>4, <2>4 DEF Next, Create, Delete, Edit, DeliverRelease, Wake, Resync,
                              Tick, vars
    <3>. QED BY <2>1, <2>2, <3>1
  <2>. QED BY <2>3, <2>4
<1>. QED BY <1>2, <1>4

LEMMA NextInOrder ==
    ASSUME WatchInv, TimesInv, DistinctTimes, VersionsInv, InOrderOfTimes, [Next]_vars,
           ~CoarseClock
    PROVE  InOrderOfTimes'
<1>1. /\ TypeOK /\ TypeOK' /\ CacheFollowsStore'
      /\ Len(pending) \in Nat
      /\ \A i \in 1..Len(pending) : pending[i].exp \in Experiment /\ pending[i].obj \in Object
  BY NextType, NextKeepsCache, PendingTypes DEF WatchInv
<1>2. \A e \in Experiment :
         /\ store[e].init \in Nat /\ cache[e].init \in Nat
         /\ store'[e].init \in Nat /\ cache'[e].init \in Nat
  BY <1>1, ConstantsOK DEF TypeOK, Object
<1>3. \A i \in 1..Len(pending) : pending[i].obj.init \in Nat
  BY <1>1, ConstantsOK DEF Object
<1>4. clock \in Nat
  BY ClockGrows DEF WatchInv
(* Nothing shown or sent is as late as the clock.                          *)
<1>5. /\ \A e \in Experiment : store[e].init < clock /\ cache[e].init < clock
      /\ \A i \in 1..Len(pending) : pending[i].obj.init < clock
  <2>1. \A e \in Experiment : store[e].init < clock
    BY DEF DistinctTimes
  <2>2. ASSUME NEW e \in Experiment PROVE cache[e].init < clock
    <3>1. cache[e].init = 0 \/ cache[e].init = store[e].init
      BY DEF VersionsInv, Later
    <3>. QED BY <1>2, <1>4, <2>1, <3>1
  <2>3. ASSUME NEW i \in 1..Len(pending) PROVE pending[i].obj.init < clock
    <3>1. pending[i].obj.init = 0 \/ pending[i].obj.init = store[pending[i].exp].init
      BY DEF VersionsInv, Later
    <3>. QED BY <1>1, <1>2, <1>4, <2>1, <3>1
  <2>. QED BY <2>1, <2>2, <2>3
<1>. SUFFICES ASSUME NEW e \in Experiment, store'[e].init # 0
              PROVE  /\ \A d \in Experiment : store'[e].init < cache'[d].init => Shown(e)'
                     /\ \A i \in 1..Len(pending') :
                           store'[e].init < pending'[i].obj.init => ShownBefore(e, i)'
  BY DEF InOrderOfTimes
<1>6. CASE UNCHANGED <<store, cache, pending>>
  BY <1>6 DEF InOrderOfTimes, Shown, ShownBefore
<1>7. ASSUME NEW c \in Experiment, NEW o \in Object, Written(c, o)
      PROVE  /\ \A d \in Experiment : store'[e].init < cache'[d].init => Shown(e)'
             /\ \A i \in 1..Len(pending') :
                   store'[e].init < pending'[i].obj.init => ShownBefore(e, i)'
  <2>. DEFINE n == Len(pending) + 1
  <2>1. /\ cache' = cache /\ store'[c] = o
        /\ Len(pending') = n
        /\ \A i \in 1..Len(pending) : pending'[i] = pending[i]
        /\ pending'[n].exp = c /\ pending'[n].obj = o
        /\ \A i \in 1..Len(pending') : i = n \/ i \in 1..Len(pending)
    BY <1>1, <1>7, WrittenEvents DEF TypeOK
  <2>2. store'[e].init = store[e].init \/ store'[e].init = clock
    BY Joins
  <2>3. ASSUME NEW d \in Experiment, store'[e].init < cache'[d].init
        PROVE  Shown(e)'
    BY <1>2, <1>4, <1>5, <2>1, <2>2, <2>3 DEF InOrderOfTimes, Shown
  <2>4. ASSUME NEW i \in 1..Len(pending), store'[e].init < pending'[i].obj.init
        PROVE  ShownBefore(e, i)'
    <3>1. store'[e].init = store[e].init /\ store[e].init < pending[i].obj.init
      BY <1>2, <1>3, <1>4, <1>5, <2>1, <2>2, <2>4
    <3>2. ShownBefore(e, i)
      BY <3>1 DEF InOrderOfTimes
    <3>3. CASE Shown(e)
      BY <2>1, <3>1, <3>3 DEF Shown, ShownBefore
    <3>4. CASE ~Shown(e)
      <4>1. PICK j \in 1..Len(pending) :
              j < i /\ pending[j].exp = e /\ pending[j].obj.init = store[e].init
        BY <3>2, <3>4 DEF ShownBefore
      <4>2. j \in 1..Len(pending') /\ pending'[j] = pending[j]
        BY <1>1, <2>1
      <4>. QED BY <3>1, <4>1, <4>2 DEF ShownBefore
    <3>. QED BY <3>3, <3>4
  <2>5. ASSUME NEW i \in 1..Len(pending'), i = n, store'[e].init < pending'[i].obj.init
        PROVE  ShownBefore(e, i)'
    <3>1. e # c
      BY <1>2, <2>1, <2>5
    <3>2. store'[e] = store[e]
      BY <1>7, <3>1 DEF Written, TypeOK, WatchInv
    <3>3. CASE cache[e] = store[e]
      BY <2>1, <3>2, <3>3 DEF ShownBefore, Shown
    <3>4. CASE cache[e] # store[e]
      <4>1. PICK j \in 1..Len(pending) : pending[j].exp = e /\ pending[j].obj = store[e]
        BY <1>1, <3>4, StoredIsSent DEF WatchInv
      <4>2. j \in 1..Len(pending') /\ j < i /\ pending'[j] = pending[j]
        BY <1>1, <2>1, <2>5
      <4>. QED BY <3>2, <4>1, <4>2 DEF ShownBefore
    <3>. QED BY <3>3, <3>4
  <2>6. ASSUME NEW i \in 1..Len(pending'), store'[e].init < pending'[i].obj.init
        PROVE  ShownBefore(e, i)'
    <3>1. CASE i = n
      BY <2>5, <2>6, <3>1
    <3>2. CASE i # n
      BY <2>1, <2>4, <2>6, <3>2
    <3>. QED BY <3>1, <3>2
  <2>. QED BY <2>3, <2>6
<1>8. CASE Deliver
  <2>1. /\ store' = store
        /\ Len(pending') = Len(pending) - 1 /\ 1 \in 1..Len(pending)
        /\ \A i \in 1..Len(pending') : i + 1 \in 2..Len(pending) /\ pending'[i] = pending[i + 1]
        /\ cache' = [cache EXCEPT ![pending[1].exp] = pending[1].obj]
    BY <1>1, <1>8, DeliveredEvents
  <2>2. /\ cache'[pending[1].exp] = pending[1].obj
        /\ \A d \in Experiment : d # pending[1].exp => cache'[d] = cache[d]
    BY <1>1, <2>1 DEF TypeOK
  <2>3. Shown(e) => Shown(e)'
    <3>1. pending[1].exp = e => Later(cache[e], pending[1].obj)
      BY <2>1 DEF VersionsInv
    <3>. QED BY <2>1, <2>2, <3>1 DEF Shown, Later
  <2>4. ASSUME NEW d \in Experiment, store'[e].init < cache'[d].init
        PROVE  Shown(e)'
    <3>1. CASE d = pending[1].exp
      <4>1. ShownBefore(e, 1)
        BY <2>1, <2>2, <2>4, <3>1 DEF InOrderOfTimes
      <4>2. Shown(e)
        BY <4>1 DEF ShownBefore
      <4>. QED BY <2>3, <4>2
    <3>2. CASE d # pending[1].exp
      BY <2>1, <2>2, <2>3, <2>4, <3>2 DEF InOrderOfTimes
    <3>. QED BY <3>1, <3>2
  <2>5. ASSUME NEW i \in 1..Len(pending'), store'[e].init < pending'[i].obj.init
        PROVE  ShownBefore(e, i)'
    <3>1. i + 1 \in 1..Len(pending) /\ pending'[i] = pending[i + 1]
      BY <2>1
    <3>2. ShownBefore(e, i + 1)
      BY <2>1, <2>5, <3>1 DEF InOrderOfTimes
    <3>3. CASE Shown(e)
      BY <2>3, <3>3 DEF ShownBefore
    <3>4. CASE ~Shown(e)
      <4>1. PICK j \in 1..Len(pending) :
              j < i + 1 /\ pending[j].exp = e /\ pending[j].obj.init = store[e].init
        BY <3>2, <3>4 DEF ShownBefore
      <4>2. CASE j = 1
        BY <2>1, <2>2, <4>1, <4>2 DEF ShownBefore, Shown
      <4>3. CASE j # 1
        <5>1. /\ j - 1 \in 1..Len(pending') /\ j - 1 < i
              /\ pending'[j - 1] = pending[(j - 1) + 1] /\ (j - 1) + 1 = j
          BY <1>1, <2>1, <4>1, <4>3
        <5>. QED BY <2>1, <4>1, <5>1 DEF ShownBefore
      <4>. QED BY <4>2, <4>3
    <3>. QED BY <3>3, <3>4
  <2>. QED BY <2>4, <2>5
<1>9. CASE store' = store /\ cache' = store /\ pending' = <<>>
  <2>1. Len(pending') = 0
    BY <1>9, EmptySeq
  <2>. QED BY <1>9, <2>1 DEF Shown
<1>. QED BY <1>1, <1>6, <1>7, <1>8, <1>9, WatchStep

-----------------------------------------------------------------------------
(***************************************************************************)
(* Exclusion and order.                                                    *)
(***************************************************************************)
LEMMA TimeAlways == Spec => []TimeInv
<1>1. Init => TimesInv /\ DistinctTimes /\ VersionsInv /\ InstanceShown /\ InOrderOfTimes
  <2>. SUFFICES ASSUME Init
                PROVE  TimesInv /\ DistinctTimes /\ VersionsInv /\ InstanceShown /\ InOrderOfTimes
    OBVIOUS
  <2>1. Len(pending) = 0
    BY EmptySeq DEF Init
  <2>2. \A e \in Experiment : store[e] = Unborn /\ cache[e] = Unborn
    BY DEF Init
  <2>3. WellFormed(Unborn) /\ Later(Unborn, Unborn) /\ Unborn.init = 0
    BY UnbornType, LaterOrder DEF WellFormed, Unborn, IsContender
  <2>4. clock = 1 /\ pc = "idle"
    BY DEF Init
  <2>. QED BY <2>1, <2>2, <2>3, <2>4 DEF TimesInv, DistinctTimes, VersionsInv, InstanceShown,
                                         InOrderOfTimes
<1>2. Init /\ WatchInv => TimeInv
  BY <1>1 DEF TimeInv
<1>3. TimeInv /\ WatchInv' /\ [Next]_vars => TimeInv'
  BY NextTimes, NextDistinct, NextVersions, NextInstance, NextInOrder DEF TimeInv
<1>. QED BY <1>2, <1>3, WatchInvariant, PTL DEF Spec

(* A stale cache does not hide an earlier contender from one that has been *)
(* shown itself: who acquires is the first.                                *)
LEMMA AcquiresAsFirst ==
    ASSUME ~CoarseClock, TimeInv, HoldersFirst, [Next]_vars, NEW e \in Experiment,
           store[e].phase # "owner", store'[e].phase = "owner"
    PROVE  \A d \in Rivals(e) :
              IsContender(store[d]) =>
                  store[d].phase = "waiting" /\ store[d].init >= store[e].init
<1>1. /\ AcquireTarget /\ cur = e /\ current
      /\ obj = store[e] /\ store[e].phase = "waiting" /\ pc = "run"
  BY OnlyAcquireMakesOwner DEF TimeInv, AcquireTarget
<1>. SUFFICES ASSUME NEW d \in Rivals(e), IsContender(store[d])
              PROVE  store[d].phase = "waiting" /\ store[d].init >= store[e].init
  OBVIOUS
<1>2. d \in Experiment /\ d # e /\ TargetOf[d] = TargetOf[e] /\ e \in Rivals(d)
  BY DEF Rivals
<1>3. /\ store[e] \in Object /\ store[d] \in Object /\ cache[d] \in Object
      /\ store[e].init \in Nat /\ store[d].init \in Nat
  BY <1>2, ConstantsOK DEF TimeInv, WatchInv, TypeOK, Object
<1>4. store[d].init # 0 /\ store[e].init # 0 /\ IsContender(store[e])
  BY <1>1, <1>2 DEF TimeInv, TimesInv, WellFormed, IsContender
<1>5. cache[e].init = store[e].init
  BY <1>1, <1>4 DEF TimeInv, InstanceShown, Later
<1>6. store[d].init >= store[e].init
  <2>. SUFFICES ASSUME store[d].init < store[e].init PROVE FALSE
    BY <1>3
  <2>1. cache[d].init = store[d].init
    BY <1>2, <1>4, <1>5 DEF TimeInv, InOrderOfTimes, Shown
  <2>2. WellFormed(cache[d]) /\ Later(cache[d], store[d])
    BY <1>2 DEF TimeInv, VersionsInv
  <2>3. IsContender(cache[d])
    BY <1>3, <1>4, <2>1, <2>2, StaysContender
  <2>4. d \in ActiveContenders(TargetOf[e]) \ {e}
    BY <1>2, <2>3 DEF ActiveContenders
  <2>5. cache[d].init >= obj.init
    BY <1>1, <2>4 DEF AcquireTarget, CanAcquire
  <2>. QED BY <1>1, <1>3, <2>1, <2>5
<1>7. store[d].phase # "owner"
  <2>. SUFFICES ASSUME store[d].phase = "owner" PROVE FALSE
    OBVIOUS
  <2>1. store[d].init <= store[e].init
    BY <1>2, <1>4 DEF HoldersFirst
  <2>2. store[d].init = store[e].init
    BY <1>3, <1>6, <2>1
  <2>. QED BY <1>2, <1>4, <2>2 DEF TimeInv, DistinctTimes
<1>. QED BY <1>6, <1>7 DEF IsContender

(* Who takes a target takes a free one, before all later contenders.       *)
LEMMA TakesFreeTarget ==
    ASSUME FreshReads \/ ~CoarseClock, TimeInv, HoldersFirst, [Next]_vars,
           NEW e \in Experiment, store[e].phase # "owner", store'[e].phase = "owner"
    PROVE  /\ store[e].phase = "waiting"
           /\ store'[e] = [store[e] EXCEPT !.phase = "owner"]
           /\ \A d \in Rivals(e) :
                 IsContender(store[d]) =>
                     store[d].phase = "waiting" /\ store[d].init >= store[e].init
<1>1. WatchInv
  BY DEF TimeInv
<1>2. /\ AcquireTarget /\ cur = e /\ current
      /\ obj = store[e] /\ store[e].phase = "waiting"
  BY <1>1, OnlyAcquireMakesOwner
<1>3. store'[e] = [store[e] EXCEPT !.phase = "owner"]
  BY <1>1, <1>2 DEF AcquireTarget, UpdateStatus, WatchInv, TypeOK
<1>. QED BY <1>1, <1>2, <1>3, AcquiresFreeTarget, AcquiresAsFirst

LEMMA NextHolders ==
    ASSUME FreshReads \/ ~CoarseClock, TimeInv, HoldersFirst, [Next]_vars
    PROVE  HoldersFirst'
<1>. SUFFICES ASSUME NEW e \in Experiment, NEW d \in Rivals(e),
                     store'[e].phase = "owner", IsContender(store'[d])
              PROVE  store'[e].init <= store'[d].init
  BY DEF HoldersFirst, Rivals, IsContender
<1>1. d \in Experiment /\ d # e /\ e \in Rivals(d)
  BY DEF Rivals
<1>2. /\ store[e] \in Object /\ store[d] \in Object
      /\ store[e].init \in Nat /\ store[d].init \in Nat /\ clock \in Nat
      /\ store[e].init <= clock
  BY <1>1, ConstantsOK, ClockGrows DEF TimeInv, WatchInv, TypeOK, Object, TimesInv
<1>3. store'[e].init = store[e].init
  <2>. SUFFICES ASSUME store'[e].init # store[e].init PROVE FALSE
    OBVIOUS
  <2>1. store'[e].phase = "waiting"
    BY Joins DEF TimeInv
  <2>. QED BY <2>1
<1>4. CASE store'[d].init # store[d].init
  <2>1. store'[d].init = clock
    BY <1>1, <1>4, Joins DEF TimeInv
  <2>. QED BY <1>2, <1>3, <2>1
<1>5. CASE store'[d].init = store[d].init
  <2>1. IsContender(store[d])
    <3>1. CASE store'[d] = store[d]
      BY <3>1
    <3>2. CASE store'[d] # store[d]
      <4>1. \/ store'[d] = [phase |-> "new", init |-> 0]
            \/ store'[d] = [store[d] EXCEPT !.phase = "gone"]
            \/ store[d].phase = "new" /\ store'[d] = [phase |-> "waiting", init |-> clock]
            \/ store[d].phase = "waiting"
            \/ IsContender(store[d])
        BY <1>1, <3>2, StoreChanges DEF TimeInv
      <4>2. clock # 0
        BY ClockGrows DEF TimeInv, WatchInv
      <4>3. store[d].phase = "new" => store[d].init = 0
        BY <1>1 DEF TimeInv, TimesInv, WellFormed
      <4>. QED BY <1>2, <1>5, <4>1, <4>2, <4>3 DEF IsContender, Object
    <3>. QED BY <3>1, <3>2
  <2>2. CASE store[e].phase = "owner"
    BY <1>3, <1>5, <2>1, <2>2 DEF HoldersFirst
  <2>3. CASE store[e].phase # "owner"
    BY <1>3, <1>5, <2>1, <2>3, TakesFreeTarget
  <2>. QED BY <2>2, <2>3
<1>. QED BY <1>4, <1>5

LEMMA HoldersAlways == FreshReads \/ ~CoarseClock => (Spec => []HoldersFirst)
<1>. SUFFICES ASSUME FreshReads \/ ~CoarseClock PROVE Spec => []HoldersFirst
  OBVIOUS
<1>1. Init => HoldersFirst
  BY DEF Init, HoldersFirst, Unborn, Rivals
<1>2. TimeInv /\ HoldersFirst /\ [Next]_vars => HoldersFirst'
  BY NextHolders
<1>. QED BY <1>1, <1>2, TimeAlways, PTL DEF Spec

(* Two experiments never run for one target, however stale the reads are,  *)
(* if no two are initialised in one second (experiment_types.go:61): the   *)
(* one that is shown late has been initialised late.                       *)
THEOREM DistinctTimesExclude == ~CoarseClock => (Spec => []MutualExclusion)
<1>. SUFFICES ASSUME ~CoarseClock PROVE Spec => []MutualExclusion
  OBVIOUS
<1>1. TimeInv /\ HoldersFirst => MutualExclusion
  <2>. SUFFICES ASSUME TimeInv, HoldersFirst, NEW e \in Experiment, NEW d \in Rivals(e),
                       store[e].phase = "owner", store[d].phase = "owner"
                PROVE  FALSE
    BY DEF MutualExclusion
  <2>1. d \in Experiment /\ d # e /\ e \in Rivals(d)
    BY DEF Rivals
  <2>2. store[e].init \in Nat /\ store[d].init \in Nat
    BY <2>1, ConstantsOK DEF TimeInv, WatchInv, TypeOK, Object
  <2>3. store[e].init <= store[d].init /\ store[d].init <= store[e].init
    BY <2>1 DEF HoldersFirst, IsContender
  <2>4. store[e].init # 0
    BY DEF TimeInv, TimesInv, WellFormed, IsContender
  <2>. QED BY <2>1, <2>2, <2>3, <2>4 DEF TimeInv, DistinctTimes
<1>. QED BY <1>1, TimeAlways, HoldersAlways, PTL

(* A target goes to the contender with the earliest InitTime               *)
(* (target.go:44-66), if reads are up to date or InitTimes distinct.       *)
THEOREM TakenInOrder == FreshReads \/ ~CoarseClock => (Spec => AcquiresInOrder)
<1>. SUFFICES ASSUME FreshReads \/ ~CoarseClock PROVE Spec => AcquiresInOrder
  OBVIOUS
<1>. DEFINE InOrder ==
       \A e \in Experiment :
          store[e].phase # "owner" /\ store'[e].phase = "owner" =>
              \A d \in Rivals(e) :
                  IsContender(store[d]) => store[d].init >= store[e].init
<1>1. TimeInv /\ HoldersFirst /\ [Next]_vars => [InOrder]_vars
  BY TakesFreeTarget
<1>. QED BY <1>1, TimeAlways, HoldersAlways, PTL DEF Spec, AcquiresInOrder

-----------------------------------------------------------------------------
(***************************************************************************)
(* The refinement.                                                         *)
(***************************************************************************)
modes == [e \in Experiment |-> Mode(store[e])]
tickets == [e \in Experiment |-> store[e].init]

LEMMA ModeOf ==
    ASSUME NEW o \in Object
    PROVE  /\ Mode(o) # "out" <=> IsContender(o)
           /\ Mode(o) = "waiting" <=> o.phase = "waiting"
           /\ Mode(o) = "holding" <=> o.phase = "owner"
BY DEF Mode, IsContender, Object, Phase

(* One experiment changes at a time.                                       *)
LEMMA OneAtATime ==
    ASSUME WatchInv, [Next]_vars, store' # store
    PROVE  \E e \in Experiment : \E o \in Object :
              o # store[e] /\ store' = [store EXCEPT ![e] = o]
<1>1. store \in [Experiment -> Object] /\ TypeOK
  BY DEF WatchInv, TypeOK
<1>2. PICK e \in Experiment, o \in Object : store' = [store EXCEPT ![e] = o]
  BY <1>1, WatchStep DEF Written, Deliver
<1>. QED BY <1>1, <1>2

LEMMA NextTurn ==
    ASSUME FreshReads \/ ~CoarseClock, TimeInv, HoldersFirst, [Next]_vars
    PROVE  [Turns!Next]_(Turns!vars)
<1>. USE DEF modes, tickets
<1>1. /\ store \in [Experiment -> Object] /\ store' \in [Experiment -> Object]
      /\ WatchInv /\ TimesInv /\ TypeOK
  BY NextType DEF TimeInv, WatchInv, TypeOK
<1>2. clock \in 1..MaxTime
  BY <1>1 DEF TypeOK
<1>3. CASE store' = store
  BY <1>3 DEF Turns!vars
<1>4. CASE store' # store
  <2>1. PICK e \in Experiment, o \in Object :
          o # store[e] /\ store' = [store EXCEPT ![e] = o]
    BY <1>1, <1>4, OneAtATime
  <2>2. /\ store'[e] = o /\ store'[e] # store[e]
        /\ \A d \in Experiment : d # e => store'[d] = store[d]
    BY <1>1, <2>1
  <2>3. modes' = [modes EXCEPT ![e] = Mode(o)]
    BY <1>1, <2>1, <2>2
  <2>4. tickets' = [tickets EXCEPT ![e] = o.init]
    BY <1>1, <2>1, <2>2
  <2>5. /\ modes[e] = Mode(store[e]) /\ tickets[e] = store[e].init
        /\ store[e] \in Object /\ WellFormed(store[e])
    BY <1>1 DEF TimesInv
  <2>6. o.init = store[e].init => tickets' = tickets
    BY <1>1, <2>2
  <2>7. Mode(o) = Mode(store[e]) => modes' = modes
    BY <1>1, <2>2
  <2>8. CASE o.init # store[e].init
    <3>1. store[e].phase = "new" /\ o = [phase |-> "waiting", init |-> clock]
      BY <1>1, <2>2, <2>8, Joins
    <3>2. PICK t \in 1..MaxTime : t = clock
      BY <1>2
    <3>3. modes[e] = "out" /\ Mode(o) = "waiting" /\ o.init = t
      BY <2>5, <3>1, <3>2 DEF Mode
    <3>4. \A d \in Experiment : tickets[d] <= t
      BY <1>1, <3>2 DEF TimesInv
    <3>5. Turns!Join(e, t)
      BY <2>3, <2>4, <3>3, <3>4 DEF Turns!Join
    <3>. QED BY <3>5 DEF Turns!Next
  <2>9. CASE o.init = store[e].init /\ o.phase = "owner" /\ store[e].phase # "owner"
    <3>1. /\ store[e].phase = "waiting"
          /\ \A d \in Rivals(e) :
                IsContender(store[d]) =>
                    store[d].phase = "waiting" /\ store[d].init >= store[e].init
      BY <2>2, <2>9, TakesFreeTarget
    <3>2. modes[e] = "waiting" /\ Mode(o) = "holding"
      BY <2>5, <2>9, <3>1 DEF Mode
    <3>3. ASSUME NEW d \in Experiment \ {e}, TargetOf[d] = TargetOf[e], modes[d] # "out"
          PROVE  modes[d] = "waiting" /\ tickets[e] <= tickets[d]
      <4>1. d \in Rivals(e) /\ store[d] \in Object /\ modes[d] = Mode(store[d])
        BY <1>1, <3>3 DEF Rivals
      <4>2. IsContender(store[d])
        BY <3>3, <4>1, ModeOf
      <4>3. store[d].phase = "waiting" /\ store[d].init >= store[e].init
        BY <3>1, <4>1, <4>2
      <4>4. store[d].init \in Nat /\ store[e].init \in Nat
        BY <2>5, <4>1, ConstantsOK DEF Object
      <4>. QED BY <2>5, <4>1, <4>3, <4>4 DEF Mode
    <3>4. Turns!Acquire(e)
      BY <2>3, <2>6, <2>9, <3>2, <3>3 DEF Turns!Acquire, Turns!Competitors
    <3>. QED BY <3>4 DEF Turns!Next
  <2>10. CASE o.init = store[e].init /\ ~(o.phase = "owner" /\ store[e].phase # "owner")
    <3>1. \/ store[e].phase = "unborn" /\ o = [phase |-> "new", init |-> 0]
          \/ o = [store[e] EXCEPT !.phase = "gone"]
          \/ store[e].phase = "new" /\ o = [phase |-> "waiting", init |-> clock]
          \/ o = [store[e] EXCEPT !.phase = "done"]
      BY <2>2, <2>5, <2>10, <1>1, StoreChanges DEF Object
    <3>2. ~(store[e].phase = "new" /\ o = [phase |-> "waiting", init |-> clock])
      BY <1>2, <2>5, <2>10 DEF WellFormed
    <3>3. Mode(o) = "out"
      BY <2>5, <3>1, <3>2 DEF Mode, Object
    <3>4. CASE modes[e] = "out"
      BY <2>5, <2>6, <2>7, <2>10, <3>3, <3>4 DEF Turns!vars
    <3>5. CASE modes[e] # "out"
      <4>1. Turns!Leave(e)
        BY <2>3, <2>6, <2>10, <3>3, <3>5 DEF Turns!Leave
      <4>. QED BY <4>1 DEF Turns!Next
    <3>. QED BY <3>4, <3>5
  <2>. QED BY <2>8, <2>9, <2>10
<1>. QED BY <1>3, <1>4

(* Every step of the controller and of others on the stored experiments is *)
(* a turn of the ticket lock or changes nothing the lock is about, if      *)
(* reads are up to date or InitTimes distinct: experiments take turns on a *)
(* target (experiment_types.go:61) in the order of target.go:44-66.        *)
THEOREM ImplementsTicketLock == FreshReads \/ ~CoarseClock => (Spec => TakesTurns)
<1>. SUFFICES ASSUME FreshReads \/ ~CoarseClock PROVE Spec => TakesTurns
  OBVIOUS
<1>1. Init => Turns!Init
  BY UnbornType DEF Init, Turns!Init, Mode, Unborn
<1>2. TimeInv /\ HoldersFirst /\ [Next]_vars => [Turns!Next]_(Turns!vars)
  BY NextTurn
<1>. QED BY <1>1, <1>2, TimeAlways, HoldersAlways, PTL DEF Spec, TakesTurns, Turns!Spec

-----------------------------------------------------------------------------
(***************************************************************************)
(* With reads that are up to date, nobody waits for a free target.         *)
(***************************************************************************)

(* What the cache or an event shows of a contender is what is stored,      *)
(* unless the experiment has been deleted since.                           *)
Matches(o, s) == s.phase = "gone" \/ (IsContender(o) \/ IsContender(s) => o = s)

(* While the worker decides and triggers it sees all contenders, except    *)
(* that it triggers after its own last write.                              *)
Sight ==
    FreshReads /\ pc # "idle" =>
        \A d \in Experiment :
            d # cur \/ pc # "trigger" =>
                /\ Matches(cache[d], store[d])
                /\ \A i \in 1..Len(pending) :
                      pending[i].exp = d => Matches(pending[i].obj, store[d])

(* A request for e is due, or an event on its way makes one due.           *)
Noticed(e) == e \in queue \/ ~Delivered(e)

(* The write that made the worker's own fail is noticed.                   *)
ConflictNoticed ==
    FreshReads /\ (pc = "trigger" \/ (pc = "run" /\ ~current)) /\ IsContender(store[cur])
        => Noticed(cur)

(* Whose turn it is. *)
Earliest(e) ==
    /\ store[e].phase = "waiting"
    /\ \A d \in Rivals(e) : IsContender(store[d]) => store[e].init <= store[d].init

Awaited(e) == Noticed(e) \/ e \in released

(* Something is under way that will look who is next for the target: a     *)
(* search for waiting experiments, a deletion that will lead to one, or a  *)
(* request for an experiment whose turn it is.                             *)
Due(t) ==
    \/ pc = "sweep"
    \/ pc = "trigger" /\ TargetOf[cur] = t
    \/ \E d \in Experiment : store[d].phase = "gone" /\ Noticed(d)
    \/ \E m \in Experiment :
          TargetOf[m] = t /\ Earliest(m) /\ (Awaited(m) \/ (pc = "run" /\ cur = m))

Held(t) == \E d \in Experiment : TargetOf[d] = t /\ store[d].phase = "owner"

WakeInv ==
    FreshReads =>
        \A e \in Experiment : store[e].phase = "waiting" => Held(TargetOf[e]) \/ Due(TargetOf[e])

LEMMA SeenOrNoticed ==
    ASSUME TypeOK, CacheFollowsStore, NEW d \in Experiment, cache[d] # store[d]
    PROVE  Noticed(d)
BY DEF CacheFollowsStore, Noticed

LEMMA NextSight ==
    ASSUME WatchInv, Sight, [Next]_vars
    PROVE  Sight'
<1>. SUFFICES ASSUME FreshReads, pc' # "idle", NEW d \in Experiment,
                     d # cur' \/ pc' # "trigger"
              PROVE  /\ Matches(cache'[d], store'[d])
                     /\ \A i \in 1..Len(pending') :
                           pending'[i].exp = d => Matches(pending'[i].obj, store'[d])
  BY DEF Sight, Matches, IsContender
<1>1. /\ TypeOK /\ TypeOK' /\ CacheFollowsStore
      /\ Len(pending) \in Nat
      /\ \A i \in 1..Len(pending) : pending[i].exp \in Experiment /\ pending[i].obj \in Object
  BY NextType, PendingTypes DEF WatchInv
<1>2. ASSUME NEW e \in Experiment, Begin(e)
      PROVE  /\ Matches(cache'[d], store'[d])
             /\ \A i \in 1..Len(pending') :
                   pending'[i].exp = d => Matches(pending'[i].obj, store'[d])
  <2>1. Len(pending) = 0 /\ pending' = pending
    BY <1>2, EmptySeq DEF Begin
  <2>2. cache[d] = store[d]
    BY <1>1, <2>1 DEF CacheFollowsStore, Delivered
  <2>. QED BY <1>2, <2>1, <2>2 DEF Begin, Matches
<1>3. ~Restart
  BY DEF Restart, Done
<1>4. CASE ~\E e \in Experiment : Begin(e)
  <2>1. pc # "idle" /\ cur' = cur /\ (d # cur \/ pc # "trigger" \/ pc' = "trigger")
    BY <1>3, <1>4 DEF Next, Create, Delete, Edit, DeliverRelease, Wake, Deliver, Resync, Tick,
                      Reconcile, InitializeStatus, AlreadyCompleted, AcquireTarget, KeepWaiting,
                      Proceed, EndExperiment, TriggerNext, TriggerWaiting, Done, vars
  <2>2. pc' = "trigger" => d # cur
    BY <2>1
  <2>3. /\ Matches(cache[d], store[d])
        /\ \A i \in 1..Len(pending) :
              pending[i].exp = d => Matches(pending[i].obj, store[d])
    BY <2>1, <2>2 DEF Sight
  <2>4. CASE UNCHANGED <<store, cache, pending>>
    BY <2>3, <2>4
  <2>5. ASSUME NEW e \in Experiment, NEW o \in Object, Written(e, o)
        PROVE  /\ Matches(cache'[d], store'[d])
               /\ \A i \in 1..Len(pending') :
                     pending'[i].exp = d => Matches(pending'[i].obj, store'[d])
    <3>1. /\ cache' = cache /\ store' = [store EXCEPT ![e] = o]
          /\ Len(pending') = Len(pending) + 1
          /\ \A i \in 1..Len(pending) : pending'[i] = pending[i]
          /\ pending'[Len(pending) + 1].exp = e
          /\ pending'[Len(pending) + 1].obj = o
          /\ \A i \in 1..Len(pending') : i = Len(pending) + 1 \/ i \in 1..Len(pending)
      BY <1>1, <2>5, WrittenEvents
    <3>2. store \in [Experiment -> Object]
      BY <1>1 DEF TypeOK
    <3>3. CASE e # d
      <4>1. store'[d] = store[d]
        BY <3>1, <3>2, <3>3
      <4>. QED BY <2>3, <3>1, <3>3, <4>1
    <3>4. CASE e = d
      <4>1. store'[d] = o
        BY <3>1, <3>2, <3>4
      <4>2. o = store[d] \/ o.phase = "gone" \/ (store[d].phase = "unborn" /\ o.phase = "new")
        <5>1. ASSUME o # store[d], Reconcile PROVE FALSE
          <6>1. EndExperiment
            BY <5>1 DEF Reconcile, InitializeStatus, AlreadyCompleted, AcquireTarget, KeepWaiting,
                      Proceed, TriggerNext, TriggerWaiting, Done
          <6>2. d # cur
            BY <2>1, <6>1 DEF EndExperiment
          <6>3. cur \in Experiment /\ store' # store
            BY <1>1, <2>1, <3>2, <4>1, <5>1 DEF TypeOK
          <6>4. store' = [store EXCEPT ![cur] = [obj EXCEPT !.phase = "done"]]
            BY <6>1, <6>3 DEF EndExperiment, UpdateStatus
          <6>. QED BY <3>2, <4>1, <5>1, <6>2, <6>3, <6>4
        <5>2. ASSUME o # store[d], ~Reconcile
              PROVE  o.phase = "gone" \/ (store[d].phase = "unborn" /\ o.phase = "new")
          <6>1. \/ /\ Create(d) /\ store[d].phase = "unborn"
                   /\ store'[d] = [phase |-> "new", init |-> 0]
                \/ store'[d] = [store[d] EXCEPT !.phase = "gone"]
            BY <4>1, <5>2, StoreChanges DEF Reconcile
          <6>. QED BY <1>1, <4>1, <6>1 DEF TypeOK, Object
        <5>. QED BY <5>1, <5>2
      <4>3. Matches(o, o)
        BY DEF Matches
      <4>4. ASSUME NEW x, Matches(x, store[d]) PROVE Matches(x, o)
        BY <4>2, <4>4 DEF Matches, IsContender
      <4>. QED BY <2>3, <3>1, <3>4, <4>1, <4>3, <4>4
    <3>. QED BY <3>3, <3>4
  <2>6. CASE Deliver
    <3>1. /\ store' = store /\ 1 \in 1..Len(pending)
          /\ Len(pending') = Len(pending) - 1
          /\ \A i \in 1..Len(pending') : i + 1 \in 2..Len(pending) /\ pending'[i] = pending[i + 1]
          /\ cache' = [cache EXCEPT ![pending[1].exp] = pending[1].obj]
      BY <1>1, <2>6, DeliveredEvents
    <3>2. cache'[d] = cache[d] \/ (pending[1].exp = d /\ cache'[d] = pending[1].obj)
      BY <1>1, <3>1 DEF TypeOK
    <3>3. Matches(cache'[d], store'[d])
      BY <2>3, <3>1, <3>2
    <3>4. ASSUME NEW i \in 1..Len(pending'), pending'[i].exp = d
          PROVE  Matches(pending'[i].obj, store'[d])
      <4>1. i + 1 \in 1..Len(pending) /\ pending'[i] = pending[i + 1]
        BY <3>1
      <4>. QED BY <2>3, <3>1, <3>4, <4>1
    <3>. QED BY <3>3, <3>4
  <2>7. CASE store' = store /\ cache' = store /\ pending' = <<>>
    <3>1. Len(pending') = 0
      BY <2>7, EmptySeq
    <3>. QED BY <2>7, <3>1 DEF Matches
  <2>. QED BY <1>1, <2>4, <2>5, <2>6, <2>7, WatchStep
<1>. QED BY <1>2, <1>4

(* What is noticed or released stays so until the worker takes it.         *)
LEMMA NoticedStays ==
    ASSUME WatchInv, [Next]_vars, NEW e \in Experiment, Noticed(e),
           ~Begin(e), ~Restart
    PROVE  Noticed(e)'
<1>1. /\ TypeOK /\ Len(pending) \in Nat
  BY PendingTypes DEF WatchInv
<1>2. e \in queue => e \in queue'
  BY DEF Next, Create, Delete, Edit, DeliverRelease, Wake, Begin, Deliver, Resync, Tick,
         Reconcile, InitializeStatus, AlreadyCompleted, AcquireTarget, KeepWaiting, Proceed,
         EndExperiment, TriggerNext, TriggerWaiting, UpdateStatus, vars
<1>3. CASE ~Delivered(e)
  <2>1. PICK i \in 1..Len(pending) : pending[i].exp = e
    BY <1>3 DEF Delivered
  <2>2. CASE Deliver
    <3>1. /\ Len(pending) \in Nat \ {0} /\ Len(pending') = Len(pending) - 1
          /\ \A j \in 1..Len(pending') : pending'[j] = pending[j + 1]
      BY <1>1, <2>2, DeliveredEvents
    <3>2. Head(pending) = pending[1]
      BY <1>1, <2>2, PendingTail DEF Deliver
    <3>3. CASE i = 1
      BY <2>1, <2>2, <3>2, <3>3 DEF Deliver, Noticed
    <3>4. CASE i # 1
      <4>1. i - 1 \in 1..Len(pending') /\ (i - 1) + 1 = i
        BY <3>1, <3>4
      <4>2. pending'[i - 1].exp = e
        BY <2>1, <3>1, <4>1
      <4>. QED BY <4>1, <4>2 DEF Noticed, Delivered
    <3>. QED BY <3>3, <3>4
  <2>3. CASE pending' = pending
    BY <2>1, <2>3 DEF Noticed, Delivered
  <2>4. ASSUME NEW c \in Experiment, NEW o \in Object, Written(c, o)
        PROVE  Noticed(e)'
    <3>1. i \in 1..Len(pending') /\ pending'[i] = pending[i]
      BY <1>1, <2>4, WrittenEvents
    <3>. QED BY <2>1, <3>1 DEF Noticed, Delivered
  <2>. QED BY <1>1, <2>2, <2>3, <2>4, WatchStep
<1>. QED BY <1>2, <1>3 DEF Noticed

LEMMA AwaitedStays ==
    ASSUME WatchInv, [Next]_vars, NEW e \in Experiment, Awaited(e), ~Begin(e), ~Restart
    PROVE  Awaited(e)'
<1>1. CASE Noticed(e)
  BY <1>1, NoticedStays DEF Awaited
<1>2. CASE e \in released
  <2>1. e \in released' \/ e \in queue'
    BY <1>2 DEF Next, Create, Delete, Edit, DeliverRelease, Wake, Begin, Deliver, Resync, Tick,
         Reconcile, InitializeStatus, AlreadyCompleted, AcquireTarget, KeepWaiting, Proceed,
         EndExperiment, TriggerNext, TriggerWaiting, UpdateStatus, vars
  <2>. QED BY <2>1 DEF Awaited, Noticed
<1>. QED BY <1>1, <1>2 DEF Awaited

(* Every change of a stored experiment is noticed.                         *)
LEMMA ChangeNoticed ==
    ASSUME WatchInv, [Next]_vars, NEW e \in Experiment, store'[e] # store[e]
    PROVE  Noticed(e)'
<1>1. TypeOK /\ store \in [Experiment -> Object] /\ Len(pending) \in Nat
  BY PendingTypes DEF WatchInv, TypeOK
<1>2. PICK c \in Experiment, o \in Object : Written(c, o)
  BY <1>1, WatchStep DEF Deliver
<1>3. c = e
  BY <1>1, <1>2 DEF Written
<1>4. Len(pending') = Len(pending) + 1 /\ pending'[Len(pending) + 1].exp = e
  BY <1>1, <1>2, <1>3, WrittenEvents
<1>5. Len(pending) + 1 \in 1..Len(pending')
  BY <1>1, <1>4
<1>. QED BY <1>4, <1>5 DEF Noticed, Delivered

LEMMA PutNoticed ==
    ASSUME TypeOK, NEW e \in Experiment, NEW o \in Object, Put(e, o)
    PROVE  Noticed(e)'
<1>1. /\ Len(pending) \in Nat /\ Len(pending') = Len(pending) + 1
      /\ pending'[Len(pending) + 1].exp = e
  BY PendingAppend DEF Put
<1>2. Len(pending) + 1 \in 1..Len(pending')
  BY <1>1
<1>. QED BY <1>1, <1>2 DEF Noticed, Delivered

LEMMA NextConflict ==
    ASSUME WatchInv, ConflictNoticed, [Next]_vars
    PROVE  ConflictNoticed'
<1>. SUFFICES ASSUME FreshReads, pc' = "trigger" \/ (pc' = "run" /\ ~current'),
                     IsContender(store'[cur'])
              PROVE  Noticed(cur)'
  BY DEF ConflictNoticed, IsContender
<1>1. TypeOK /\ store \in [Experiment -> Object]
  BY DEF WatchInv, TypeOK
<1>2. ASSUME NEW e \in Experiment, Begin(e) PROVE FALSE
  <2>1. Len(pending) = 0
    BY <1>2, EmptySeq DEF Begin
  <2>. QED BY <1>2, <2>1 DEF Begin, Delivered
<1>3. ~Restart
  BY DEF Restart, Done
<1>4. /\ pc \in {"run", "trigger"} /\ cur' = cur
      /\ pc = "trigger" => pc' = "trigger"
  BY <1>2, <1>3 DEF Next, Create, Delete, Edit, DeliverRelease, Wake, Deliver, Resync, Tick,
                    Reconcile, InitializeStatus, AlreadyCompleted, AcquireTarget, KeepWaiting,
                    Proceed, EndExperiment, TriggerNext, TriggerWaiting, Done, vars
<1>5. PICK c \in Experiment : c = cur /\ c = cur'
  BY <1>1, <1>4 DEF TypeOK
<1>. SUFFICES Noticed(c)'
  BY <1>5 DEF Noticed, Delivered
<1>6. CASE store'[c] # store[c]
  BY <1>6, ChangeNoticed
<1>7. CASE store'[c] = store[c] /\ (pc = "trigger" \/ ~current)
  <2>1. Noticed(c)
    BY <1>4, <1>5, <1>7 DEF ConflictNoticed, IsContender
  <2>. QED BY <1>2, <1>3, <2>1, NoticedStays
<1>8. CASE store'[c] = store[c] /\ pc = "run" /\ current
  <2>1. CASE EndExperiment
    <3>1. CASE c \in queue'
      BY <3>1 DEF Noticed
    <3>2. CASE c \notin queue'
      <4>1. store'[c] = [obj EXCEPT !.phase = "done"]
        BY <1>1, <1>5, <1>8, <2>1, <3>2 DEF EndExperiment, UpdateStatus
      <4>2. obj \in Object
        BY <1>1 DEF TypeOK
      <4>. QED BY <1>5, <4>1, <4>2 DEF IsContender, Object
    <3>. QED BY <3>1, <3>2
  <2>2. CASE ~EndExperiment
    <3>1. pc' = "run" /\ ~current'
      BY <1>2, <1>3, <1>8, <2>2
         DEF Next, Create, Delete, Edit, DeliverRelease, Wake, Deliver, Resync, Tick,
             Reconcile, InitializeStatus, AlreadyCompleted, AcquireTarget, KeepWaiting,
             Proceed, TriggerNext, TriggerWaiting, Done, vars
    <3>2. PICK e \in Experiment : Create(e) \/ Delete(e) \/ Edit(e)
      BY <1>2, <1>3, <1>8, <2>2, <3>1
         DEF Next, DeliverRelease, Wake, Deliver, Resync, Tick,
             Reconcile, InitializeStatus, AlreadyCompleted, AcquireTarget, KeepWaiting,
             Proceed, TriggerNext, TriggerWaiting, Done, vars
    <3>3. PICK o \in Object : Put(e, o)
      BY <1>1, <3>2, WrittenObjects DEF Create, Delete, Edit
    <3>4. e = c
      BY <1>5, <1>8, <3>1, <3>3 DEF Put
    <3>. QED BY <1>1, <3>3, <3>4, PutNoticed
  <2>. QED BY <2>1, <2>2
<1>. QED BY <1>4, <1>6, <1>7, <1>8

(* Among those who wait for a target without a holder, someone is next.    *)
LEMMA SomeoneIsNext ==
    ASSUME TypeOK, NEW e \in Experiment, store[e].phase = "waiting", ~Held(TargetOf[e])
    PROVE  \E m \in Experiment : TargetOf[m] = TargetOf[e] /\ Earliest(m)
<1>. DEFINE W == {d \in Experiment : TargetOf[d] = TargetOf[e] /\ store[d].phase = "waiting"}
            Times == {store[d].init : d \in W}
<1>1. \A d \in Experiment : store[d].init \in Nat
  BY ConstantsOK DEF TypeOK, Object
<1>2. Times \in SUBSET Nat /\ Times # {}
  BY <1>1
<1>3. PICK n \in Times : \A k \in Times : n <= k
  <2>. HIDE DEF Times
  <2>. QED BY <1>2, Smallest
<1>4. PICK m \in W : store[m].init = n
  BY <1>3
<1>5. ASSUME NEW d \in Rivals(m), IsContender(store[d])
      PROVE  store[m].init <= store[d].init
  <2>1. d \in W
    BY <1>4, <1>5 DEF Rivals, IsContender, Held
  <2>. QED BY <1>3, <1>4, <2>1
<1>. QED BY <1>4, <1>5 DEF Earliest

(* A search for the next experiment finds the one whose turn it is, or one *)
(* that has been deleted, which leads to another search.                   *)
LEMMA SearchFinds ==
    ASSUME FreshReads, WatchInv, Sight, pc \in {"trigger", "sweep"},
           NEW m \in Experiment, Earliest(m), ~Held(TargetOf[m]),
           NEW x, x = IF pc = "trigger" THEN {cur} ELSE {}, m \notin x,
           NEW s \in Triggered(TargetOf[m], x)
    PROVE  \/ \E d \in Experiment : store[d].phase = "gone" /\ Noticed(d)
           \/ \E d \in s : d \in Experiment /\ TargetOf[d] = TargetOf[m] /\ Earliest(d)
<1>. DEFINE t == TargetOf[m]
            others == ActiveContenders(t) \ x
<1>1. /\ TypeOK /\ CacheFollowsStore
      /\ \A d \in Experiment : /\ store[d] \in Object /\ cache[d] \in Object
                               /\ store[d].init \in Nat /\ cache[d].init \in Nat
  BY ConstantsOK DEF WatchInv, TypeOK, Object
<1>2. ASSUME NEW d \in Experiment, d \notin x
      PROVE  Matches(cache[d], store[d])
  BY <1>2 DEF Sight
<1>3. CASE \E d \in others : store[d].phase = "gone"
  <2>1. PICK d \in others : store[d].phase = "gone"
    BY <1>3
  <2>2. d \in Experiment /\ cache[d] # store[d]
    BY <2>1 DEF ActiveContenders, IsContender
  <2>. QED BY <1>1, <2>1, <2>2, SeenOrNoticed
<1>4. CASE \A d \in others : store[d].phase # "gone"
  <2>1. ASSUME NEW d \in others
        PROVE  /\ d \in Experiment /\ TargetOf[d] = t /\ d \notin x
               /\ cache[d] = store[d] /\ store[d].phase = "waiting"
    <3>1. d \in Experiment /\ TargetOf[d] = t /\ IsContender(cache[d]) /\ d \notin x
      BY <2>1 DEF ActiveContenders
    <3>2. cache[d] = store[d]
      BY <1>2, <1>4, <2>1, <3>1 DEF Matches
    <3>. QED BY <3>1, <3>2 DEF IsContender, Held
  <2>2. ASSUME NEW d \in Experiment, TargetOf[d] = t, IsContender(store[d]), d \notin x
        PROVE  d \in others
    <3>1. cache[d] = store[d]
      BY <1>2, <2>2 DEF Matches, IsContender
    <3>. QED BY <2>2, <3>1 DEF ActiveContenders
  <2>3. m \in others
    BY <2>2 DEF Earliest, IsContender
  <2>. DEFINE next == {d \in others : \A y \in others : cache[d].init <= cache[y].init}
  <2>4. NextWaiting(t, x) = next
    BY <2>1 DEF NextWaiting
  <2>5. m \in next
    <3>1. ASSUME NEW y \in others PROVE cache[m].init <= cache[y].init
      <4>1. CASE y = m
        BY <1>1, <4>1
      <4>2. CASE y # m
        <5>1. y \in Rivals(m) /\ IsContender(store[y])
          BY <2>1, <4>2 DEF Rivals, IsContender
        <5>. QED BY <2>1, <2>3, <5>1 DEF Earliest
      <4>. QED BY <4>1, <4>2
    <3>. QED BY <2>3, <3>1
  <2>6. PICK d \in next : s = {d}
    <3>1. NextWaiting(t, x) # {}
      BY <2>4, <2>5
    <3>2. s \in {{d} : d \in NextWaiting(t, x)}
      BY <3>1 DEF Triggered
    <3>. QED BY <2>4, <3>2
  <2>7. /\ d \in Experiment /\ TargetOf[d] = t
        /\ cache[d] = store[d] /\ store[d].phase = "waiting"
        /\ \A y \in others : cache[d].init <= cache[y].init
    BY <2>1, <2>6
  <2>8. ASSUME NEW r \in Rivals(d), IsContender(store[r])
        PROVE  store[d].init <= store[r].init
    <3>1. r \in Experiment /\ TargetOf[r] = t /\ r # d
      BY <2>7 DEF Rivals
    <3>2. CASE r \notin x
      <4>1. r \in others
        BY <2>2, <2>8, <3>1, <3>2
      <4>. QED BY <2>1, <2>7, <4>1
    <3>3. CASE r \in x
      <4>1. store[d].init <= store[m].init
        BY <2>1, <2>3, <2>7
      <4>2. r \in Rivals(m)
        BY <3>1, <3>3 DEF Rivals
      <4>3. store[m].init <= store[r].init
        BY <2>8, <4>2 DEF Earliest
      <4>. QED BY <1>1, <2>7, <3>1, <4>1, <4>3
    <3>. QED BY <3>2, <3>3
  <2>. QED BY <2>6, <2>7, <2>8 DEF Earliest
<1>. QED BY <1>3, <1>4

LEMMA WakeSameStore ==
    ASSUME FreshReads, WatchInv, Sight, ConflictNoticed, WakeInv, [Next]_vars, store' = store,
           NEW e \in Experiment, store[e].phase = "waiting", ~Held(TargetOf[e])
    PROVE  Due(TargetOf[e])'
<1>. DEFINE t == TargetOf[e]
<1>1. /\ TypeOK /\ CacheFollowsStore /\ InstanceIsCurrent
      /\ \A d \in Experiment : store[d] \in Object
  BY DEF WatchInv, TypeOK
<1>2. PICK m \in Experiment : TargetOf[m] = t /\ Earliest(m)
  BY <1>1, SomeoneIsNext
<1>3. \A d \in Experiment : Earliest(d) => Earliest(d)'
  BY DEF Earliest
<1>4. ASSUME NEW d \in Experiment, Begin(d)
      PROVE  cache[d] = store[d]
  <2>1. Len(pending) = 0
    BY <1>4, EmptySeq DEF Begin
  <2>. QED BY <1>1, <2>1 DEF CacheFollowsStore, Delivered
<1>5. CASE Restart
  <2>1. m \in queue'
    BY <1>2, <1>5 DEF Restart, Earliest, Exists
  <2>. QED BY <1>2, <1>3, <2>1 DEF Due, Awaited, Noticed
<1>6. ASSUME ~Restart, NEW d \in Experiment, store[d].phase = "gone", Noticed(d)
      PROVE  Due(t)'
  <2>1. CASE Begin(d)
    <3>1. cache[d] = store[d]
      BY <1>4, <2>1
    <3>. QED BY <1>6, <2>1, <3>1 DEF Begin, Exists, Due
  <2>2. CASE ~Begin(d)
    <3>1. Noticed(d)'
      BY <1>6, <2>2, NoticedStays
    <3>. QED BY <1>6, <3>1 DEF Due
  <2>. QED BY <2>1, <2>2
<1>7. ASSUME ~Restart, NEW d \in Experiment, TargetOf[d] = t, Earliest(d), Awaited(d)
      PROVE  Due(t)'
  <2>1. Earliest(d)'
    BY <1>3, <1>7
  <2>2. CASE Begin(d)
    <3>1. cache[d] = store[d]
      BY <1>4, <2>2
    <3>2. pc' = "run" /\ cur' = d
      BY <1>7, <2>2, <3>1 DEF Begin, Exists, Earliest
    <3>. QED BY <1>7, <2>1, <3>2 DEF Due
  <2>3. CASE ~Begin(d)
    <3>1. Awaited(d)'
      BY <1>7, <2>3, AwaitedStays
    <3>. QED BY <1>7, <2>1, <3>1 DEF Due
  <2>. QED BY <2>2, <2>3
<1>8. ASSUME ~Restart, NEW d \in Experiment, TargetOf[d] = t, Earliest(d), ~Awaited(d),
             pc = "run", cur = d
      PROVE  Due(t)'
  <2>1. Earliest(d)' /\ IsContender(store[d]) /\ store[d].phase = "waiting"
    BY <1>3, <1>8 DEF Earliest, IsContender
  <2>2. current /\ obj = store[d]
    BY <1>1, <1>8, <2>1 DEF ConflictNoticed, Awaited, InstanceIsCurrent
  <2>3. CASE ~Reconcile
    <3>1. pc' = pc /\ cur' = cur
      BY <1>8, <2>3 DEF Next, Create, Delete, Edit, DeliverRelease, Wake, Begin, Deliver, Resync,
                        Tick, vars
    <3>. QED BY <1>8, <2>1, <3>1 DEF Due
  <2>4. CASE KeepWaiting
    <3>1. PICK r \in ActiveContenders(TargetOf[d]) \ {d} :
            ~(cache[r].phase # "owner" /\ cache[r].init >= obj.init)
      BY <1>8, <2>4 DEF KeepWaiting, CanAcquire
    <3>2. /\ r \in Experiment /\ r \in Rivals(d) /\ TargetOf[r] = t /\ IsContender(cache[r])
          /\ cache[r] \in Object /\ store[r] \in Object
      BY <1>1, <1>8, <3>1 DEF ActiveContenders, Rivals, TypeOK
    <3>3. cache[r].init \in Nat /\ store[r].init \in Nat /\ store[d].init \in Nat
      BY <1>1, <3>2, ConstantsOK DEF Object
    <3>4. Matches(cache[r], store[r])
      BY <1>8, <3>2 DEF Sight
    <3>5. CASE store[r].phase = "gone"
      <4>1. cache[r] # store[r]
        BY <3>2, <3>5 DEF IsContender
      <4>2. Noticed(r)
        BY <1>1, <3>2, <4>1, SeenOrNoticed
      <4>. QED BY <1>6, <1>8, <3>2, <3>5, <4>2
    <3>6. CASE store[r].phase # "gone"
      <4>1. cache[r] = store[r]
        BY <3>2, <3>4, <3>6 DEF Matches
      <4>2. store[r].phase # "owner"
        BY <3>2 DEF Held
      <4>3. store[d].init <= store[r].init
        BY <1>8, <3>2, <4>1 DEF Earliest
      <4>. QED BY <2>2, <3>1, <3>3, <4>1, <4>2, <4>3
    <3>. QED BY <3>5, <3>6
  <2>5. CASE Reconcile /\ ~KeepWaiting
    <3>1. AcquireTarget \/ EndExperiment
      BY <1>8, <2>1, <2>2, <2>5 DEF Reconcile, InitializeStatus, AlreadyCompleted, Proceed,
                                    TriggerNext, TriggerWaiting
    <3>2. CASE d \in queue'
      BY <1>8, <2>1, <3>2 DEF Due, Awaited, Noticed
    <3>3. CASE d \notin queue'
      <4>1. store'[d].phase \in {"owner", "done"}
        BY <1>1, <1>8, <2>2, <3>1, <3>3
           DEF AcquireTarget, EndExperiment, UpdateStatus, TypeOK, Object
      <4>. QED BY <2>1, <4>1
    <3>. QED BY <3>2, <3>3
  <2>. QED BY <2>3, <2>4, <2>5
<1>9. ASSUME ~Restart, pc = "sweep" \/ (pc = "trigger" /\ TargetOf[cur] = t)
      PROVE  Due(t)'
  <2>1. CASE ~Reconcile
    <3>1. pc' = pc /\ cur' = cur
      BY <1>9, <2>1 DEF Next, Create, Delete, Edit, DeliverRelease, Wake, Begin, Deliver, Resync,
                        Tick, Restart, vars
    <3>. QED BY <1>9, <3>1 DEF Due
  <2>2. CASE Awaited(m)
    BY <1>2, <1>7, <1>9, <2>2
  <2>3. ASSUME NEW s, s \subseteq released',
               \E d \in s : d \in Experiment /\ TargetOf[d] = t /\ Earliest(d)
        PROVE  Due(t)'
    BY <1>3, <2>3 DEF Due, Awaited
  <2>4. CASE TriggerNext /\ ~Awaited(m)
    <3>1. pc = "trigger" /\ TargetOf[cur] = TargetOf[m] /\ m # cur
      <4>1. pc = "trigger"
        BY <2>4 DEF TriggerNext
      <4>. QED BY <1>2, <1>9, <2>4, <4>1 DEF ConflictNoticed, Awaited, Earliest, IsContender
    <3>2. PICK s \in Triggered(TargetOf[m], {cur}) : released' = released \cup s
      BY <2>4, <3>1 DEF TriggerNext
    <3>3. \/ \E d \in Experiment : store[d].phase = "gone" /\ Noticed(d)
          \/ \E d \in s : d \in Experiment /\ TargetOf[d] = TargetOf[m] /\ Earliest(d)
      BY <1>2, <3>1, <3>2, SearchFinds
    <3>. QED BY <1>2, <1>6, <1>9, <2>3, <3>2, <3>3
  <2>5. CASE TriggerWaiting /\ ~Awaited(m)
    <3>1. pc = "sweep"
      BY <2>5 DEF TriggerWaiting
    <3>2. t \in ListedTargets
      <4>1. cache[m] = store[m]
        BY <1>1, <2>5, SeenOrNoticed DEF Awaited
      <4>. QED BY <1>2, <4>1 DEF ListedTargets, Exists, Earliest
    <3>3. PICK choice :
            /\ \A u \in ListedTargets : choice[u] \in Triggered(u, {})
            /\ released' = released \cup UNION {choice[u] : u \in ListedTargets}
      BY <2>5 DEF TriggerWaiting
    <3>4. choice[t] \in Triggered(t, {}) /\ choice[t] \subseteq released'
      BY <3>2, <3>3
    <3>5. \/ \E d \in Experiment : store[d].phase = "gone" /\ Noticed(d)
          \/ \E d \in choice[t] : d \in Experiment /\ TargetOf[d] = TargetOf[m] /\ Earliest(d)
      BY <1>2, <3>1, <3>4, SearchFinds
    <3>. QED BY <1>2, <1>6, <1>9, <2>3, <3>4, <3>5
  <2>6. Reconcile => TriggerNext \/ TriggerWaiting
    BY <1>9 DEF Reconcile, InitializeStatus, AlreadyCompleted, AcquireTarget, KeepWaiting, Proceed,
                EndExperiment
  <2>. QED BY <2>1, <2>2, <2>4, <2>5, <2>6
<1>10. Due(t)
  BY DEF WakeInv
<1>. QED BY <1>5, <1>6, <1>7, <1>8, <1>9, <1>10 DEF Due

(* What is under way for a target is not stopped by a step that concerns   *)
(* another experiment, x.                                                  *)
LEMMA DueStays ==
    ASSUME WatchInv, [Next]_vars, ~Restart, \A d \in Experiment : ~Begin(d),
           NEW t, Due(t), NEW x \in Experiment,
           (pc = "run" /\ cur = x) \/ (pc' = pc /\ cur' = cur),
           \A d \in Experiment : store[d].phase = "gone" => store'[d].phase = "gone",
           \A m \in Experiment : TargetOf[m] = t /\ Earliest(m) => m # x /\ Earliest(m)'
    PROVE  Due(t)'
<1>1. CASE pc = "sweep" \/ (pc = "trigger" /\ TargetOf[cur] = t)
  BY <1>1 DEF Due
<1>2. ASSUME NEW d \in Experiment, store[d].phase = "gone", Noticed(d)
      PROVE  Due(t)'
  <2>1. Noticed(d)'
    BY <1>2, NoticedStays
  <2>. QED BY <1>2, <2>1 DEF Due
<1>3. ASSUME NEW m \in Experiment, TargetOf[m] = t, Earliest(m),
             Awaited(m) \/ (pc = "run" /\ cur = m)
      PROVE  Due(t)'
  <2>1. m # x /\ Earliest(m)'
    BY <1>3
  <2>2. CASE Awaited(m)
    <3>1. Awaited(m)'
      BY <2>2, AwaitedStays
    <3>. QED BY <1>3, <2>1, <3>1 DEF Due
  <2>3. CASE pc = "run" /\ cur = m
    BY <1>3, <2>1, <2>3 DEF Due
  <2>. QED BY <1>3, <2>2, <2>3
<1>. QED BY <1>1, <1>2, <1>3 DEF Due

LEMMA WakeNewStore ==
    ASSUME FreshReads, WatchInv, TimesInv, WakeInv, [Next]_vars,
           NEW x \in Experiment, store'[x] # store[x],
           \A d \in Experiment : d # x => store'[d] = store[d],
           NEW e \in Experiment, store'[e].phase = "waiting", ~Held(TargetOf[e])'
    PROVE  Due(TargetOf[e])'
<1>. DEFINE t == TargetOf[e]
<1>1. /\ TypeOK
      /\ \A d \in Experiment : /\ store[d] \in Object
                               /\ store[d].init \in Nat /\ store[d].init <= clock
  BY ConstantsOK DEF WatchInv, TypeOK, Object, TimesInv
<1>2. CASE store'[x] = [store[x] EXCEPT !.phase = "gone"]
  <2>1. Noticed(x)' /\ store'[x].phase = "gone"
    BY <1>1, <1>2, ChangeNoticed DEF Object
  <2>. QED BY <2>1 DEF Due
<1>3. ~Restart /\ \A d \in Experiment : ~Begin(d)
  BY DEF Restart, Begin
<1>4. CASE Create(x) /\ store[x].phase = "unborn" /\ store'[x] = [phase |-> "new", init |-> 0]
  <2>1. store[e].phase = "waiting" /\ ~Held(t)
    BY <1>4 DEF Held
  <2>2. Due(t)
    BY <2>1 DEF WakeInv
  <2>3. \A m \in Experiment : TargetOf[m] = t /\ Earliest(m) => m # x /\ Earliest(m)'
    BY <1>4 DEF Earliest, Rivals, IsContender
  <2>. QED BY <1>3, <1>4, <2>2, <2>3, DueStays DEF Create
<1>5. CASE /\ InitializeStatus /\ cur = x
           /\ store[x].phase = "new" /\ store'[x] = [phase |-> "waiting", init |-> clock]
  <2>1. CASE \E d \in Experiment : TargetOf[d] = t /\ store[d].phase = "waiting"
    <3>1. ~Held(t)
      BY <1>5 DEF Held
    <3>2. Due(t)
      BY <2>1, <3>1 DEF WakeInv
    <3>3. \A m \in Experiment : TargetOf[m] = t /\ Earliest(m) => m # x /\ Earliest(m)'
      BY <1>1, <1>5 DEF Earliest, Rivals, IsContender
    <3>. QED BY <1>3, <1>5, <3>2, <3>3, DueStays DEF InitializeStatus
  <2>2. CASE ~\E d \in Experiment : TargetOf[d] = t /\ store[d].phase = "waiting"
    <3>1. e = x
      BY <2>2
    <3>2. Earliest(e)'
      BY <2>2, <3>1 DEF Earliest, Rivals, IsContender, Held
    <3>3. Noticed(e)'
      BY <3>1, ChangeNoticed
    <3>. QED BY <3>2, <3>3 DEF Due, Awaited
  <2>. QED BY <2>1, <2>2
<1>6. CASE /\ TargetOf[x] # t /\ pc = "run" /\ cur = x
           /\ store[x].phase # "gone"
  <2>1. store[e].phase = "waiting" /\ ~Held(t)
    BY <1>6 DEF Held
  <2>2. Due(t)
    BY <2>1 DEF WakeInv
  <2>3. \A m \in Experiment : TargetOf[m] = t /\ Earliest(m) => m # x /\ Earliest(m)'
    BY <1>6 DEF Earliest, Rivals
  <2>. QED BY <1>3, <1>6, <2>2, <2>3, DueStays
<1>7. CASE /\ AcquireTarget /\ cur = x
           /\ store[x].phase = "waiting" /\ store'[x] = [store[x] EXCEPT !.phase = "owner"]
  <2>1. store'[x].phase = "owner"
    BY <1>1, <1>7 DEF Object
  <2>2. TargetOf[x] # t
    BY <2>1 DEF Held
  <2>. QED BY <1>6, <1>7, <2>2 DEF AcquireTarget
<1>8. CASE EndExperiment /\ cur = x /\ IsContender(store[x])
  <2>1. CASE TargetOf[x] = t
    BY <1>8, <2>1 DEF EndExperiment, Due
  <2>2. CASE TargetOf[x] # t
    BY <1>6, <1>8, <2>2 DEF EndExperiment, IsContender
  <2>. QED BY <2>1, <2>2
<1>. QED BY <1>2, <1>4, <1>5, <1>7, <1>8, StoreChanges

LEMMA NextWake ==
    ASSUME WatchInv, TimesInv, Sight, ConflictNoticed, WakeInv, [Next]_vars
    PROVE  WakeInv'
<1>. SUFFICES ASSUME FreshReads, NEW e \in Experiment, store'[e].phase = "waiting",
                     ~Held(TargetOf[e])'
              PROVE  Due(TargetOf[e])'
  BY DEF WakeInv
<1>1. CASE store' = store
  BY <1>1, WakeSameStore DEF Held
<1>2. CASE store' # store
  <2>1. PICK x \in Experiment, o \in Object : o # store[x] /\ store' = [store EXCEPT ![x] = o]
    BY <1>2, OneAtATime
  <2>2. store'[x] # store[x] /\ \A d \in Experiment : d # x => store'[d] = store[d]
    BY <2>1 DEF WatchInv, TypeOK
  <2>. QED BY <2>2, WakeNewStore
<1>. QED BY <1>1, <1>2

(* No lost wake-up (experiment_controller.go:140, "wait to be triggered    *)
(* again"): if reads are up to date, a target without a holder has nobody  *)
(* waiting for it once the controller has nothing left to do, whatever was *)
(* deleted, edited, refused or lost in a crash before.                     *)
THEOREM NobodyStranded == FreshReads => (Spec => []NoStrandedWaiter)
<1>. SUFFICES ASSUME FreshReads PROVE Spec => []NoStrandedWaiter
  OBVIOUS
<1>1. Init => Sight /\ ConflictNoticed /\ WakeInv
  BY DEF Init, Sight, ConflictNoticed, WakeInv, Unborn
<1>2. WatchInv /\ TimesInv /\ Sight /\ ConflictNoticed /\ WakeInv /\ [Next]_vars
        => (Sight /\ ConflictNoticed /\ WakeInv)'
  BY NextSight, NextConflict, NextWake
<1>3. TimeInv => WatchInv /\ TimesInv
  BY DEF TimeInv
<1>4. TypeOK /\ WakeInv => NoStrandedWaiter
  <2>. SUFFICES ASSUME TypeOK, WakeInv, Quiescent, NEW e \in Experiment, store[e].phase = "waiting"
                PROVE  \E d \in Rivals(e) : store[d].phase = "owner"
    BY DEF NoStrandedWaiter
  <2>1. Len(pending) = 0
    BY EmptySeq DEF Quiescent
  <2>2. \A d \in Experiment : ~Noticed(d) /\ d \notin released
    BY <2>1 DEF Quiescent, Noticed, Delivered
  <2>3. ~Due(TargetOf[e])
    BY <2>2 DEF Due, Awaited, Quiescent
  <2>. QED BY <2>3 DEF WakeInv, Held, Rivals
<1>5. WatchInv => TypeOK
  BY DEF WatchInv
<1>. QED BY <1>1, <1>2, <1>3, <1>4, <1>5, TimeAlways, PTL DEF Spec

=============================================================================
