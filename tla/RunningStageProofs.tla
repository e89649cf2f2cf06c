-------------------------- MODULE RunningStageProofs --------------------------
(***************************************************************************)
(* Theorems about RunningStage, and what iter8ctl asserts of its           *)
(* experiments, for any specifications, metric objects and weights.        *)
(***************************************************************************)
EXTENDS MCRunning, RecursiveFunctions, FiniteSetTheorems, SequenceTheorems, TLAPS

Ref == MetricRef(Namespace, MetricName)

RefKey == Namespace \X MetricName

Detail == VersionDetail(VersionName, WeightObject)

-----------------------------------------------------------------------------
(***************************************************************************)
(* Sequences and what is in them                                           *)
(***************************************************************************)
LEMMA RangeHeadTail ==
    ASSUME NEW S, NEW seq \in Seq(S), seq # <<>>
    PROVE  /\ Head(seq) \in S /\ Tail(seq) \in Seq(S)
           /\ Range(seq) = {Head(seq)} \cup Range(Tail(seq))
<1>1. /\ Len(seq) \in Nat /\ Len(seq) >= 1 /\ DOMAIN seq = 1..Len(seq)
      /\ Head(seq) = seq[1] /\ Head(seq) \in S
      /\ Tail(seq) \in Seq(S) /\ Len(Tail(seq)) = Len(seq) - 1
      /\ DOMAIN Tail(seq) = 1..(Len(seq) - 1)
      /\ \A i \in 1..(Len(seq) - 1) : Tail(seq)[i] = seq[i + 1]
  BY HeadTailProperties, LenProperties, EmptySeq
<1>2. \A i \in 2..Len(seq) : seq[i] = Tail(seq)[i - 1] /\ i - 1 \in 1..(Len(seq) - 1)
  BY <1>1
<1>3. \A i \in 1..Len(seq) : i = 1 \/ i \in 2..Len(seq)
  OBVIOUS
<1>4. Range(seq) \subseteq {Head(seq)} \cup Range(Tail(seq))
  <2>1. ASSUME NEW i \in 1..Len(seq)
        PROVE  seq[i] = Head(seq) \/ seq[i] \in Range(Tail(seq))
    <3>1. CASE i = 1
      BY <1>1, <3>1
    <3>2. CASE i \in 2..Len(seq)
      <4>1. i - 1 \in DOMAIN Tail(seq) /\ seq[i] = Tail(seq)[i - 1]
        BY <1>1, <1>2, <3>2
      <4>. QED BY <4>1 DEF Range
    <3>. QED BY <1>3, <3>1, <3>2
  <2>. QED BY <1>1, <2>1 DEF Range
<1>5. {Head(seq)} \cup Range(Tail(seq)) \subseteq Range(seq)
  BY <1>1 DEF Range
<1>. QED BY <1>1, <1>4, <1>5

LEMMA RangeConcat ==
    ASSUME NEW S, NEW s \in Seq(S), NEW t \in Seq(S)
    PROVE  s \o t \in Seq(S) /\ Range(s \o t) = Range(s) \cup Range(t)
<1>1. /\ s \o t \in Seq(S) /\ Len(s) \in Nat /\ Len(t) \in Nat
      /\ DOMAIN s = 1..Len(s) /\ DOMAIN t = 1..Len(t)
      /\ DOMAIN (s \o t) = 1..(Len(s) + Len(t))
      /\ \A i \in 1..(Len(s) + Len(t)) :
            (s \o t)[i] = IF i <= Len(s) THEN s[i] ELSE t[i - Len(s)]
  BY ConcatProperties, LenProperties
<1>2. \A i \in 1..Len(t) : i + Len(s) \in 1..(Len(s) + Len(t)) /\ (s \o t)[i + Len(s)] = t[i]
  BY <1>1
<1>3. \A i \in 1..Len(s) : i \in 1..(Len(s) + Len(t)) /\ (s \o t)[i] = s[i]
  BY <1>1
<1>4. Range(s) \cup Range(t) \subseteq Range(s \o t)
  <2>1. Range(s) \subseteq Range(s \o t)
    BY <1>1, <1>3 DEF Range
  <2>2. ASSUME NEW i \in 1..Len(t)
        PROVE  t[i] \in Range(s \o t)
    <3>1. i + Len(s) \in DOMAIN (s \o t) /\ (s \o t)[i + Len(s)] = t[i]
      BY <1>1, <1>2
    <3>. QED BY <3>1 DEF Range
  <2>. QED BY <1>1, <2>1, <2>2 DEF Range
<1>5. Range(s \o t) \subseteq Range(s) \cup Range(t)
  <2>1. \A i \in 1..(Len(s) + Len(t)) : i \in 1..Len(s) \/ i - Len(s) \in 1..Len(t)
    BY <1>1
  <2>. QED BY <1>1, <2>1 DEF Range
<1>. QED BY <1>1, <1>4, <1>5

LEMMA RangeAppend ==
    ASSUME NEW S, NEW seq \in Seq(S), NEW e \in S
    PROVE  Append(seq, e) \in Seq(S) /\ Range(Append(seq, e)) = Range(seq) \cup {e}
<1>1. /\ DOMAIN seq = 1..Len(seq) /\ Len(seq) \in Nat
      /\ Append(seq, e) \in Seq(S)
      /\ DOMAIN Append(seq, e) = 1..(Len(seq) + 1)
      /\ \A i \in 1..Len(seq) : Append(seq, e)[i] = seq[i]
      /\ Append(seq, e)[Len(seq) + 1] = e
  BY AppendProperties, LenProperties
<1>. QED BY <1>1 DEF Range

LEMMA RangeType ==
    ASSUME NEW S, NEW seq \in Seq(S)
    PROVE  Range(seq) \subseteq S
BY ElementOfSeq, LenProperties DEF Range

LEMMA FunctionIsSeq ==
    ASSUME NEW S, NEW n \in Nat, NEW f \in [1..n -> S]
    PROVE  f \in Seq(S)
BY SeqDef

-----------------------------------------------------------------------------
(***************************************************************************)
(* Specifications                                                          *)
(***************************************************************************)
LEMMA SpecTypes ==
    ASSUME NEW s \in Specs
    PROVE  /\ s \in Specification(VersionName, WeightObject, Ref)
           /\ s.versions \in Seq(Detail)
           /\ s.versions # <<>>
           /\ 1 \in DOMAIN s.versions
           /\ DOMAIN s.versions = 1..Len(s.versions)
           /\ s.deployment \in DeploymentPattern \cup {"unset"}
           /\ s.criteria.requestCount \in Seq(Ref)
           /\ s.criteria.rewards \in Seq(Ref)
           /\ s.criteria.indicators \in Seq(Ref)
           /\ DOMAIN s.criteria.objectives = 1..Len(s.criteria.objectives)
           /\ Len(s.criteria.objectives) \in Nat
           /\ \A i \in DOMAIN s.criteria.objectives : s.criteria.objectives[i].metric \in Ref
<1>1. s \in Specification(VersionName, WeightObject, Ref) /\ HasVersionInfo(s)
  BY RunningStageAssumption DEF Ref
<1>2. s.versions \in Seq(Detail) /\ s.versions # <<>>
  BY <1>1 DEF Specification, HasVersionInfo, Detail
<1>3. 1 \in DOMAIN s.versions /\ DOMAIN s.versions = 1..Len(s.versions)
  BY <1>2, LenProperties, EmptySeq
<1>4. s.criteria \in Criteria(Ref) /\ s.deployment \in DeploymentPattern \cup {"unset"}
  BY <1>1 DEF Specification
<1>5. /\ s.criteria.requestCount \in Seq(Ref)
      /\ s.criteria.rewards \in Seq(Ref)
      /\ s.criteria.indicators \in Seq(Ref)
      /\ s.criteria.objectives \in Seq([metric : Ref, rollback : {"unset", "true", "false"}])
  BY <1>4 DEF Criteria
<1>6. /\ DOMAIN s.criteria.objectives = 1..Len(s.criteria.objectives)
      /\ Len(s.criteria.objectives) \in Nat
      /\ \A i \in DOMAIN s.criteria.objectives : s.criteria.objectives[i].metric \in Ref
  <2>. DEFINE Entry == [metric : Ref, rollback : {"unset", "true", "false"}]
  <2>1. s.criteria.objectives \in Seq(Entry)
    BY <1>5
  <2>2. \A x \in Entry : x.metric \in Ref
    OBVIOUS
  <2>. HIDE DEF Entry
  <2>3. /\ DOMAIN s.criteria.objectives = 1..Len(s.criteria.objectives)
        /\ Len(s.criteria.objectives) \in Nat
        /\ \A i \in DOMAIN s.criteria.objectives : s.criteria.objectives[i] \in Entry
    BY <2>1, LenProperties
  <2>. QED BY <2>2, <2>3
<1>. QED BY <1>1, <1>2, <1>3, <1>4, <1>5, <1>6

LEMMA VersionTypes ==
    ASSUME NEW s \in Specs, NEW i \in DOMAIN s.versions
    PROVE  /\ s.versions[i].name \in NamesOf(s)
           /\ s.versions[i].name \in VersionName
           /\ s.versions[i].ref \in WeightObjRef(WeightObject)
           /\ s.versions[i].ref # NoRef =>
                 s.versions[i].ref.path \in {"dotted", "indexed", "undotted", "empty"}
<1>1. s.versions[i] \in Detail
  BY SpecTypes, ElementOfSeq
<1>2. s.versions[i].name \in VersionName /\ s.versions[i].ref \in WeightObjRef(WeightObject)
  BY <1>1 DEF Detail, VersionDetail
<1>. QED BY <1>2 DEF NamesOf, WeightObjRef

LEMMA BaselineNamed == \A s \in Specs : Baseline(s) \in NamesOf(s)
BY SpecTypes DEF Baseline, NamesOf

(* The specification as an object shows it.                                *)
LEMMA SpecShown ==
    ASSUME spec \in Specs, NEW o
    PROVE  /\ SpecOf(o).deployment = spec.deployment
           /\ o.versioned => SpecOf(o) = spec
           /\ ~o.versioned => SpecOf(o).versions = <<>>
           /\ SpecOf(o).versions \in Seq(Detail)
           /\ SpecOf(o).versions # <<>> => SpecOf(o) = spec
           /\ DOMAIN SpecOf(o).versions \subseteq DOMAIN spec.versions
           /\ \A i \in DOMAIN SpecOf(o).versions : SpecOf(o).versions[i] = spec.versions[i]
           /\ InitializeSpec(SpecOf(o)).versions = SpecOf(o).versions
           /\ InitializeSpec(SpecOf(o)).deployment = GetDeploymentPattern(spec)
<1>1. spec \in Specification(VersionName, WeightObject, Ref) /\ spec.versions \in Seq(Detail)
  BY SpecTypes
<1>2. CASE o.versioned
  BY <1>1, <1>2 DEF SpecOf, InitializeSpec, GetDeploymentPattern, Specification
<1>3. CASE ~o.versioned
  <2>1. /\ SpecOf(o).versions = <<>> /\ SpecOf(o).deployment = spec.deployment
        /\ InitializeSpec(SpecOf(o)).versions = SpecOf(o).versions
        /\ InitializeSpec(SpecOf(o)).deployment = GetDeploymentPattern(SpecOf(o))
    BY <1>1, <1>3 DEF SpecOf, InitializeSpec, Specification
  <2>2. <<>> \in Seq(Detail) /\ DOMAIN <<>> = {}
    OBVIOUS
  <2>. QED BY <1>3, <2>1, <2>2 DEF GetDeploymentPattern
<1>. QED BY <1>2, <1>3

LEMMA PatternSet ==
    ASSUME spec \in Specs
    PROVE  /\ GetDeploymentPattern(spec) # "unset"
           /\ GetDeploymentPattern(spec) = "FixedSplit" <=> spec.deployment = "FixedSplit"
BY SpecTypes DEF GetDeploymentPattern, DeploymentPattern

LEMMA FieldNames ==
    ASSUME spec \in Specs
    PROVE  /\ Fields \subseteq Names
           /\ \A i \in DOMAIN spec.versions :
                 HasField(spec.versions[i]) => spec.versions[i].name \in Fields
BY DEF Fields, Names, NamesOf, Range

LEMMA MissingCount ==
    ASSUME spec \in Specs
    PROVE  /\ IsFiniteSet(MissingVersions(spec))
           /\ Cardinality(MissingVersions(spec)) \in Nat
           /\ Cardinality(MissingVersions(spec)) = 0 => MissingVersions(spec) = {}
           /\ Cardinality(MissingVersions(spec)) = 1 =>
                 \E i \in DOMAIN spec.versions : MissingVersions(spec) = {i}
<1>1. MissingVersions(spec) \subseteq 1..Len(spec.versions) /\ Len(spec.versions) \in Nat
  BY SpecTypes, LenProperties DEF MissingVersions
<1>2. IsFiniteSet(MissingVersions(spec))
  <2>1. IsFiniteSet(1..Len(spec.versions))
    BY <1>1, FS_Interval
  <2>. QED BY <1>1, <2>1, FS_Subset
<1>. QED BY <1>2, FS_CardinalityType, FS_EmptySet, FS_Singleton DEF MissingVersions

-----------------------------------------------------------------------------
(***************************************************************************)
(* Sums of weights.  A recursive function is defined if some function      *)
(* satisfies its equation; that one does follows from the least number of  *)
(* entries for which none would.                                           *)
(***************************************************************************)
(* f adds up the first n entries. *)
AddsUp(f, dist, n) ==
    /\ f[0] = 0
    /\ \A i \in 1..n : f[i] = f[i - 1] + dist[i].value

Adds(f, dist, n) == f \in [0..n -> Int] /\ AddsUp(f, dist, n)

LEMMA WeightValues ==
    ASSUME NEW dist \in Dist
    PROVE  /\ Len(dist) \in Nat /\ DOMAIN dist = 1..Len(dist)
           /\ \A i \in 1..Len(dist) : dist[i].value \in Int /\ dist[i].name \in Names
<1>. DEFINE Entry == [name : Names, value : Int]
<1>1. dist \in Seq(Entry)
  BY DEF Dist
<1>2. \A e \in Entry : e.value \in Int /\ e.name \in Names
  OBVIOUS
<1>. HIDE DEF Entry
<1>. QED BY <1>1, <1>2, LenProperties, ElementOfSeq

LEMMA SumUnique ==
    ASSUME NEW n \in Nat, NEW f, NEW g, NEW d, NEW e,
           AddsUp(f, d, n), AddsUp(g, e, n), \A i \in 1..n : d[i].value = e[i].value
    PROVE  \A i \in 0..n : f[i] = g[i]
<1>. DEFINE Bad == {i \in 0..n : f[i] # g[i]}
<1>1. SUFFICES ASSUME Bad # {} PROVE FALSE
  OBVIOUS
<1>2. PICK m \in Bad : \A k \in Bad : m <= k
  <2>1. Bad \in SUBSET Nat
    OBVIOUS
  <2>. HIDE DEF Bad
  <2>. QED BY <1>1, <2>1, LeastNumber
<1>3. m \in 1..n /\ m - 1 \in 0..n /\ ~(m <= m - 1)
  BY <1>2 DEF AddsUp
<1>4. f[m - 1] = g[m - 1]
  BY <1>2, <1>3
<1>. QED BY <1>2, <1>3, <1>4 DEF AddsUp

LEMMA SumExists ==
    ASSUME NEW dist \in Dist
    PROVE  \A n \in 0..Len(dist) : \E f : Adds(f, dist, n)
<1>. DEFINE Bad == {n \in 0..Len(dist) : ~\E f : Adds(f, dist, n)}
<1>1. Bad \in SUBSET Nat
  OBVIOUS
<1>2. SUFFICES ASSUME Bad # {} PROVE FALSE
  OBVIOUS
<1>3. PICK n \in Bad : \A m \in Bad : n <= m
  <2>. HIDE DEF Bad
  <2>. QED BY <1>1, <1>2, LeastNumber
<1>4. CASE n = 0
  <2>1. Adds([i \in 0..0 |-> 0], dist, 0)
    BY DEF Adds, AddsUp
  <2>. QED BY <1>3, <1>4, <2>1
<1>5. CASE n # 0
  <2>1. n \in 1..Len(dist) /\ n - 1 \in 0..Len(dist) /\ ~(n <= n - 1)
    BY <1>3, <1>5, WeightValues
  <2>2. PICK f : Adds(f, dist, n - 1)
    BY <1>3, <2>1
  <2>3. dist[n].value \in Int /\ n \in Nat
    BY <2>1, WeightValues
  <2>. DEFINE g == [i \in 0..n |-> IF i = n THEN f[n - 1] + dist[n].value ELSE f[i]]
  <2>4. g \in [0..n -> Int]
    BY <2>1, <2>2, <2>3 DEF Adds, AddsUp
  <2>5. \A i \in 0..n-1 : g[i] = f[i]
    BY <2>1, <2>3
  <2>6. g[n] = g[n - 1] + dist[n].value
    BY <2>1, <2>3
  <2>7. \A i \in 1..n-1 : g[i] = g[i - 1] + dist[i].value
    BY <2>1, <2>2, <2>3, <2>5 DEF Adds, AddsUp
  <2>8. g[0] = 0
    BY <2>1, <2>2, <2>5 DEF Adds, AddsUp
  <2>. HIDE DEF g
  <2>9. Adds(g, dist, n)
    BY <2>1, <2>3, <2>4, <2>6, <2>7, <2>8 DEF Adds, AddsUp
  <2>. QED BY <1>3, <2>9
<1>. QED BY <1>4, <1>5

LEMMA SumsAdd ==
    ASSUME NEW dist \in Dist
    PROVE  Adds(Sums(dist), dist, Len(dist))
<1>. DEFINE L == Len(dist)
            Def(f) == [n \in 0..L |-> IF n = 0 THEN 0 ELSE f[n - 1] + dist[n].value]
<1>1. Sums(dist) = CHOOSE f : f = Def(f)
  BY DEF Sums
<1>2. L \in Nat /\ \A i \in 1..L : dist[i].value \in Int
  BY WeightValues
<1>3. PICK f : Adds(f, dist, L)
  BY <1>2, SumExists
<1>4. f = Def(f)
  BY <1>2, <1>3 DEF Adds, AddsUp
<1>5. Sums(dist) = Def(Sums(dist))
  <2>. DEFINE h == Sums(dist)
  <2>1. h = CHOOSE k : k = Def(k)
    BY <1>1
  <2>. HIDE DEF h, Def
  <2>2. h = Def(h)
    BY <1>4, <2>1
  <2>. QED BY <2>2 DEF h
<1>6. \A n \in 0..L : Sums(dist)[n] = f[n]
  <2>. DEFINE h == Sums(dist)
  <2>1. h = Def(h)
    BY <1>5
  <2>. HIDE DEF h
  <2>2. AddsUp(h, dist, L)
    BY <1>2, <2>1 DEF AddsUp
  <2>3. AddsUp(f, dist, L)
    BY <1>3 DEF Adds, AddsUp
  <2>4. \A i \in 0..L : h[i] = f[i]
    BY <1>2, <2>2, <2>3, SumUnique
  <2>. QED BY <2>4 DEF h
<1>7. Sums(dist) = [n \in 0..L |-> f[n]]
  BY <1>5, <1>6
<1>. QED BY <1>2, <1>3, <1>7 DEF Adds, AddsUp

LEMMA Totals ==
    ASSUME NEW dist \in Dist, NEW e \in [name : Names, value : Int]
    PROVE  /\ Total(dist) \in Int
           /\ Append(dist, e) \in Dist
           /\ Total(Append(dist, e)) = Total(dist) + e.value
           /\ {d.name : d \in Range(Append(dist, e))}
                 = {d.name : d \in Range(dist)} \cup {e.name}
<1>. DEFINE L == Len(dist)
            longer == Append(dist, e)
<1>1. /\ L \in Nat /\ longer \in Dist /\ Len(longer) = L + 1
      /\ DOMAIN dist = 1..L /\ DOMAIN longer = 1..(L + 1)
      /\ \A i \in 1..L : longer[i] = dist[i]
      /\ longer[L + 1] = e
  <2>. DEFINE Entry == [name : Names, value : Int]
  <2>1. dist \in Seq(Entry) /\ e \in Entry
    BY DEF Dist
  <2>. HIDE DEF Entry
  <2>2. longer \in Seq(Entry)
    BY <2>1, AppendProperties
  <2>. QED BY <2>1, <2>2, AppendProperties, LenProperties DEF Dist, Entry
<1>2. Adds(Sums(dist), dist, L) /\ Adds(Sums(longer), longer, L + 1)
  <2>. HIDE DEF longer
  <2>. QED BY <1>1, SumsAdd
<1>3. Total(dist) = Sums(dist)[L] /\ Total(longer) = Sums(longer)[L + 1]
  BY <1>1 DEF Total
<1>. HIDE DEF longer
<1>4. \A i \in 0..L : Sums(longer)[i] = Sums(dist)[i]
  <2>1. AddsUp(Sums(dist), dist, L)
    BY <1>2 DEF Adds, AddsUp
  <2>2. AddsUp(Sums(longer), longer, L)
    BY <1>1, <1>2 DEF Adds, AddsUp
  <2>. QED BY <1>1, <2>1, <2>2, SumUnique
<1>5. Total(dist) \in Int
  BY <1>1, <1>2, <1>3 DEF Adds, AddsUp
<1>6. Sums(longer)[L + 1] = Sums(longer)[L] + e.value
  BY <1>1, <1>2 DEF Adds, AddsUp
<1>7. Total(longer) = Total(dist) + e.value
  BY <1>1, <1>3, <1>4, <1>6
<1>8. {d.name : d \in Range(longer)} = {d.name : d \in Range(dist)} \cup {e.name}
  <2>1. Range(longer) = Range(dist) \cup {e}
    BY <1>1 DEF Range
  <2>. QED BY <2>1
<1>. QED BY <1>1, <1>5, <1>7, <1>8 DEF longer

-----------------------------------------------------------------------------
(***************************************************************************)
(* Objects.  At rest are those that are stored or may be read again; while *)
(* an iteration is under way, the one in memory is not: its analysis is    *)
(* new, and the rest of it is old.                                         *)
(***************************************************************************)
Stage == {"Initializing", "Running", "Finishing", "Completed"}

InFlight == pc \in {"patch", "observe", "panic"}

Resting == {store, cache} \cup Range(pending) \cup {o \in {obj} : ~InFlight}

Iterating == pc \in {"iterate", "patch", "observe"}

(* Requests: the objects have their types, and what the place in Reconcile *)
(* says of the object in memory.                                           *)
RequestTypes ==
    /\ spec \in Specs
    /\ store \in Object /\ cache \in Object /\ obj \in Object
    /\ pending \in Seq(Object)
    /\ loopJob \in {"absent", "running", "complete"} /\ current \in BOOLEAN
    /\ finishJob \in {"no handler", "absent", "running", "complete", "failed"}
    /\ pc \in {"idle", "check", "act", "read metrics", "iterate", "patch", "observe",
               "observe at start", "observe after loop", "save", "panic"}
    /\ pc \notin {"idle", "check", "panic"} => obj.stage # "Completed"
    /\ Iterating => obj.versioned /\ obj.stage # "Initializing" /\ IsVersionInfoValid(spec)

MetricTypes ==
    /\ DOMAIN catalog \subseteq MetricKey
    /\ \A key \in DOMAIN catalog : catalog[key] = Catalog[key]
    /\ DOMAIN found \subseteq MetricKey
    /\ todo \in Seq(RefKey)

PatchType(p) ==
    \A object \in DOMAIN p :
       /\ DOMAIN p[object] \subseteq Fields
       /\ \A name \in DOMAIN p[object] : p[object][name] \in {0, 100}

WeightTypes ==
    /\ actual \in [Fields -> Weight \cup {100}]
    /\ PatchType(patches)
    /\ unread \in Seq(DOMAIN spec.versions)
    /\ Observing => unread \in Seq(DOMAIN SpecOf(obj).versions)
    /\ seen \in Dist

TypeInv == RequestTypes /\ MetricTypes /\ WeightTypes

(* What a step may make of the objects there are.                          *)
Failure(o) == [[o EXCEPT !.failed = TRUE] EXCEPT !.stage = "Completed"]

Made(o) ==
    \/ \E v \in BOOLEAN : o = [store EXCEPT !.versioned = v]
    \/ pc \in {"check", "iterate"} /\ o = [obj EXCEPT !.stage = "Completed"]
    \/ o = Failure(obj)
    \/ pc = "read metrics" /\ AllRead /\ o = [obj EXCEPT !.metrics = DOMAIN found]
    \/ pc = "act" /\ obj.stage = "Initializing" /\ o = [obj EXCEPT !.stage = "Running"]
    \/ /\ pc = "act" /\ obj.stage # "Initializing" /\ IsVersionInfoValid(SpecOf(obj))
       /\ o = Recommending(obj)
    \/ pc = "iterate" /\ o = [obj EXCEPT !.stage = "Finishing"]
    \/ /\ pc = "iterate"
       /\ \E analysis \in Analyses, stage \in {"Finishing", "Completed"} :
             mustRollback(spec, analysis) /\ o = [Invoked(analysis) EXCEPT !.stage = stage]
    \/ pc = "iterate" /\ \E analysis \in Analyses : o = Failure(Invoked(analysis))
    \/ pc \in {"observe after loop", "observe at start"} /\ WeightsKnown /\ o = WithDistribution
    \/ pc = "observe" /\ WeightsKnown /\ o = Recommending(WithDistribution)

Usual(o) == o \in Resting \/ Made(o)

(* What it may do to the watch, and to an iteration under way.             *)
WatchStep ==
    \/ UNCHANGED <<store, pending>>
    \/ Publish(store')
    \/ UNCHANGED store /\ pending # <<>> /\ pending' = Tail(pending)
    \/ UNCHANGED store /\ pending' = <<>>

FlightStep ==
    \/ ~InFlight' /\ Usual(obj')
    \/ pc' = "panic" /\ NilPattern
    \/ UNCHANGED obj /\ (pc' = pc \/ (pc = "patch" /\ pc' = "observe"))
    \/ /\ pc = "iterate" /\ pc' \in {"patch", "observe"}
       /\ \E analysis \in Analyses : GoesOn(analysis) /\ obj' = Invoked(analysis)

ObjectStep ==
    /\ UNCHANGED spec
    /\ Usual(store')
    /\ cache' \in {cache, store} \cup Range(pending)
    /\ WatchStep
    /\ FlightStep

LEMMA EndStep ==
    ASSUME UNCHANGED <<spec, cache>>, NEW o, Usual(o), EndRequest(o) \/ Leave
    PROVE  ObjectStep
<1>1. Usual(store)
  BY DEF Usual, Resting
<1>2. Usual(store') /\ WatchStep
  BY <1>1 DEF EndRequest, Leave, Publish, WatchStep, server
<1>3. pc' = "idle" /\ obj' = store'
  BY DEF EndRequest, Leave, Done
<1>. QED BY <1>2, <1>3 DEF ObjectStep, FlightStep, InFlight

LEMMA GoStep ==
    ASSUME UNCHANGED <<spec, cache>>, NEW o, NEW label, GoOn(label, o),
           label \notin {"patch", "observe", "panic"}, Usual(o)
    PROVE  ObjectStep
<1>1. Usual(store)
  BY DEF Usual, Resting
<1>. QED BY <1>1 DEF GoOn, ObjectStep, WatchStep, FlightStep, InFlight, server

LEMMA TerminateStep ==
    ASSUME UNCHANGED <<spec, cache>>, NEW o, Terminate(o),
           Usual([o EXCEPT !.stage = "Completed"]), Usual([o EXCEPT !.stage = "Finishing"])
    PROVE  ObjectStep
<1>1. CASE finishJob = "no handler"
  BY <1>1, EndStep DEF Terminate, End
<1>2. CASE finishJob # "no handler"
  <2>1. Usual(store)
    BY DEF Usual, Resting
  <2>2. Usual(store') /\ WatchStep
    BY <1>2, <2>1 DEF Terminate, Publish, WatchStep, server
  <2>3. pc' = "idle" /\ obj' = store'
    BY <1>2 DEF Terminate, Done
  <2>. QED BY <2>2, <2>3 DEF ObjectStep, FlightStep, InFlight
<1>. QED BY <1>1, <1>2

LEMMA SurroundingsStep ==
    ASSUME RequestTypes, Surroundings
    PROVE  ObjectStep
<1>1. /\ Usual(store) /\ Usual(cache)
      /\ \A o \in Range(pending) : Usual(o)
  BY DEF Usual, Resting
<1>2. CASE Edit
  <2>1. PICK v \in BOOLEAN : Publish([store EXCEPT !.versioned = v])
    BY <1>2 DEF Edit, RequestTypes, Object
  <2>2. store' = [store EXCEPT !.versioned = v] /\ Publish(store')
    BY <2>1 DEF Publish
  <2>3. Usual(store')
    BY <2>2 DEF Usual, Made
  <2>. QED BY <1>2, <2>2, <2>3 DEF Edit, ObjectStep, WatchStep, FlightStep, cluster
<1>3. CASE Deliver
  <2>1. Head(pending) \in Range(pending)
    BY <1>3, RangeHeadTail DEF Deliver, RequestTypes
  <2>. QED BY <1>1, <1>3, <2>1 DEF Deliver, ObjectStep, WatchStep, FlightStep, cluster
<1>4. CASE MetricDeleted
  BY <1>1, <1>4 DEF MetricDeleted, ObjectStep, WatchStep, FlightStep, cluster, server
<1>5. CASE Drift
  BY <1>1, <1>5 DEF Drift, ObjectStep, WatchStep, FlightStep, cluster, server
<1>6. CASE LoopHandlerCompletes
  BY <1>1, <1>6 DEF LoopHandlerCompletes, ObjectStep, WatchStep, FlightStep, server
<1>7. CASE FinishHandlerEnds
  BY <1>1, <1>7 DEF FinishHandlerEnds, ObjectStep, WatchStep, FlightStep, server
<1>8. CASE Restart
  BY <1>1, <1>8 DEF Restart, ObjectStep, WatchStep, FlightStep, InFlight, cluster
<1>. QED BY <1>2, <1>3, <1>4, <1>5, <1>6, <1>7, <1>8 DEF Surroundings

LEMMA ReconcileStep ==
    ASSUME RequestTypes, Reconcile
    PROVE  ObjectStep
<1>1. UNCHANGED <<spec, cache>>
  BY DEF Reconcile
<1>2. Usual(store) /\ (~InFlight => Usual(obj)) /\ Usual(Failure(obj))
  BY DEF Usual, Resting, Made
<1>3. CASE NothingToDo
  BY <1>1, <1>2, <1>3, EndStep DEF NothingToDo
<1>4. CASE FinishHandlerEnded
  <2>1. EndRequest([obj EXCEPT !.stage = "Completed"]) \/ EndRequest(Failure(obj))
    BY <1>4 DEF FinishHandlerEnded, End, Fail, Failure
  <2>2. Usual([obj EXCEPT !.stage = "Completed"])
    BY <1>4 DEF FinishHandlerEnded, Usual, Made
  <2>. QED BY <1>1, <1>2, <2>1, <2>2, EndStep
<1>5. CASE HandlersDone \/ ObserveAfterLoop
  BY <1>1, <1>2, <1>5, GoStep DEF HandlersDone, ObserveAfterLoop, Active, InFlight
<1>6. CASE StartReadingMetrics \/ ReadOneMetric
  BY <1>1, <1>2, <1>6, GoStep DEF StartReadingMetrics, ReadOneMetric, InFlight
<1>7. CASE MetricsRead
  <2>1. \/ AllRead /\ EndRequest([obj EXCEPT !.metrics = DOMAIN found])
        \/ EndRequest(Failure(obj))
    BY <1>7 DEF MetricsRead, End, Fail, Failure
  <2>2. AllRead => Usual([obj EXCEPT !.metrics = DOMAIN found])
    BY <1>7 DEF MetricsRead, Usual, Made
  <2>. QED BY <1>1, <1>2, <2>1, <2>2, EndStep
<1>8. CASE StartRunning
  <2>. DEFINE o == [obj EXCEPT !.stage = "Running"]
  <2>1. Usual(o)
    BY <1>8 DEF StartRunning, MetricsKnown, Usual, Made
  <2>2. GoOn("observe at start", o)
    BY <1>8 DEF StartRunning
  <2>. HIDE DEF o
  <2>. QED BY <1>1, <2>1, <2>2, GoStep
<1>9. CASE ValidateVersions
  <2>1. CASE IsVersionInfoValid(SpecOf(obj))
    <3>1. Usual(Recommending(obj))
      BY <1>9, <2>1 DEF ValidateVersions, MetricsKnown, Usual, Made
    <3>. QED BY <1>1, <1>9, <2>1, <3>1, GoStep DEF ValidateVersions
  <2>2. CASE ~IsVersionInfoValid(SpecOf(obj))
    BY <1>1, <1>2, <1>9, <2>2, EndStep DEF ValidateVersions, Fail, End, Failure
  <2>. QED BY <2>1, <2>2
<1>10. CASE FinishExperiment
  <2>1. Usual([obj EXCEPT !.stage = "Completed"]) /\ Usual([obj EXCEPT !.stage = "Finishing"])
    BY <1>10 DEF FinishExperiment, Usual, Made
  <2>. QED BY <1>1, <1>10, <2>1, TerminateStep DEF FinishExperiment
<1>11. CASE InvokeFails
  BY <1>1, <1>2, <1>11, EndStep DEF InvokeFails, Fail, End, Failure
<1>12. CASE RollbackExperiment
  <2>1. PICK analysis \in Analyses : mustRollback(spec, analysis) /\ Terminate(Invoked(analysis))
    BY <1>12 DEF RollbackExperiment
  <2>2. \A stage \in {"Finishing", "Completed"} :
           Usual([Invoked(analysis) EXCEPT !.stage = stage])
    BY <1>12, <2>1 DEF RollbackExperiment, Usual, Made
  <2>3. /\ Usual([Invoked(analysis) EXCEPT !.stage = "Completed"])
        /\ Usual([Invoked(analysis) EXCEPT !.stage = "Finishing"])
    BY <2>2
  <2>. QED BY <1>1, <2>1, <2>3, TerminateStep
<1>13. CASE RedistributeWeight
  <2>1. PICK analysis \in Analyses :
           /\ GoesOn(analysis)
           /\ \/ Fail(Invoked(analysis))
              \/ GoOn("patch", Invoked(analysis))
    BY <1>13 DEF RedistributeWeight
  <2>2. CASE Fail(Invoked(analysis))
    <3>1. Usual(Failure(Invoked(analysis)))
      BY <1>13 DEF RedistributeWeight, Usual, Made
    <3>. QED BY <1>1, <2>2, <3>1, EndStep DEF Fail, End, Failure
  <2>3. CASE GoOn("patch", Invoked(analysis))
    BY <1>1, <1>2, <1>13, <2>1, <2>3
       DEF RedistributeWeight, GoOn, ObjectStep, WatchStep, FlightStep, server
  <2>. QED BY <2>1, <2>2, <2>3
<1>14. CASE KeepWeights
  BY <1>1, <1>2, <1>14 DEF KeepWeights, GoOn, ObjectStep, WatchStep, FlightStep, server
<1>15. CASE ApplyPatch \/ LosePatch \/ Redistributed
  BY <1>1, <1>2, <1>15
     DEF ApplyPatch, LosePatch, Redistributed, GoOn, ObjectStep, WatchStep, FlightStep, server
<1>16. CASE ObserveOne
  BY <1>1, <1>2, <1>16 DEF ObserveOne, GoOn, ObjectStep, WatchStep, FlightStep, server
<1>17. CASE ObservedAfterLoop \/ ObservedAtStart
  <2>1. Usual(WithDistribution)
    BY <1>17 DEF ObservedAfterLoop, ObservedAtStart, Usual, Made
  <2>. QED BY <1>1, <1>17, <2>1, GoStep, EndStep DEF ObservedAfterLoop, ObservedAtStart
<1>18. CASE CompleteIteration \/ LaunchLoopHandler
  <2>1. Usual(Recommending(WithDistribution))
    BY <1>18 DEF CompleteIteration, LaunchLoopHandler, Usual, Made
  <2>. QED BY <1>1, <1>18, <2>1, GoStep, EndStep DEF CompleteIteration, LaunchLoopHandler
<1>19. CASE WeightsUnknown
  <2>1. Leave \/ EndRequest(Failure(obj))
    BY <1>19 DEF WeightsUnknown, Fail, End, Failure
  <2>. QED BY <1>1, <1>2, <2>1, EndStep
<1>20. CASE NilPattern
  BY <1>1, <1>2, <1>20 DEF NilPattern, GoOn, ObjectStep, WatchStep, FlightStep, server
<1>21. CASE SaveLaunch
  BY <1>1, <1>2, <1>21, EndStep DEF SaveLaunch, InFlight
<1>. QED
  BY <1>3, <1>4, <1>5, <1>6, <1>7, <1>8, <1>9, <1>10, <1>11, <1>12, <1>13, <1>14, <1>15,
     <1>16, <1>17, <1>18, <1>19, <1>20, <1>21 DEF Reconcile

(* What becomes of the objects in a step of the system.                    *)
LEMMA Steps ==
    ASSUME RequestTypes, [Next]_vars
    PROVE  ObjectStep
<1>1. Usual(store)
  BY DEF Usual, Resting
<1>2. CASE Begin /\ UNCHANGED <<spec, cache, loopJob>>
  <2>1. Usual(cache)
    BY DEF Usual, Resting
  <2>. QED
    BY <1>1, <1>2, <2>1 DEF Begin, ObjectStep, WatchStep, FlightStep, InFlight, server
<1>3. CASE UNCHANGED vars
  BY <1>1, <1>3 DEF ObjectStep, WatchStep, FlightStep, vars
<1>. QED BY <1>1, <1>2, <1>3, SurroundingsStep, ReconcileStep DEF Next

(* All that is at rest afterwards.                                         *)
LEMMA RestingStep ==
    ASSUME RequestTypes, ObjectStep, pc # "panic", pc' # "panic"
    PROVE  \A o \in Resting' : Usual(o)
<1>1. Usual(store) /\ Usual(cache) /\ \A o \in Range(pending) : Usual(o)
  BY DEF Usual, Resting
<1>2. Usual(store') /\ Usual(cache')
  BY <1>1 DEF ObjectStep
<1>3. Range(pending') \subseteq Range(pending) \cup {store'}
  <2>1. CASE UNCHANGED pending
    BY <2>1
  <2>2. CASE pending' = Append(pending, store')
    <3>. DEFINE S == Object \cup {store'}
    <3>1. pending \in Seq(S) /\ store' \in S
      BY SeqMonotonic DEF RequestTypes
    <3>. HIDE DEF S
    <3>. QED BY <2>2, <3>1, RangeAppend
  <2>3. CASE pending # <<>> /\ pending' = Tail(pending)
    BY <2>3, RangeHeadTail DEF RequestTypes
  <2>4. CASE pending' = <<>>
    BY <2>4 DEF Range
  <2>. QED BY <2>1, <2>2, <2>3, <2>4 DEF ObjectStep, WatchStep, Publish
<1>4. ~InFlight' => Usual(obj')
  <2>. SUFFICES ASSUME ~InFlight' PROVE Usual(obj')
    OBVIOUS
  <2>1. CASE UNCHANGED <<obj, pc>>
    BY <2>1 DEF InFlight, Usual, Resting
  <2>. QED BY <2>1 DEF ObjectStep, FlightStep, InFlight
<1>. QED BY <1>1, <1>2, <1>3, <1>4 DEF Resting

-----------------------------------------------------------------------------
(***************************************************************************)
(* Types                                                                   *)
(***************************************************************************)
Chosen(a) == IF a.winner = "none" THEN Baseline(spec) ELSE a.winner

LEMMA ChosenNamed ==
    ASSUME spec \in Specs, NEW a \in Analyses \cup {NoAnalysis}
    PROVE  Chosen(a) \in Names
<1>1. Baseline(spec) \in Names
  BY BaselineNamed DEF Names
<1>2. a.winner \in (Names \ {Baseline(spec)}) \cup {"none"}
  <2>1. CASE a \in Analyses
    BY <2>1 DEF Analyses
  <2>2. CASE a = NoAnalysis
    BY <2>2 DEF NoAnalysis
  <2>. QED BY <2>1, <2>2
<1>. QED BY <1>1, <1>2 DEF Chosen

LEMMA RecommendingIs ==
    \A o : Recommending(o) = [o EXCEPT !.recommended = Chosen(o.analysis)]
BY DEF Recommending, Chosen, identfiedWinner

(* Each write changes its field and no other.                              *)
LEMMA Writing ==
    ASSUME NEW o \in Object
    PROVE  /\ \A v \in BOOLEAN : [o EXCEPT !.versioned = v] \in Object
           /\ \A s \in Stage : [o EXCEPT !.stage = s] \in Object
           /\ [o EXCEPT !.failed = TRUE] \in Object
           /\ \A m \in SUBSET MetricKey : [o EXCEPT !.metrics = m] \in Object
           /\ \A d \in Dist : [o EXCEPT !.dist = d] \in Object
           /\ \A a \in Analyses : [o EXCEPT !.analysis = a] \in Object
           /\ \A n \in Names : [o EXCEPT !.recommended = n] \in Object
BY DEF Object, Stage

LEMMA FailureIs ==
    ASSUME NEW o \in Object
    PROVE  /\ Failure(o) \in Object
           /\ Failure(o).stage = "Completed" /\ Failure(o).failed
           /\ Failure(o).metrics = o.metrics
BY DEF Failure, Object

LEMMA DistributionTypes ==
    ASSUME spec \in Specs, seen \in Dist
    PROVE  /\ ObservedDistribution(spec) \in Dist
           /\ \A i \in DOMAIN spec.versions : MissingVersions(spec) = {i} =>
                 /\ Total(ObservedDistribution(spec)) = 100
                 /\ {d.name : d \in Range(ObservedDistribution(spec))}
                       = {d.name : d \in Range(seen)} \cup {spec.versions[i].name}
           /\ Cardinality(MissingVersions(spec)) # 1 => ObservedDistribution(spec) = seen
<1>1. CASE Cardinality(MissingVersions(spec)) = 1
  <2>1. PICK i \in DOMAIN spec.versions : MissingVersions(spec) = {i}
    BY <1>1, MissingCount
  <2>. DEFINE e == [name |-> spec.versions[i].name, value |-> 100 - Total(seen)]
  <2>2. (CHOOSE j \in MissingVersions(spec) : TRUE) = i
    BY <2>1
  <2>3. ObservedDistribution(spec) = Append(seen, e)
    BY <1>1, <2>2 DEF ObservedDistribution
  <2>4. spec.versions[i].name \in Names
    BY VersionTypes DEF Names
  <2>5. e \in [name : Names, value : Int] /\ Total(seen) \in Int
    <3>1. \A x \in [name : Names, value : Int] : Total(seen) \in Int
      BY Totals
    <3>2. [name |-> spec.versions[i].name, value |-> 0] \in [name : Names, value : Int]
      BY <2>4
    <3>3. Total(seen) \in Int
      BY <3>1, <3>2
    <3>4. 100 - Total(seen) \in Int
      BY <3>3
    <3>. QED BY <2>4, <3>3, <3>4
  <2>6. e.name = spec.versions[i].name /\ e.value = 100 - Total(seen)
    OBVIOUS
  <2>. HIDE DEF e
  <2>7. Total(Append(seen, e)) = Total(seen) + e.value
    BY <2>5, Totals
  <2>8. Total(Append(seen, e)) = 100
    BY <2>5, <2>6, <2>7
  <2>9. /\ Append(seen, e) \in Dist
        /\ {d.name : d \in Range(Append(seen, e))} = {d.name : d \in Range(seen)} \cup {e.name}
    BY <2>5, Totals
  <2>. QED BY <1>1, <2>1, <2>3, <2>6, <2>8, <2>9
<1>2. CASE Cardinality(MissingVersions(spec)) # 1
  BY <1>2, FS_Singleton DEF ObservedDistribution
<1>. QED BY <1>1, <1>2

LEMMA NewDistributionType ==
    ASSUME TypeInv
    PROVE  NewDistribution \in Dist
BY DistributionTypes DEF TypeInv, RequestTypes, WeightTypes, NewDistribution, Object

LEMMA MadeType ==
    ASSUME TypeInv, NEW o, Usual(o)
    PROVE  o \in Object
<1>1. spec \in Specs /\ store \in Object /\ obj \in Object /\ cache \in Object
  BY DEF TypeInv, RequestTypes
<1>2. CASE o \in Resting
  <2>1. Range(pending) \subseteq Object
    BY RangeType DEF TypeInv, RequestTypes
  <2>. QED BY <1>1, <1>2, <2>1 DEF Resting
<1>3. CASE \E v \in BOOLEAN : o = [store EXCEPT !.versioned = v]
  BY <1>1, <1>3, Writing
<1>4. CASE \E s \in Stage : o = [obj EXCEPT !.stage = s]
  BY <1>1, <1>4, Writing
<1>5. CASE o = Failure(obj)
  BY <1>1, <1>5, FailureIs
<1>6. CASE o = [obj EXCEPT !.metrics = DOMAIN found]
  BY <1>1, <1>6, Writing DEF TypeInv, MetricTypes
<1>7. CASE o = Recommending(obj)
  <2>1. obj.analysis \in Analyses \cup {NoAnalysis}
    BY <1>1 DEF Object
  <2>. QED BY <1>1, <1>7, <2>1, Writing, ChosenNamed, RecommendingIs
<1>8. CASE \E analysis \in Analyses, s \in Stage : o = [Invoked(analysis) EXCEPT !.stage = s]
  <2>1. PICK analysis \in Analyses, s \in Stage : o = [Invoked(analysis) EXCEPT !.stage = s]
    BY <1>8
  <2>2. Invoked(analysis) \in Object
    BY <1>1, Writing DEF Invoked
  <2>. QED BY <2>1, <2>2, Writing
<1>9. CASE \E analysis \in Analyses : o = Failure(Invoked(analysis))
  BY <1>1, <1>9, Writing, FailureIs DEF Invoked
<1>10. WithDistribution \in Object /\ WithDistribution.analysis = obj.analysis
  BY <1>1, NewDistributionType, Writing DEF WithDistribution, Object
<1>11. CASE o = Recommending(WithDistribution)
  <2>1. obj.analysis \in Analyses \cup {NoAnalysis}
    BY <1>1 DEF Object
  <2>. QED BY <1>1, <1>10, <1>11, <2>1, Writing, ChosenNamed, RecommendingIs
<1>. QED
  BY <1>2, <1>3, <1>4, <1>5, <1>6, <1>7, <1>8, <1>9, <1>10, <1>11 DEF Usual, Made, Stage

(* What follows from the specification alone does not change with a step.  *)
LEMMA SpecUnchanged ==
    ASSUME UNCHANGED spec
    PROVE  /\ Names' = Names /\ Fields' = Fields /\ Dist' = Dist
           /\ Analyses' = Analyses /\ Object' = Object
<1>1. Names' = Names
  BY DEF Names
<1>2. Fields' = Fields
  BY DEF Fields
<1>3. Dist' = Dist
  BY <1>1 DEF Dist
<1>4. Recommendations' = Recommendations
  BY <1>1 DEF Recommendations
<1>5. Analyses' = Analyses
  BY <1>1, <1>4 DEF Analyses
<1>. QED BY <1>1, <1>2, <1>3, <1>5 DEF Object

LEMMA ObjectsStep ==
    ASSUME TypeInv, [Next]_vars
    PROVE  /\ spec' \in Specs /\ spec' = spec
           /\ store' \in Object /\ cache' \in Object /\ obj' \in Object
           /\ pending' \in Seq(Object)
<1>1. ObjectStep /\ RequestTypes
  BY Steps DEF TypeInv
<1>2. store' \in Object
  BY <1>1, MadeType DEF ObjectStep
<1>3. cache' \in Object
  <2>1. Range(pending) \subseteq Object
    BY <1>1, RangeType DEF RequestTypes
  <2>. QED BY <1>1, <2>1 DEF ObjectStep, RequestTypes
<1>4. pending' \in Seq(Object)
  <2>1. pending \in Seq(Object) /\ <<>> \in Seq(Object)
    BY <1>1, EmptySeq DEF RequestTypes
  <2>2. Append(pending, store') \in Seq(Object)
    BY <1>2, <2>1, RangeAppend
  <2>3. pending # <<>> => Tail(pending) \in Seq(Object)
    BY <2>1, RangeHeadTail
  <2>. QED BY <1>1, <2>1, <2>2, <2>3 DEF ObjectStep, WatchStep, Publish
<1>5. obj' \in Object
  <2>1. CASE Usual(obj')
    BY <2>1, MadeType
  <2>2. CASE UNCHANGED obj
    BY <1>1, <2>2 DEF RequestTypes
  <2>3. CASE NilPattern
    BY <1>1, <2>3 DEF NilPattern, GoOn, RequestTypes
  <2>4. CASE \E analysis \in Analyses : obj' = Invoked(analysis)
    BY <1>1, <2>4, Writing DEF Invoked, RequestTypes
  <2>. QED BY <1>1, <2>1, <2>2, <2>3, <2>4 DEF ObjectStep, FlightStep
<1>. QED BY <1>1, <1>2, <1>3, <1>4, <1>5 DEF ObjectStep, RequestTypes

(* Where the worker is.                                                    *)
Places ==
    /\ loopJob \in {"absent", "running", "complete"} /\ current \in BOOLEAN
    /\ finishJob \in {"no handler", "absent", "running", "complete", "failed"}
    /\ pc \in {"idle", "check", "act", "read metrics", "iterate", "patch", "observe",
               "observe at start", "observe after loop", "save", "panic"}
    /\ pc \notin {"idle", "check", "panic"} => obj.stage # "Completed"
    /\ Iterating => obj.versioned /\ obj.stage # "Initializing" /\ IsVersionInfoValid(spec)

LEMMA IdlePlaces ==
    ASSUME TypeInv, UNCHANGED spec, loopJob' \in {"absent", "running", "complete"}, NEW o,
           EndRequest(o) \/ Leave \/ Terminate(o)
    PROVE  Places'
<1>1. pc' = "idle" /\ current' = FALSE /\ finishJob' \in {finishJob, "running"}
  BY DEF EndRequest, Leave, Terminate, End, Done
<1>. QED BY <1>1 DEF Places, Iterating, TypeInv, RequestTypes

LEMMA GoPlaces ==
    ASSUME TypeInv, UNCHANGED spec, loopJob' \in {"absent", "running", "complete"},
           NEW o, NEW label, GoOn(label, o),
           label \in {"act", "read metrics", "iterate", "patch", "observe",
                      "observe at start", "observe after loop", "save"},
           o.stage # "Completed",
           label \in {"iterate", "patch", "observe"} =>
              o.versioned /\ o.stage # "Initializing" /\ IsVersionInfoValid(spec)
    PROVE  Places'
BY DEF GoOn, Places, Iterating, TypeInv, RequestTypes

LEMMA SamePlace ==
    ASSUME TypeInv, UNCHANGED <<spec, pc, obj>>, loopJob' \in {"absent", "running", "complete"},
           current' \in BOOLEAN,
           finishJob' \in {"no handler", "absent", "running", "complete", "failed"}
    PROVE  Places'
BY DEF Places, Iterating, TypeInv, RequestTypes

LEMMA ValidShown ==
    ASSUME spec \in Specs, NEW o, IsVersionInfoValid(SpecOf(o)), o.versioned \in BOOLEAN
    PROVE  o.versioned /\ IsVersionInfoValid(spec)
<1>1. o.versioned
  BY SpecShown DEF IsVersionInfoValid, HasVersionInfo
<1>. QED BY <1>1, SpecShown

LEMMA PlacesStep ==
    ASSUME TypeInv, [Next]_vars
    PROVE  Places'
<1>. USE DEF cluster, server
<1>1. /\ spec \in Specs /\ obj \in Object /\ obj.versioned \in BOOLEAN
      /\ loopJob \in {"absent", "running", "complete"} /\ current \in BOOLEAN
      /\ finishJob \in {"no handler", "absent", "running", "complete", "failed"}
  BY DEF TypeInv, RequestTypes, Object
<1>2. /\ pc \notin {"idle", "check", "panic"} => obj.stage # "Completed"
      /\ Iterating => obj.versioned /\ obj.stage # "Initializing" /\ IsVersionInfoValid(spec)
  BY DEF TypeInv, RequestTypes
<1>3. CASE UNCHANGED vars
  BY <1>1, <1>3, SamePlace DEF vars
<1>4. CASE Edit \/ Deliver \/ MetricDeleted \/ Drift
  BY <1>1, <1>4, SamePlace DEF Edit, Deliver, MetricDeleted, Drift
<1>5. CASE LoopHandlerCompletes \/ FinishHandlerEnds
  BY <1>1, <1>5, SamePlace DEF LoopHandlerCompletes, FinishHandlerEnds
<1>6. CASE Restart
  BY <1>1, <1>6 DEF Restart, Places, Iterating
<1>7. CASE Begin /\ UNCHANGED <<spec, cache, loopJob>>
  BY <1>1, <1>7 DEF Begin, Places, Iterating
<1>8. CASE Reconcile
  <2>1. UNCHANGED spec /\ loopJob' \in {"absent", "running", "complete"}
    BY <1>1, <1>8 DEF Reconcile, LaunchLoopHandler
  <2>2. CASE NothingToDo \/ FinishHandlerEnded \/ MetricsRead \/ FinishExperiment \/ InvokeFails
             \/ RollbackExperiment \/ ObservedAtStart \/ CompleteIteration \/ WeightsUnknown
             \/ SaveLaunch
    <3>1. \E o : EndRequest(o) \/ Leave \/ Terminate(o)
      BY <2>2
         DEF NothingToDo, FinishHandlerEnded, MetricsRead, FinishExperiment, InvokeFails,
             RollbackExperiment, ObservedAtStart, CompleteIteration, WeightsUnknown, SaveLaunch,
             Fail, End
    <3>. QED BY <2>1, <3>1, IdlePlaces
  <2>3. CASE HandlersDone \/ ObserveAfterLoop
    BY <1>1, <2>1, <2>3, GoPlaces DEF HandlersDone, ObserveAfterLoop, Active
  <2>4. CASE StartReadingMetrics \/ ReadOneMetric
    BY <1>1, <1>2, <2>1, <2>4, GoPlaces DEF StartReadingMetrics, ReadOneMetric
  <2>5. CASE StartRunning
    <3>. DEFINE o == [obj EXCEPT !.stage = "Running"]
    <3>1. o.stage = "Running"
      BY <1>1 DEF Object
    <3>2. GoOn("observe at start", o)
      BY <2>5 DEF StartRunning
    <3>. HIDE DEF o
    <3>. QED BY <2>1, <3>1, <3>2, GoPlaces
  <2>6. CASE ValidateVersions
    <3>1. CASE IsVersionInfoValid(SpecOf(obj))
      <4>. DEFINE o == Recommending(obj)
      <4>1. o.stage = obj.stage /\ o.versioned = obj.versioned
        BY <1>1, RecommendingIs DEF Object
      <4>2. GoOn("iterate", o)
        BY <2>6, <3>1 DEF ValidateVersions
      <4>3. obj.versioned /\ IsVersionInfoValid(spec)
        BY <1>1, <3>1, ValidShown
      <4>4. obj.stage # "Initializing" /\ obj.stage # "Completed"
        BY <1>2, <2>6 DEF ValidateVersions, MetricsKnown
      <4>. HIDE DEF o
      <4>. QED BY <2>1, <4>1, <4>2, <4>3, <4>4, GoPlaces
    <3>2. CASE ~IsVersionInfoValid(SpecOf(obj))
      BY <2>1, <2>6, <3>2, IdlePlaces DEF ValidateVersions, Fail, End
    <3>. QED BY <3>1, <3>2
  <2>7. CASE RedistributeWeight \/ KeepWeights
    <3>1. PICK analysis \in Analyses :
             \/ Fail(Invoked(analysis))
             \/ GoOn("patch", Invoked(analysis))
             \/ GoOn("observe", Invoked(analysis))
      BY <2>7 DEF RedistributeWeight, KeepWeights
    <3>. DEFINE o == Invoked(analysis)
    <3>2. o.stage = obj.stage /\ o.versioned = obj.versioned
      BY <1>1 DEF Invoked, Object
    <3>3. pc = "iterate"
      BY <2>7 DEF RedistributeWeight, KeepWeights
    <3>4. obj.versioned /\ IsVersionInfoValid(spec)
          /\ obj.stage # "Initializing" /\ obj.stage # "Completed"
      BY <1>2, <3>3 DEF Iterating
    <3>5. (\E f : EndRequest(f)) \/ GoOn("patch", o) \/ GoOn("observe", o)
      BY <3>1 DEF Fail, End
    <3>. HIDE DEF o
    <3>. QED BY <2>1, <3>2, <3>4, <3>5, IdlePlaces, GoPlaces
  <2>8. CASE ApplyPatch \/ LosePatch \/ Redistributed
    BY <1>2, <2>1, <2>8, GoPlaces DEF ApplyPatch, LosePatch, Redistributed, Iterating
  <2>9. CASE ObserveOne
    <3>1. GoOn(pc, obj) /\ Observing
      BY <2>9 DEF ObserveOne
    <3>. QED BY <1>2, <2>1, <3>1, GoPlaces DEF Observing, Iterating
  <2>10. CASE ObservedAfterLoop
    <3>. DEFINE o == WithDistribution
    <3>1. o.stage = obj.stage
      BY <1>1 DEF WithDistribution, Object
    <3>2. GoOn("act", o) /\ pc = "observe after loop"
      BY <2>10 DEF ObservedAfterLoop
    <3>. HIDE DEF o
    <3>. QED BY <1>2, <2>1, <3>1, <3>2, GoPlaces
  <2>11. CASE NilPattern
    BY <1>1, <2>1, <2>11 DEF NilPattern, GoOn, Places, Iterating
  <2>12. CASE LaunchLoopHandler
    <3>. DEFINE d == WithDistribution
                o == Recommending(d)
    <3>1. d.stage = obj.stage
      BY <1>1 DEF WithDistribution, Object
    <3>2. o = [d EXCEPT !.recommended = Chosen(d.analysis)]
      BY RecommendingIs
    <3>3. o.stage = obj.stage
      <4>1. d \in Object
        BY <1>1, NewDistributionType, Writing DEF WithDistribution
      <4>. HIDE DEF d
      <4>. QED BY <3>1, <3>2, <4>1 DEF Object
    <3>4. GoOn("save", o) /\ pc = "observe"
      BY <2>12 DEF LaunchLoopHandler
    <3>. HIDE DEF o
    <3>. QED BY <1>2, <2>1, <3>3, <3>4, GoPlaces
  <2>. QED
    BY <1>8, <2>2, <2>3, <2>4, <2>5, <2>6, <2>7, <2>8, <2>9, <2>10, <2>11, <2>12 DEF Reconcile
<1>. QED BY <1>3, <1>4, <1>5, <1>6, <1>7, <1>8 DEF Next, Surroundings

LEMMA RequestTypesStep == TypeInv /\ [Next]_vars => RequestTypes'
<1>. SUFFICES ASSUME TypeInv, [Next]_vars PROVE RequestTypes'
  OBVIOUS
<1>1. Places'
  BY PlacesStep
<1>2. /\ spec' \in Specs
      /\ store' \in Object' /\ cache' \in Object' /\ obj' \in Object'
      /\ pending' \in Seq(Object')
  <2>1. Object' = Object
    BY ObjectsStep, SpecUnchanged
  <2>. QED BY <2>1, ObjectsStep
<1>. QED BY <1>1, <1>2 DEF Places, RequestTypes

-----------------------------------------------------------------------------
(* Metrics and references to them.                                         *)
LEMMA KeyType ==
    ASSUME NEW ref \in Ref, NEW namespace \in Namespace
    PROVE  Key(namespace, ref) \in RefKey
BY DEF Key, Ref, RefKey, MetricRef

LEMMA NamedType ==
    ASSUME NEW s \in Specs
    PROVE  NamedMetrics(s) \in Seq(RefKey)
<1>. DEFINE metrics == [i \in DOMAIN s.criteria.objectives |-> s.criteria.objectives[i].metric]
            refs == s.criteria.requestCount \o s.criteria.rewards \o s.criteria.indicators
                      \o metrics
<1>1. metrics \in Seq(Ref)
  <2>1. /\ metrics \in [1..Len(s.criteria.objectives) -> Ref]
        /\ Len(s.criteria.objectives) \in Nat
    BY SpecTypes
  <2>. HIDE DEF metrics
  <2>. QED BY <2>1, FunctionIsSeq
<1>2. refs \in Seq(Ref)
  <2>. HIDE DEF metrics
  <2>1. s.criteria.requestCount \o s.criteria.rewards \in Seq(Ref)
    BY SpecTypes, RangeConcat
  <2>2. s.criteria.requestCount \o s.criteria.rewards \o s.criteria.indicators \in Seq(Ref)
    BY <2>1, SpecTypes, RangeConcat
  <2>. QED BY <1>1, <2>2, RangeConcat
<1>3. NamedMetrics(s) = [i \in DOMAIN refs |-> Key(ExperimentNamespace, refs[i])]
  BY DEF NamedMetrics
<1>. HIDE DEF refs
<1>4. /\ DOMAIN refs = 1..Len(refs) /\ Len(refs) \in Nat
      /\ \A i \in 1..Len(refs) : refs[i] \in Ref
  BY <1>2, LenProperties, ElementOfSeq
<1>5. NamedMetrics(s) \in [1..Len(refs) -> RefKey]
  BY <1>3, <1>4, KeyType, RunningStageAssumption
<1>. QED BY <1>4, <1>5, FunctionIsSeq

LEMMA ReferredType ==
    ASSUME MetricTypes, NEW key \in DOMAIN catalog
    PROVE  /\ Referred(key) \in Seq(RefKey)
           /\ Range(Referred(key)) = {Key(key[1], Catalog[key][i]) : i \in DOMAIN Catalog[key]}
<1>1. /\ key \in DOMAIN Catalog /\ catalog[key] = Catalog[key]
      /\ key[1] \in Namespace /\ Catalog[key] \in Seq(Ref)
  BY RunningStageAssumption DEF MetricTypes, MetricKey, Ref
<1>2. /\ DOMAIN Catalog[key] = 1..Len(Catalog[key]) /\ Len(Catalog[key]) \in Nat
      /\ \A i \in 1..Len(Catalog[key]) : Catalog[key][i] \in Ref
  BY <1>1, LenProperties, ElementOfSeq
<1>3. Referred(key) = [i \in DOMAIN Catalog[key] |-> Key(key[1], Catalog[key][i])]
  BY <1>1 DEF Referred
<1>4. Referred(key) \in [1..Len(Catalog[key]) -> RefKey]
  BY <1>1, <1>2, <1>3, KeyType
<1>5. Referred(key) \in Seq(RefKey)
  BY <1>2, <1>4, FunctionIsSeq
<1>6. Range(Referred(key)) = {Key(key[1], Catalog[key][i]) : i \in DOMAIN Catalog[key]}
  BY <1>3 DEF Range
<1>. QED BY <1>5, <1>6

(* What a step does to the reader of metrics.                              *)
ReaderStep ==
    \/ UNCHANGED metricVars
    \/ pc = "read metrics" /\ \E key \in DOMAIN catalog : DeleteMetric(key)
    \/ Forget /\ pc' # "read metrics"
    \/ pc' = "read metrics" /\ StartReading(spec)
    \/ pc = "read metrics" /\ pc' = "read metrics" /\ ReadMetric

LEMMA ReaderSteps ==
    ASSUME RequestTypes, [Next]_vars
    PROVE  ReaderStep /\ (pc' = "read metrics" => pc = "read metrics" \/ StartReading(spec))
<1>1. CASE UNCHANGED vars
  BY <1>1 DEF vars, ReaderStep
<1>2. CASE Surroundings
  BY <1>2
     DEF Surroundings, Edit, Deliver, MetricDeleted, Drift, LoopHandlerCompletes,
         FinishHandlerEnds, Restart, ReaderStep
<1>3. CASE Begin
  BY <1>3 DEF Begin, ReaderStep
<1>4. CASE Reconcile
  <2>1. CASE StartReadingMetrics \/ ReadOneMetric
    BY <2>1 DEF StartReadingMetrics, ReadOneMetric, GoOn, ReaderStep
  <2>2. CASE MetricsRead
    BY <2>2 DEF MetricsRead, EndRequest, Fail, End, Done, ReaderStep
  <2>3. ASSUME UNCHANGED metricVars, pc' # "read metrics"
        PROVE  ReaderStep /\ pc' # "read metrics"
    BY <2>3 DEF ReaderStep
  <2>4. CASE NothingToDo \/ FinishHandlerEnded \/ HandlersDone \/ ObserveAfterLoop
    BY <2>3, <2>4
       DEF NothingToDo, FinishHandlerEnded, HandlersDone, ObserveAfterLoop, Leave, EndRequest,
           Fail, End, Done, GoOn
  <2>5. CASE StartRunning \/ ValidateVersions \/ FinishExperiment \/ InvokeFails
             \/ RollbackExperiment
    BY <2>3, <2>5
       DEF StartRunning, ValidateVersions, FinishExperiment, InvokeFails, RollbackExperiment,
           Terminate, EndRequest, Fail, End, Done, GoOn
  <2>6. CASE RedistributeWeight \/ KeepWeights \/ ApplyPatch \/ LosePatch \/ Redistributed
    BY <2>3, <2>6
       DEF RedistributeWeight, KeepWeights, ApplyPatch, LosePatch, Redistributed, EndRequest,
           Fail, End, Done, GoOn
  <2>7. CASE ObserveOne \/ ObservedAfterLoop \/ ObservedAtStart \/ CompleteIteration
             \/ LaunchLoopHandler \/ SaveLaunch \/ WeightsUnknown \/ NilPattern
    BY <2>3, <2>7
       DEF ObserveOne, ObservedAfterLoop, ObservedAtStart, CompleteIteration, LaunchLoopHandler,
           SaveLaunch, WeightsUnknown, NilPattern, Observing, Leave, EndRequest, Fail, End, Done,
           GoOn
  <2>. QED BY <1>4, <2>1, <2>2, <2>4, <2>5, <2>6, <2>7 DEF Reconcile
<1>. QED BY <1>1, <1>2, <1>3, <1>4 DEF Next

LEMMA MetricTypesStep ==
    ASSUME TypeInv, [Next]_vars
    PROVE  MetricTypes'
<1>1. ReaderStep
  BY ReaderSteps DEF TypeInv
<1>2. MetricTypes /\ spec \in Specs
  BY DEF TypeInv, RequestTypes
<1>3. CASE UNCHANGED metricVars
  BY <1>2, <1>3 DEF metricVars, MetricTypes
<1>4. ASSUME NEW key, DeleteMetric(key)
      PROVE  MetricTypes'
  BY <1>2, <1>4 DEF DeleteMetric, MetricTypes
<1>5. CASE Forget
  <2>1. <<>> \in Seq(RefKey) /\ DOMAIN <<>> = {}
    BY EmptySeq
  <2>. QED BY <1>2, <1>5, <2>1 DEF Forget, MetricTypes
<1>6. CASE StartReading(spec)
  <2>1. DOMAIN <<>> = {}
    OBVIOUS
  <2>. QED BY <1>2, <1>6, <2>1, NamedType DEF StartReading, MetricTypes
<1>7. CASE ReadMetric
  <2>1. todo \in Seq(RefKey) /\ todo # <<>>
    BY <1>2, <1>7 DEF ReadMetric, MetricTypes
  <2>2. Tail(todo) \in Seq(RefKey)
    BY <2>1, RangeHeadTail
  <2>3. CASE Head(todo) \in DOMAIN found
    BY <1>2, <1>7, <2>2, <2>3 DEF ReadMetric, MetricTypes
  <2>4. CASE Head(todo) \notin DOMAIN found
    <3>1. /\ Head(todo) \in DOMAIN catalog /\ found' = Recorded(Head(todo))
          /\ todo' = Referred(Head(todo)) \o Tail(todo) /\ UNCHANGED catalog
      BY <1>7, <2>4 DEF ReadMetric
    <3>2. todo' \in Seq(RefKey)
      BY <1>2, <2>2, <3>1, ReferredType, RangeConcat
    <3>3. DOMAIN found' = DOMAIN found \cup {Head(todo)}
      BY <3>1 DEF Recorded
    <3>. QED BY <1>2, <3>1, <3>2, <3>3 DEF MetricTypes
  <2>. QED BY <2>3, <2>4
<1>. QED BY <1>1, <1>3, <1>4, <1>5, <1>6, <1>7 DEF ReaderStep

-----------------------------------------------------------------------------
(* Weights                                                                 *)

(* What a step does to the weights.                                        *)
WeightStep ==
    \/ UNCHANGED weightVars /\ (Observing' => UNCHANGED <<pc, obj>>)
    \/ /\ \E name \in Names, weight \in Weight : DriftTo(name, weight)
       /\ UNCHANGED <<pc, obj>>
    \/ DropWeightWork /\ ~Observing'
    \/ /\ pc = "iterate" /\ ~Observing'
       /\ \E analysis \in Analyses :
             /\ ~RecommendationMissing(spec, analysis.weights)
             /\ StartPatching(spec, analysis.weights, obj.dist)
    \/ /\ ~Observing'
       /\ \E object \in DOMAIN patches : PatchWeight(object) \/ PatchFails(object)
    \/ StartObserving(SpecOf(obj)')
    \/ Observing /\ ObserveWeight(SpecOf(obj)) /\ UNCHANGED <<pc, obj>>

LEMMA WeightSteps ==
    ASSUME TypeInv, [Next]_vars
    PROVE  WeightStep
<1>1. CASE UNCHANGED vars
  BY <1>1 DEF vars, WeightStep
<1>2. CASE Surroundings
  BY <1>2
     DEF Surroundings, Edit, Deliver, MetricDeleted, Drift, LoopHandlerCompletes,
         FinishHandlerEnds, Restart, WeightStep, Observing
<1>3. CASE Begin /\ UNCHANGED <<spec, cache, loopJob>>
  BY <1>3 DEF Begin, WeightStep, Observing
<1>4. CASE Reconcile
  <2>1. UNCHANGED spec
    BY <1>4 DEF Reconcile
  <2>2. ASSUME UNCHANGED weightVars, ~Observing'
        PROVE  WeightStep
    BY <2>2 DEF WeightStep
  <2>3. CASE NothingToDo \/ FinishHandlerEnded \/ HandlersDone \/ StartReadingMetrics
             \/ ReadOneMetric \/ MetricsRead
    <3>1. pc' \notin {"observe after loop", "observe at start", "observe"}
      BY <2>3
         DEF NothingToDo, FinishHandlerEnded, HandlersDone, StartReadingMetrics, ReadOneMetric,
             MetricsRead, Leave, EndRequest, Fail, End, Done, GoOn
    <3>2. UNCHANGED weightVars
      BY <2>3
         DEF NothingToDo, FinishHandlerEnded, HandlersDone, StartReadingMetrics, ReadOneMetric,
             MetricsRead
    <3>. QED BY <2>2, <3>1, <3>2 DEF Observing
  <2>4. CASE ValidateVersions \/ FinishExperiment \/ InvokeFails \/ RollbackExperiment
             \/ SaveLaunch
    <3>1. pc' \notin {"observe after loop", "observe at start", "observe"}
      BY <2>4
         DEF ValidateVersions, FinishExperiment, InvokeFails, RollbackExperiment, SaveLaunch,
             Terminate, EndRequest, Fail, End, Done, GoOn
    <3>2. UNCHANGED weightVars
      BY <2>4 DEF ValidateVersions, FinishExperiment, InvokeFails, RollbackExperiment, SaveLaunch
    <3>. QED BY <2>2, <3>1, <3>2 DEF Observing
  <2>5. CASE ObserveAfterLoop
    <3>1. SpecOf(obj)' = SpecOf(obj)
      BY <2>1, <2>5 DEF ObserveAfterLoop, GoOn, SpecOf
    <3>. QED BY <2>5, <3>1 DEF ObserveAfterLoop, WeightStep
  <2>6. CASE StartRunning
    <3>1. obj' = [obj EXCEPT !.stage = "Running"]
      BY <2>6 DEF StartRunning, GoOn
    <3>2. obj'.versioned = obj.versioned
      BY <3>1 DEF TypeInv, RequestTypes, Object
    <3>3. SpecOf(obj)' = SpecOf(obj)
      BY <2>1, <3>2 DEF SpecOf
    <3>. QED BY <2>6, <3>3 DEF StartRunning, WeightStep
  <2>7. CASE RedistributeWeight
    <3>1. PICK analysis \in Analyses :
             IF RecommendationMissing(spec, analysis.weights)
               THEN Fail(Invoked(analysis)) /\ UNCHANGED weightVars
               ELSE /\ GoOn("patch", Invoked(analysis))
                    /\ StartPatching(spec, analysis.weights, obj.dist)
      BY <2>7 DEF RedistributeWeight
    <3>2. pc = "iterate"
      BY <2>7 DEF RedistributeWeight
    <3>3. ~Observing'
      BY <3>1 DEF Fail, End, EndRequest, Done, GoOn, Observing
    <3>. QED BY <3>1, <3>2, <3>3 DEF WeightStep
  <2>8. CASE KeepWeights \/ Redistributed
    <3>1. StartObserving(spec)
      BY <2>8 DEF KeepWeights, Redistributed
    <3>2. obj'.versioned
      BY <2>8
         DEF KeepWeights, Redistributed, GoOn, Invoked, TypeInv, RequestTypes, Object, Iterating
    <3>3. SpecOf(obj)' = spec
      BY <2>1, <3>2 DEF SpecOf
    <3>. QED BY <3>1, <3>3 DEF WeightStep
  <2>9. CASE ApplyPatch \/ LosePatch
    <3>1. ~Observing' /\ \E object \in DOMAIN patches : PatchWeight(object) \/ PatchFails(object)
      BY <2>9 DEF ApplyPatch, LosePatch, GoOn, Observing
    <3>. QED BY <3>1 DEF WeightStep
  <2>10. CASE ObserveOne
    BY <2>10 DEF ObserveOne, GoOn, WeightStep
  <2>11. CASE ObservedAfterLoop \/ ObservedAtStart \/ CompleteIteration \/ LaunchLoopHandler
              \/ WeightsUnknown \/ NilPattern
    <3>1. DropWeightWork /\ pc' \notin {"observe after loop", "observe at start", "observe"}
      BY <2>11
         DEF ObservedAfterLoop, ObservedAtStart, CompleteIteration, LaunchLoopHandler,
             WeightsUnknown, NilPattern, Leave, EndRequest, Fail, End, Done, GoOn
    <3>. QED BY <3>1 DEF WeightStep, Observing
  <2>. QED
    BY <1>4, <2>3, <2>4, <2>5, <2>6, <2>7, <2>8, <2>9, <2>10, <2>11 DEF Reconcile
<1>. QED BY <1>1, <1>2, <1>3, <1>4 DEF Next

(* What is patched are fields, and they get the weights of an analysis.    *)
LEMMA PatchTypes ==
    ASSUME spec \in Specs, IsVersionInfoValid(spec), NEW analysis \in Analyses, NEW dist,
           ~RecommendationMissing(spec, analysis.weights)
    PROVE  PatchType(Patches(spec, analysis.weights, dist))
<1>. DEFINE w == analysis.weights
            p == Patches(spec, w, dist)
<1>1. \A n \in DOMAIN w : w[n] \in {0, 100}
  <2>1. w \in Recommendations
    BY DEF Analyses
  <2>2. \A names, favourite : \A n \in DOMAIN Split(names, favourite) :
           Split(names, favourite)[n] \in {0, 100}
    BY DEF Split
  <2>. QED BY <2>1, <2>2 DEF Recommendations
<1>2. ASSUME NEW v \in Range(spec.versions), Adjustable(v)
      PROVE  v.name \in Fields /\ v.name \in DOMAIN w
  <2>1. PICK i \in DOMAIN spec.versions : v = spec.versions[i]
    BY <1>2 DEF Range
  <2>2. HasField(v)
    BY <1>2, <2>1, VersionTypes DEF Adjustable, IsVersionInfoValid, FieldPathsDotted, HasField
  <2>. QED BY <1>2, <2>1, <2>2, FieldNames DEF RecommendationMissing
<1>. DEFINE changed == {v \in Range(spec.versions) :
                          Adjustable(v) /\ w[v.name] # getCurrentWeight(v.name, dist)}
            Of(object) == {v \in changed : v.ref.object = object}
<1>3. p = [object \in {v.ref.object : v \in changed} |->
             [name \in Applicable(Of(object)) |-> w[name]]]
  BY DEF Patches
<1>4. \A object : \A n \in Applicable(Of(object)) : n \in Fields /\ n \in DOMAIN w
  BY <1>2 DEF Applicable
<1>. HIDE DEF p, w, Of
<1>5. ASSUME NEW object \in DOMAIN p
      PROVE  /\ DOMAIN p[object] \subseteq Fields
             /\ \A name \in DOMAIN p[object] : p[object][name] \in {0, 100}
  <2>1. p[object] = [name \in Applicable(Of(object)) |-> w[name]]
    BY <1>3, <1>5
  <2>. QED BY <1>1, <1>4, <2>1
<1>6. PatchType(p)
  BY <1>5 DEF PatchType
<1>. QED BY <1>6 DEF p, w

LEMMA ShownSeq ==
    ASSUME spec \in Specs, NEW o
    PROVE  /\ [i \in DOMAIN SpecOf(o).versions |-> i] \in Seq(DOMAIN SpecOf(o).versions)
           /\ Seq(DOMAIN SpecOf(o).versions) \subseteq Seq(DOMAIN spec.versions)
           /\ Range([i \in DOMAIN SpecOf(o).versions |-> i]) = DOMAIN SpecOf(o).versions
<1>. DEFINE D == DOMAIN SpecOf(o).versions
            L == Len(SpecOf(o).versions)
<1>1. D = 1..L /\ L \in Nat /\ D \subseteq DOMAIN spec.versions
  BY SpecShown, LenProperties
<1>2. [i \in D |-> i] \in [1..L -> D]
  BY <1>1
<1>3. Range([i \in D |-> i]) = D
  BY DEF Range
<1>. HIDE DEF D, L
<1>4. [i \in D |-> i] \in Seq(D)
  BY <1>1, <1>2, FunctionIsSeq
<1>5. Seq(D) \subseteq Seq(DOMAIN spec.versions)
  BY <1>1, SeqMonotonic
<1>. QED BY <1>3, <1>4, <1>5 DEF D

LEMMA WeightsAre == \A w \in Weight \cup {100} : w \in Int
BY RunningStageAssumption

LEMMA EmptyDist == <<>> \in Dist
BY EmptySeq DEF Dist

(* What a step observes has the right type.                                *)
LEMMA ObserveTypes ==
    ASSUME TypeInv, Observing, ObserveWeight(SpecOf(obj))
    PROVE  /\ Head(unread) \in DOMAIN SpecOf(obj).versions
           /\ unread' \in Seq(DOMAIN SpecOf(obj).versions)
           /\ unread' \in Seq(DOMAIN spec.versions)
           /\ Range(unread) = {Head(unread)} \cup Range(unread')
           /\ spec.versions[Head(unread)].ref # NoRef =>
                 \E e \in [name : Names, value : Int] :
                    e.name = spec.versions[Head(unread)].name /\ seen' = Append(seen, e)
           /\ spec.versions[Head(unread)].ref = NoRef => seen' = seen
           /\ seen' \in Dist
<1>. DEFINE i == Head(unread)
<1>1. /\ unread # <<>> /\ unread' = Tail(unread)
      /\ unread \in Seq(DOMAIN SpecOf(obj).versions) /\ spec \in Specs
      /\ seen \in Dist /\ actual \in [Fields -> Weight \cup {100}]
  BY DEF ObserveWeight, TypeInv, WeightTypes, RequestTypes
<1>2. /\ i \in DOMAIN SpecOf(obj).versions
      /\ unread' \in Seq(DOMAIN SpecOf(obj).versions)
      /\ Range(unread) = {i} \cup Range(unread')
  BY <1>1, RangeHeadTail
<1>3. SpecOf(obj).versions[i] = spec.versions[i] /\ i \in DOMAIN spec.versions
  BY <1>1, <1>2, SpecShown
<1>. DEFINE v == spec.versions[i]
<1>4. \/ v.ref = NoRef /\ seen' = seen
      \/ /\ HasField(v)
         /\ seen' = Append(seen, [name |-> v.name, value |-> actual[v.name]])
  BY <1>3 DEF ObserveWeight
<1>5. HasField(v) => v.ref # NoRef
  BY DEF NoRef, HasField
<1>. HIDE DEF i
<1>6. ASSUME HasField(v)
      PROVE  [name |-> v.name, value |-> actual[v.name]] \in [name : Names, value : Int]
  <2>1. v.name \in Fields /\ v.name \in Names
    BY <1>1, <1>3, <1>6, FieldNames
  <2>2. actual[v.name] \in Int
    <3>1. actual[v.name] \in Weight \cup {100}
      BY <1>1, <2>1
    <3>. QED BY <3>1, WeightsAre
  <2>. QED BY <2>1, <2>2
<1>7. v.ref # NoRef =>
         \E e \in [name : Names, value : Int] : e.name = v.name /\ seen' = Append(seen, e)
  BY <1>4, <1>6
<1>8. seen' \in Dist
  <2>1. ASSUME NEW e \in [name : Names, value : Int]
        PROVE  Append(seen, e) \in Dist
    BY <1>1, Totals
  <2>2. CASE seen' = seen
    BY <1>1, <2>2
  <2>3. CASE HasField(v)
    BY <1>4, <1>5, <1>6, <2>1, <2>3
  <2>. QED BY <1>4, <2>2, <2>3
<1>9. unread' \in Seq(DOMAIN spec.versions)
  BY <1>1, <1>2, ShownSeq
<1>. QED BY <1>2, <1>4, <1>5, <1>7, <1>8, <1>9 DEF i

LEMMA WeightTypesStep ==
    ASSUME TypeInv, [Next]_vars
    PROVE  WeightTypes'
<1>1. WeightStep
  BY WeightSteps
<1>2. spec \in Specs /\ spec' = spec /\ WeightTypes /\ RequestTypes
  BY ObjectsStep DEF TypeInv, RequestTypes
<1>3. Fields' = Fields /\ Dist' = Dist
  BY <1>2, SpecUnchanged
<1>4. /\ actual \in [Fields -> Weight \cup {100}]
      /\ PatchType(patches)
      /\ unread \in Seq(DOMAIN spec.versions)
      /\ Observing => unread \in Seq(DOMAIN SpecOf(obj).versions)
      /\ seen \in Dist
  BY <1>2 DEF WeightTypes
<1>5. ASSUME UNCHANGED <<pc, obj>>
      PROVE  Observing' = Observing /\ SpecOf(obj)' = SpecOf(obj)
  BY <1>2, <1>5 DEF Observing, SpecOf
<1>6. CASE UNCHANGED weightVars /\ (Observing' => UNCHANGED <<pc, obj>>)
  BY <1>2, <1>3, <1>4, <1>5, <1>6 DEF WeightTypes, PatchType, weightVars
<1>7. ASSUME NEW name \in Names, NEW weight \in Weight, DriftTo(name, weight),
             UNCHANGED <<pc, obj>>
      PROVE  WeightTypes'
  <2>1. actual' \in [Fields -> Weight \cup {100}] /\ UNCHANGED <<patches, unread, seen>>
    BY <1>4, <1>7 DEF DriftTo
  <2>. QED BY <1>2, <1>3, <1>4, <1>5, <1>7, <2>1 DEF WeightTypes, PatchType
<1>8. CASE DropWeightWork /\ ~Observing'
  <2>1. <<>> \in Seq(DOMAIN spec.versions) /\ DOMAIN <<>> = {}
    BY EmptySeq
  <2>. QED BY <1>2, <1>3, <1>4, <1>8, <2>1, EmptyDist DEF DropWeightWork, WeightTypes, PatchType
<1>9. ASSUME pc = "iterate", ~Observing', NEW analysis \in Analyses,
             ~RecommendationMissing(spec, analysis.weights),
             StartPatching(spec, analysis.weights, obj.dist)
      PROVE  WeightTypes'
  <2>1. IsVersionInfoValid(spec)
    BY <1>2, <1>9 DEF RequestTypes, Iterating
  <2>2. patches' = Patches(spec, analysis.weights, obj.dist) /\ UNCHANGED <<actual, unread, seen>>
    BY <1>9 DEF StartPatching
  <2>3. PatchType(Patches(spec, analysis.weights, obj.dist))
    BY <1>2, <1>9, <2>1, PatchTypes
  <2>4. PatchType(patches)'
    BY <1>3, <2>2, <2>3 DEF PatchType
  <2>. QED BY <1>2, <1>3, <1>4, <1>9, <2>2, <2>4 DEF WeightTypes, PatchType
<1>10. ASSUME ~Observing', NEW object \in DOMAIN patches,
              PatchWeight(object) \/ PatchFails(object)
       PROVE  WeightTypes'
  <2>1. patches' = [o \in DOMAIN patches \ {object} |-> patches[o]] /\ UNCHANGED <<unread, seen>>
    BY <1>10 DEF PatchWeight, PatchFails
  <2>2. actual' \in [Fields -> Weight \cup {100}]
    BY <1>4, <1>10, RunningStageAssumption DEF PatchType, PatchWeight, PatchFails
  <2>. QED BY <1>2, <1>3, <1>4, <1>10, <2>1, <2>2 DEF WeightTypes, PatchType
<1>11. CASE StartObserving(SpecOf(obj)')
  <2>. DEFINE shown == SpecOf(obj)'
  <2>1. /\ unread' = [i \in DOMAIN shown.versions |-> i] /\ seen' = <<>>
        /\ UNCHANGED <<actual, patches>>
    BY <1>11 DEF StartObserving
  <2>2. shown = SpecOf(obj')
    BY <1>2 DEF SpecOf
  <2>3. /\ [i \in DOMAIN shown.versions |-> i] \in Seq(DOMAIN shown.versions)
        /\ Seq(DOMAIN shown.versions) \subseteq Seq(DOMAIN spec.versions)
    BY <1>2, <2>2, ShownSeq
  <2>4. unread' \in Seq(DOMAIN shown.versions) /\ unread' \in Seq(DOMAIN spec'.versions)
    BY <1>2, <2>1, <2>3
  <2>. QED BY <1>3, <1>4, <2>1, <2>4, EmptyDist DEF WeightTypes, PatchType
<1>12. CASE Observing /\ ObserveWeight(SpecOf(obj)) /\ UNCHANGED <<pc, obj>>
  <2>1. UNCHANGED <<actual, patches>>
    BY <1>12 DEF ObserveWeight
  <2>. QED BY <1>2, <1>3, <1>4, <1>5, <1>12, <2>1, ObserveTypes DEF WeightTypes, PatchType
<1>. QED BY <1>1, <1>6, <1>7, <1>8, <1>9, <1>10, <1>11, <1>12 DEF WeightStep

LEMMA InitTypes == Init => TypeInv
<1>. SUFFICES ASSUME Init PROVE TypeInv
  OBVIOUS
<1>1. \A v \in BOOLEAN : NewObject(v) \in Object
  BY EmptyDist DEF NewObject, Object
<1>2. DOMAIN <<>> = {} /\ \A S : <<>> \in Seq(S)
  BY EmptySeq
<1>3. RequestTypes
  BY <1>1, <1>2 DEF Init, RequestTypes, Iterating
<1>4. MetricTypes
  BY <1>2 DEF Init, MetricTypes, MetricKey
<1>5. WeightTypes
  BY <1>2, EmptyDist, RunningStageAssumption DEF Init, WeightTypes, PatchType, Observing
<1>. QED BY <1>3, <1>4, <1>5 DEF TypeInv

LEMMA TypesAlways == Spec => []TypeInv
<1>1. TypeInv /\ [Next]_vars => TypeInv'
  BY RequestTypesStep, MetricTypesStep, WeightTypesStep DEF TypeInv
<1>. QED BY <1>1, InitTypes, PTL DEF Spec

(* Every variable keeps its type; in particular weights are only ever      *)
(* written to fields that the specification names.                         *)
THEOREM TypeCorrect == Spec => []TypeOK
<1>1. ASSUME TypeInv
      PROVE  TypeOK
  <2>1. Range(pending) \subseteq Object
    BY <1>1, RangeType DEF TypeInv, RequestTypes
  <2>2. Range(unread) \subseteq DOMAIN spec.versions
    BY <1>1, RangeType DEF TypeInv, WeightTypes
  <2>3. \A object \in DOMAIN patches : DOMAIN patches[object] \subseteq Names
    BY <1>1, FieldNames DEF TypeInv, WeightTypes, PatchType, RequestTypes
  <2>. QED
    BY <1>1, <2>1, <2>2, <2>3 DEF TypeInv, RequestTypes, MetricTypes, WeightTypes, PatchType, TypeOK
<1>2. TypeInv => TypeOK
  BY <1>1
<1>. QED BY <1>2, TypesAlways, PTL

-----------------------------------------------------------------------------
(***************************************************************************)
(* Analyses and recommendations.  An experiment at rest has not been       *)
(* analysed before it runs; it runs on analyses that let it go on; and     *)
(* unless it has failed or is to be rolled back, it recommends what        *)
(* follows from the analysis it has.                                       *)
(***************************************************************************)
Follows(o) ==
    \/ o.recommended = Chosen(o.analysis)
    \/ o.analysis = NoAnalysis /\ o.recommended = "none"

Consistent(o) ==
    /\ o.stage = "Initializing" => o.analysis = NoAnalysis /\ o.recommended = "none"
    /\ o.failed => o.stage = "Completed"
    /\ o.stage = "Running" => ~mustRollback(spec, o.analysis)
    /\ ~o.failed /\ ~mustRollback(spec, o.analysis) => Follows(o)

AnalysisInv ==
    /\ \A o \in Resting : Consistent(o)
    /\ pc \in {"patch", "observe"} => ~obj.failed /\ ~mustRollback(spec, obj.analysis)

LEMMA NothingFails == ~mustRollback(spec, NoAnalysis)
BY DEF mustRollback, NoAnalysis

LEMMA MadeConsistent ==
    ASSUME TypeInv, AnalysisInv, pc # "panic", NEW o, Made(o)
    PROVE  Consistent(o)
<1>1. /\ spec \in Specs /\ store \in Object /\ obj \in Object
      /\ pc \notin {"idle", "check", "panic"} => obj.stage # "Completed"
      /\ Iterating => obj.versioned /\ obj.stage # "Initializing" /\ IsVersionInfoValid(spec)
  BY DEF TypeInv, RequestTypes
<1>2. Consistent(store) /\ (pc \notin {"patch", "observe"} => Consistent(obj))
  BY DEF AnalysisInv, Resting, InFlight
<1>3. CASE \E v \in BOOLEAN : o = [store EXCEPT !.versioned = v]
  BY <1>1, <1>2, <1>3 DEF Consistent, Follows, Object
<1>4. CASE pc \in {"check", "iterate"} /\ o = [obj EXCEPT !.stage = "Completed"]
  BY <1>1, <1>2, <1>4 DEF Consistent, Follows, Object
<1>5. CASE o = Failure(obj)
  BY <1>1, <1>5, FailureIs DEF Consistent
<1>6. CASE pc = "read metrics" /\ o = [obj EXCEPT !.metrics = DOMAIN found]
  BY <1>1, <1>2, <1>6 DEF Consistent, Follows, Object
<1>7. CASE pc = "act" /\ obj.stage = "Initializing" /\ o = [obj EXCEPT !.stage = "Running"]
  BY <1>1, <1>2, <1>7, NothingFails DEF Consistent, Follows, Object
<1>8. CASE pc = "act" /\ obj.stage # "Initializing" /\ o = Recommending(obj)
  BY <1>1, <1>2, <1>8, RecommendingIs DEF Consistent, Follows, Object
<1>9. CASE pc = "iterate" /\ o = [obj EXCEPT !.stage = "Finishing"]
  BY <1>1, <1>2, <1>9 DEF Consistent, Follows, Object
<1>10. ASSUME pc = "iterate", NEW analysis \in Analyses, NEW s \in {"Finishing", "Completed"},
              mustRollback(spec, analysis), o = [Invoked(analysis) EXCEPT !.stage = s]
       PROVE  Consistent(o)
  <2>1. ~obj.failed
    BY <1>1, <1>2, <1>10 DEF Consistent, Iterating
  <2>2. o.stage = s /\ o.failed = obj.failed /\ o.analysis = analysis
    BY <1>1, <1>10 DEF Invoked, Object
  <2>. QED BY <1>10, <2>1, <2>2 DEF Consistent
<1>11. ASSUME NEW analysis \in Analyses, o = Failure(Invoked(analysis))
       PROVE  Consistent(o)
  <2>1. o.stage = "Completed" /\ o.failed
    BY <1>1, <1>11, Writing, FailureIs DEF Invoked
  <2>. QED BY <2>1 DEF Consistent
<1>12. /\ WithDistribution \in Object
       /\ WithDistribution.stage = obj.stage /\ WithDistribution.failed = obj.failed
       /\ WithDistribution.analysis = obj.analysis
       /\ WithDistribution.recommended = obj.recommended
  BY <1>1, NewDistributionType DEF WithDistribution, Object
<1>13. CASE pc \in {"observe after loop", "observe at start"} /\ o = WithDistribution
  BY <1>2, <1>12, <1>13 DEF Consistent, Follows
<1>14. CASE pc = "observe" /\ o = Recommending(WithDistribution)
  <2>. DEFINE d == WithDistribution
  <2>1. o = [d EXCEPT !.recommended = Chosen(d.analysis)] /\ d \in Object
    BY <1>12, <1>14, RecommendingIs
  <2>2. d.stage # "Initializing" /\ ~d.failed /\ ~mustRollback(spec, d.analysis)
    BY <1>1, <1>12, <1>14 DEF AnalysisInv, Iterating
  <2>. HIDE DEF d
  <2>. QED BY <2>1, <2>2 DEF Consistent, Follows, Object
<1>. QED
  BY <1>3, <1>4, <1>5, <1>6, <1>7, <1>8, <1>9, <1>10, <1>11, <1>13, <1>14 DEF Made

LEMMA AnalysisStep ==
    ASSUME TypeInv, AnalysisInv, [Next]_vars, pc # "panic", pc' # "panic"
    PROVE  AnalysisInv'
<1>1. ObjectStep /\ spec' = spec /\ RequestTypes
  BY Steps, ObjectsStep DEF TypeInv
<1>2. ASSUME NEW o \in Resting'
      PROVE  Consistent(o)'
  <2>1. o \in Resting \/ Made(o)
    BY <1>1, RestingStep DEF Usual
  <2>2. Consistent(o)
    BY <2>1, MadeConsistent DEF AnalysisInv
  <2>. QED BY <1>1, <2>2 DEF Consistent, Follows, Chosen
<1>3. ASSUME pc' \in {"patch", "observe"}
      PROVE  ~obj'.failed /\ ~mustRollback(spec', obj'.analysis)
  <2>1. CASE pc = "iterate"
    <3>1. PICK analysis \in Analyses : GoesOn(analysis) /\ obj' = Invoked(analysis)
      BY <1>1, <1>3, <2>1 DEF ObjectStep, FlightStep, InFlight
    <3>2. ~obj.failed
      <4>1. Consistent(obj) /\ obj.stage # "Completed"
        BY <1>1, <2>1 DEF AnalysisInv, Resting, InFlight, RequestTypes
      <4>. QED BY <4>1 DEF Consistent
    <3>3. obj'.failed = obj.failed /\ obj'.analysis = analysis
      BY <1>1, <3>1 DEF Invoked, Object, RequestTypes
    <3>. QED BY <1>1, <3>1, <3>2, <3>3 DEF GoesOn
  <2>2. CASE pc # "iterate"
    <3>1. UNCHANGED obj /\ pc \in {"patch", "observe"}
      BY <1>1, <1>3, <2>2 DEF ObjectStep, FlightStep, InFlight
    <3>. QED BY <1>1, <3>1 DEF AnalysisInv
  <2>. QED BY <2>1, <2>2
<1>. QED BY <1>2, <1>3 DEF AnalysisInv

-----------------------------------------------------------------------------
(***************************************************************************)
(* The deployment pattern.  If it is unset and too many references are     *)
(* missing to do without it, no iteration is ever completed, so no loop    *)
(* handler is ever launched.                                               *)
(***************************************************************************)
PatternInv ==
    /\ pc # "panic"
    /\ PatternMissing(spec) => loopJob = "absent"
    /\ pc = "observe after loop" => loopJob = "complete"

LEMMA ShownPattern ==
    ASSUME spec \in Specs, NEW o
    PROVE  /\ PatternNeeded(SpecOf(o)) => o.versioned \/ SpecOf(o) = spec
           /\ PatternNeeded(InitializeSpec(SpecOf(o))) <=> PatternNeeded(SpecOf(o))
           /\ ~PatternMissing(InitializeSpec(SpecOf(o)))
           /\ PatternMissing(SpecOf(o)) => PatternMissing(spec)
           /\ DistributionUnknown(InitializeSpec(SpecOf(o))) <=>
                 PatternNeeded(SpecOf(o)) /\ spec.deployment # "FixedSplit"
           /\ DistributionUnknown(SpecOf(o)) <=>
                 PatternNeeded(SpecOf(o)) /\ spec.deployment # "FixedSplit"
<1>1. /\ SpecOf(o).deployment = spec.deployment
      /\ InitializeSpec(SpecOf(o)).versions = SpecOf(o).versions
      /\ InitializeSpec(SpecOf(o)).deployment = GetDeploymentPattern(spec)
      /\ SpecOf(o) = spec \/ SpecOf(o).versions = <<>>
  BY SpecShown
<1>2. MissingVersions(InitializeSpec(SpecOf(o))) = MissingVersions(SpecOf(o))
  BY <1>1 DEF MissingVersions
<1>3. SpecOf(o).versions = <<>> => ~PatternNeeded(SpecOf(o))
  <2>. SUFFICES ASSUME SpecOf(o).versions = <<>> PROVE ~PatternNeeded(SpecOf(o))
    OBVIOUS
  <2>1. MissingVersions(SpecOf(o)) = {}
    BY DEF MissingVersions
  <2>. QED BY <2>1, FS_EmptySet DEF PatternNeeded
<1>. QED
  BY <1>1, <1>2, <1>3, PatternSet DEF PatternNeeded, PatternMissing, DistributionUnknown

LEMMA LoopStep ==
    ASSUME [Next]_vars
    PROVE  /\ \/ UNCHANGED loopJob
              \/ LaunchLoopHandler
              \/ loopJob = "running" /\ loopJob' = "complete"
           /\ pc' = "observe after loop" => pc = "observe after loop" \/ loopJob = "complete"
<1>. USE DEF cluster
<1>1. CASE UNCHANGED vars
  BY <1>1 DEF vars
<1>2. CASE Surroundings
  <2>1. CASE Edit \/ Deliver \/ MetricDeleted \/ Drift
    BY <2>1 DEF Edit, Deliver, MetricDeleted, Drift
  <2>2. CASE LoopHandlerCompletes
    BY <2>2 DEF LoopHandlerCompletes
  <2>3. CASE FinishHandlerEnds \/ Restart
    BY <2>3 DEF FinishHandlerEnds, Restart
  <2>. QED BY <1>2, <2>1, <2>2, <2>3 DEF Surroundings
<1>3. CASE Begin /\ UNCHANGED <<spec, cache, loopJob>>
  BY <1>3 DEF Begin
<1>4. CASE Reconcile
  <2>1. UNCHANGED loopJob \/ LaunchLoopHandler
    BY <1>4 DEF Reconcile
  <2>2. CASE NothingToDo \/ FinishHandlerEnded \/ HandlersDone \/ ObserveAfterLoop
    BY <2>1, <2>2
       DEF NothingToDo, FinishHandlerEnded, HandlersDone, ObserveAfterLoop, Leave, EndRequest,
           Fail, End, Done, GoOn
  <2>3. CASE StartReadingMetrics \/ ReadOneMetric \/ MetricsRead
    BY <2>1, <2>3
       DEF StartReadingMetrics, ReadOneMetric, MetricsRead, EndRequest, Fail, End, Done, GoOn
  <2>4. CASE StartRunning \/ ValidateVersions \/ FinishExperiment \/ InvokeFails
             \/ RollbackExperiment
    BY <2>1, <2>4
       DEF StartRunning, ValidateVersions, FinishExperiment, InvokeFails, RollbackExperiment,
           Terminate, EndRequest, Fail, End, Done, GoOn
  <2>5. CASE RedistributeWeight \/ KeepWeights \/ ApplyPatch \/ LosePatch \/ Redistributed
    BY <2>1, <2>5
       DEF RedistributeWeight, KeepWeights, ApplyPatch, LosePatch, Redistributed, EndRequest,
           Fail, End, Done, GoOn
  <2>6. CASE ObserveOne \/ ObservedAfterLoop \/ ObservedAtStart \/ CompleteIteration
             \/ LaunchLoopHandler \/ SaveLaunch \/ WeightsUnknown \/ NilPattern
    BY <2>1, <2>6
       DEF ObserveOne, ObservedAfterLoop, ObservedAtStart, CompleteIteration, LaunchLoopHandler,
           SaveLaunch, WeightsUnknown, NilPattern, Observing, Leave, EndRequest, Fail, End, Done,
           GoOn
  <2>. QED BY <1>4, <2>2, <2>3, <2>4, <2>5, <2>6 DEF Reconcile
<1>. QED BY <1>1, <1>2, <1>3, <1>4 DEF Next

LEMMA NilPatternNever ==
    ASSUME TypeInv, PatternInv
    PROVE  ~NilPattern
<1>. SUFFICES ASSUME NilPattern PROVE FALSE
  OBVIOUS
<1>1. spec \in Specs /\ PatternMissing(SpecObserved)
  BY DEF TypeInv, RequestTypes, NilPattern
<1>2. CASE pc = "observe after loop"
  <2>1. PatternMissing(spec) /\ loopJob = "complete"
    BY <1>1, <1>2, ShownPattern DEF SpecObserved, PatternInv
  <2>. QED BY <2>1 DEF PatternInv
<1>3. CASE pc # "observe after loop"
  BY <1>1, <1>3, ShownPattern DEF SpecObserved
<1>. QED BY <1>2, <1>3

LEMMA NeverPanics ==
    ASSUME TypeInv, PatternInv, [Next]_vars
    PROVE  pc' # "panic"
<1>1. FlightStep
  BY Steps DEF TypeInv, ObjectStep
<1>2. pc # "panic" /\ ~NilPattern
  BY NilPatternNever DEF PatternInv
<1>. QED BY <1>1, <1>2 DEF FlightStep, InFlight

(* Where the pattern is missing, no iteration knows the weights.           *)
LEMMA NeverLaunched ==
    ASSUME TypeInv, PatternMissing(spec)
    PROVE  ~LaunchLoopHandler
<1>. SUFFICES ASSUME pc = "observe", WeightsKnown PROVE FALSE
  BY DEF LaunchLoopHandler
<1>1. spec \in Specs /\ obj.versioned
  BY DEF TypeInv, RequestTypes, Iterating
<1>2. SpecOf(obj) = spec
  BY <1>1, SpecShown
<1>3. PatternNeeded(spec) /\ spec.deployment # "FixedSplit"
  BY DEF PatternMissing
<1>4. DistributionUnknown(SpecObserved)
  BY <1>1, <1>2, <1>3, ShownPattern DEF SpecObserved
<1>. QED BY <1>4 DEF WeightsKnown

LEMMA PatternStep ==
    ASSUME TypeInv, PatternInv, [Next]_vars
    PROVE  PatternInv'
<1>1. pc' # "panic"
  BY NeverPanics
<1>2. PatternMissing(spec) => loopJob' = "absent"
  BY LoopStep, NeverLaunched DEF PatternInv
<1>3. pc' = "observe after loop" => loopJob' = "complete"
  BY LoopStep DEF PatternInv, LaunchLoopHandler
<1>4. PatternMissing(spec)' = PatternMissing(spec)
  BY ObjectsStep
<1>. QED BY <1>1, <1>2, <1>3, <1>4 DEF PatternInv

-----------------------------------------------------------------------------
(***************************************************************************)
(* The distribution.  While the weights are observed, each version is      *)
(* still to be looked at, has no reference, or has been seen; so what an   *)
(* iteration records is complete, as far as it can be.                     *)
(***************************************************************************)
Known(dist) ==
    LET missing == Cardinality(MissingVersions(spec))
    IN  /\ \/ {d.name : d \in Range(dist)} = Names
           \/ missing > 1 /\ spec.deployment = "FixedSplit"
        /\ missing = 1 => Total(dist) = 100

LookedAt(i) ==
    \/ i \in Range(unread)
    \/ spec.versions[i].ref = NoRef
    \/ \E d \in Range(seen) : d.name = spec.versions[i].name

SeenInv == Observing => \A i \in DOMAIN SpecOf(obj).versions : LookedAt(i)

KnownIfRunning(o) == o.stage = "Running" /\ o.analysis # NoAnalysis => Known(o.dist)

DistInv == SeenInv /\ \A o \in Resting : KnownIfRunning(o)

LEMMA SeenStep ==
    ASSUME TypeInv, SeenInv, [Next]_vars
    PROVE  SeenInv'
<1>1. WeightStep
  BY WeightSteps
<1>2. spec \in Specs /\ spec' = spec
  BY ObjectsStep DEF TypeInv, RequestTypes
<1>3. ASSUME UNCHANGED <<pc, obj>>
      PROVE  Observing' = Observing /\ SpecOf(obj)' = SpecOf(obj)
  BY <1>2, <1>3 DEF Observing, SpecOf
<1>4. CASE UNCHANGED weightVars /\ (Observing' => UNCHANGED <<pc, obj>>)
  BY <1>2, <1>3, <1>4 DEF SeenInv, LookedAt, weightVars
<1>5. ASSUME NEW name \in Names, NEW weight \in Weight, DriftTo(name, weight),
             UNCHANGED <<pc, obj>>
      PROVE  SeenInv'
  BY <1>2, <1>3, <1>5 DEF SeenInv, LookedAt, DriftTo
<1>6. CASE ~Observing'
  BY <1>6 DEF SeenInv
<1>7. CASE StartObserving(SpecOf(obj)')
  <2>1. SpecOf(obj)' = SpecOf(obj')
    BY <1>2 DEF SpecOf
  <2>2. unread' = [i \in DOMAIN SpecOf(obj').versions |-> i]
    BY <1>7, <2>1 DEF StartObserving
  <2>3. Range(unread') = DOMAIN SpecOf(obj').versions
    BY <1>2, <2>2, ShownSeq
  <2>. QED BY <2>1, <2>3 DEF SeenInv, LookedAt
<1>8. CASE Observing /\ ObserveWeight(SpecOf(obj)) /\ UNCHANGED <<pc, obj>>
  <2>1. /\ seen \in Dist /\ SpecOf(obj)' = SpecOf(obj)
        /\ Range(unread) = {Head(unread)} \cup Range(unread')
        /\ spec.versions[Head(unread)].ref # NoRef =>
              \E e \in [name : Names, value : Int] :
                 e.name = spec.versions[Head(unread)].name /\ seen' = Append(seen, e)
        /\ spec.versions[Head(unread)].ref = NoRef => seen' = seen
    BY <1>3, <1>8, ObserveTypes DEF TypeInv, WeightTypes
  <2>2. \A e \in [name : Names, value : Int] :
           seen' = Append(seen, e) => Range(seen') = Range(seen) \cup {e}
    <3>. DEFINE Entry == [name : Names, value : Int]
    <3>1. seen \in Seq(Entry)
      BY <2>1 DEF Dist
    <3>. HIDE DEF Entry
    <3>2. \A e \in Entry : seen' = Append(seen, e) => Range(seen') = Range(seen) \cup {e}
      BY <3>1, RangeAppend
    <3>. QED BY <3>2 DEF Entry
  <2>3. ASSUME NEW i \in DOMAIN SpecOf(obj).versions
        PROVE  LookedAt(i)'
    <3>1. LookedAt(i)
      BY <1>8 DEF SeenInv
    <3>2. CASE i = Head(unread)
      BY <1>2, <2>1, <2>2, <3>2 DEF LookedAt
    <3>3. CASE i # Head(unread)
      BY <1>2, <2>1, <2>2, <3>1, <3>3 DEF LookedAt
    <3>. QED BY <3>2, <3>3
  <2>. QED BY <2>1, <2>3 DEF SeenInv
<1>. QED BY <1>1, <1>4, <1>5, <1>6, <1>7, <1>8 DEF WeightStep

LEMMA ObservedKnown ==
    ASSUME TypeInv, SeenInv, WeightsKnown, SpecOf(obj).versions # <<>>
    PROVE  Known(ObservedDistribution(spec))
<1>. DEFINE dist == ObservedDistribution(spec)
            missing == Cardinality(MissingVersions(spec))
<1>1. spec \in Specs /\ seen \in Dist
  BY DEF TypeInv, RequestTypes, WeightTypes
<1>2. /\ Observing /\ SpecOf(obj) = spec /\ Range(unread) = {}
      /\ ~(PatternNeeded(spec) /\ spec.deployment # "FixedSplit")
  <2>1. SpecOf(obj) = spec /\ Observing /\ unread = <<>> /\ ~DistributionUnknown(SpecObserved)
    BY <1>1, SpecShown DEF WeightsKnown, Observed
  <2>2. Range(unread) = {}
    BY <2>1 DEF Range
  <2>3. \/ SpecObserved = SpecOf(obj)
        \/ SpecObserved = InitializeSpec(SpecOf(obj))
    BY DEF SpecObserved
  <2>4. ~(PatternNeeded(SpecOf(obj)) /\ spec.deployment # "FixedSplit")
    BY <1>1, <2>1, <2>3, ShownPattern
  <2>. QED BY <2>1, <2>2, <2>4
<1>3. /\ missing \in Nat
      /\ missing = 0 => MissingVersions(spec) = {}
      /\ missing > 1 => spec.deployment = "FixedSplit"
  BY <1>1, <1>2, MissingCount DEF PatternNeeded
<1>4. missing = 1 => Total(dist) = 100
  BY <1>1, MissingCount, DistributionTypes
<1>5. {d.name : d \in Range(dist)} \subseteq Names
  <2>1. dist \in Dist
    BY <1>1, DistributionTypes
  <2>. HIDE DEF dist
  <2>. QED BY <2>1, WeightValues DEF Range
<1>6. missing = 0 => dist = seen
  BY <1>1, DistributionTypes
<1>7. \A i \in DOMAIN spec.versions : MissingVersions(spec) = {i} =>
         {d.name : d \in Range(dist)} = {d.name : d \in Range(seen)} \cup {spec.versions[i].name}
  BY <1>1, DistributionTypes
<1>8. missing = 1 => \E i \in DOMAIN spec.versions : MissingVersions(spec) = {i}
  BY <1>1, MissingCount
<1>9. \A i \in DOMAIN spec.versions :
         \/ i \in MissingVersions(spec)
         \/ spec.versions[i].name \in {d.name : d \in Range(seen)}
  <2>1. \A i \in DOMAIN spec.versions : LookedAt(i)
    BY <1>2 DEF SeenInv
  <2>. QED BY <1>2, <2>1 DEF LookedAt, MissingVersions
<1>. HIDE DEF dist, missing
<1>10. missing \in {0, 1} =>
          \A i \in DOMAIN spec.versions : spec.versions[i].name \in {d.name : d \in Range(dist)}
  <2>1. CASE missing = 0
    BY <1>3, <1>6, <1>9, <2>1
  <2>2. CASE missing = 1
    <3>1. PICK j \in DOMAIN spec.versions : MissingVersions(spec) = {j}
      BY <1>8, <2>2
    <3>. DEFINE in(d) == {e.name : e \in Range(d)}
    <3>2. in(dist) = in(seen) \cup {spec.versions[j].name}
      BY <1>7, <3>1
    <3>3. \A i \in DOMAIN spec.versions : i = j \/ spec.versions[i].name \in in(seen)
      BY <1>9, <3>1
    <3>. HIDE DEF in
    <3>4. \A i \in DOMAIN spec.versions : spec.versions[i].name \in in(dist)
      BY <3>2, <3>3
    <3>. QED BY <3>4 DEF in
  <2>. QED BY <2>1, <2>2
<1>11. missing \in {0, 1} => {d.name : d \in Range(dist)} = Names
  BY <1>5, <1>10 DEF Names, NamesOf
<1>12. /\ {d.name : d \in Range(dist)} = Names \/ (missing > 1 /\ spec.deployment = "FixedSplit")
       /\ missing = 1 => Total(dist) = 100
  <2>1. missing \in {0, 1} \/ missing > 1
    BY <1>3
  <2>. QED BY <1>3, <1>4, <1>11, <2>1
<1>. QED BY <1>12 DEF Known, dist, missing

LEMMA MadeKnown ==
    ASSUME TypeInv, AnalysisInv, DistInv, NEW o, Made(o)
    PROVE  KnownIfRunning(o)
<1>1. /\ spec \in Specs /\ store \in Object /\ obj \in Object
      /\ KnownIfRunning(store)
      /\ ~InFlight => KnownIfRunning(obj)
      /\ ~InFlight /\ obj.stage = "Initializing" => obj.analysis = NoAnalysis
  BY DEF TypeInv, RequestTypes, DistInv, AnalysisInv, Consistent, Resting
<1>2. CASE \E v \in BOOLEAN : o = [store EXCEPT !.versioned = v]
  BY <1>1, <1>2 DEF Object, KnownIfRunning
<1>3. CASE \E s \in {"Completed", "Finishing"} : o = [obj EXCEPT !.stage = s]
  BY <1>1, <1>3 DEF Object, KnownIfRunning
<1>4. CASE o = Failure(obj)
  BY <1>1, <1>4, FailureIs DEF KnownIfRunning
<1>5. CASE pc = "read metrics" /\ o = [obj EXCEPT !.metrics = DOMAIN found]
  BY <1>1, <1>5 DEF Object, InFlight, KnownIfRunning
<1>6. CASE pc = "act" /\ obj.stage = "Initializing" /\ o = [obj EXCEPT !.stage = "Running"]
  BY <1>1, <1>6 DEF Object, InFlight, KnownIfRunning
<1>7. CASE pc = "act" /\ o = Recommending(obj)
  BY <1>1, <1>7, RecommendingIs DEF Object, InFlight, KnownIfRunning
<1>8. CASE \E analysis \in Analyses, s \in {"Finishing", "Completed"} :
              o = [Invoked(analysis) EXCEPT !.stage = s]
  BY <1>1, <1>8 DEF Invoked, Object, KnownIfRunning
<1>9. CASE \E analysis \in Analyses : o = Failure(Invoked(analysis))
  BY <1>1, <1>9, Writing, FailureIs DEF Invoked, KnownIfRunning
<1>10. /\ WithDistribution \in Object
       /\ WithDistribution.stage = obj.stage
       /\ WithDistribution.analysis = obj.analysis
       /\ WithDistribution.dist = NewDistribution
  BY <1>1, NewDistributionType DEF WithDistribution, Object
<1>11. WeightsKnown /\ SpecOf(obj).versions # <<>> => Known(NewDistribution)
  BY ObservedKnown DEF DistInv, NewDistribution
<1>12. CASE /\ pc \in {"observe after loop", "observe at start"}
            /\ WeightsKnown /\ o = WithDistribution
  <2>1. CASE SpecOf(obj).versions = <<>>
    BY <1>1, <1>10, <1>12, <2>1 DEF NewDistribution, InFlight, KnownIfRunning
  <2>2. CASE SpecOf(obj).versions # <<>>
    BY <1>10, <1>11, <1>12, <2>2 DEF KnownIfRunning
  <2>. QED BY <2>1, <2>2
<1>13. CASE pc = "observe" /\ WeightsKnown /\ o = Recommending(WithDistribution)
  <2>. DEFINE d == WithDistribution
  <2>1. SpecOf(obj).versions # <<>>
    <3>1. obj.versioned
      BY <1>13 DEF TypeInv, RequestTypes, Iterating
    <3>. QED BY <1>1, <3>1, SpecShown, SpecTypes
  <2>2. d \in Object /\ d.dist = NewDistribution
    BY <1>10
  <2>3. o = [d EXCEPT !.recommended = Chosen(d.analysis)]
    BY <1>13, RecommendingIs
  <2>. HIDE DEF d
  <2>4. o.dist = NewDistribution
    BY <2>2, <2>3 DEF Object
  <2>. QED BY <1>11, <1>13, <2>1, <2>4 DEF KnownIfRunning
<1>. QED
  BY <1>2, <1>3, <1>4, <1>5, <1>6, <1>7, <1>8, <1>9, <1>12, <1>13 DEF Made

LEMMA DistStep ==
    ASSUME TypeInv, AnalysisInv, DistInv, [Next]_vars, pc # "panic", pc' # "panic"
    PROVE  DistInv'
<1>1. ObjectStep /\ RequestTypes /\ spec' = spec
  BY Steps, ObjectsStep DEF TypeInv
<1>2. SeenInv'
  BY SeenStep DEF DistInv
<1>3. ASSUME NEW o \in Resting'
      PROVE  KnownIfRunning(o)'
  <2>1. o \in Resting \/ Made(o)
    BY <1>1, RestingStep DEF Usual
  <2>2. KnownIfRunning(o)
    BY <2>1, MadeKnown DEF DistInv
  <2>3. Known(o.dist)' = Known(o.dist)
    BY <1>1, SpecUnchanged DEF Known
  <2>. QED BY <2>2, <2>3 DEF KnownIfRunning
<1>. QED BY <1>2, <1>3 DEF DistInv

-----------------------------------------------------------------------------
(***************************************************************************)
(* The metrics.  While they are read, all that the criteria name and all   *)
(* that a metric which has been read refers to has been read or is still   *)
(* to be; so what is recorded in the end is complete, and is then handed   *)
(* on from object to object.                                               *)
(***************************************************************************)
Referents(key) == {Key(key[1], Catalog[key][i]) : i \in DOMAIN Catalog[key]}

Covers(metrics, more) ==
    /\ Range(NamedMetrics(spec)) \subseteq metrics \cup more
    /\ \A key \in metrics : Referents(key) \subseteq metrics \cup more

ReadInv == pc = "read metrics" => Covers(DOMAIN found, Range(todo))

CompleteIfAny(o) == o.metrics # {} => Covers(o.metrics, {})

MetricsInv == ReadInv /\ \A o \in Resting \cup {obj} : CompleteIfAny(o)

LEMMA EmptyDomain == DOMAIN <<>> = {}
OBVIOUS

LEMMA ReadStep ==
    ASSUME TypeInv, ReadInv, [Next]_vars
    PROVE  ReadInv'
<1>. SUFFICES ASSUME pc' = "read metrics" PROVE Covers(DOMAIN found, Range(todo))'
  BY DEF ReadInv
<1>1. /\ ReaderStep
      /\ pc = "read metrics" \/ StartReading(spec)
      /\ MetricTypes /\ spec' = spec
  BY ReaderSteps, ObjectsStep DEF TypeInv
<1>2. CASE StartReading(spec)
  <2>1. todo' = NamedMetrics(spec) /\ found' = <<>>
    BY <1>2 DEF StartReading
  <2>2. DOMAIN found' = {}
    BY <2>1, EmptyDomain
  <2>. QED BY <1>1, <2>1, <2>2 DEF Covers
<1>. SUFFICES ASSUME ~StartReading(spec) PROVE Covers(DOMAIN found, Range(todo))'
  BY <1>2
<1>3. Covers(DOMAIN found, Range(todo))
  BY <1>1 DEF ReadInv
<1>4. CASE UNCHANGED <<todo, found>>
  BY <1>1, <1>3, <1>4 DEF Covers
<1>5. CASE ReadMetric
  <2>1. todo \in Seq(RefKey) /\ todo # <<>>
    BY <1>1, <1>5 DEF ReadMetric, MetricTypes
  <2>2. Tail(todo) \in Seq(RefKey) /\ Range(todo) = {Head(todo)} \cup Range(Tail(todo))
    BY <2>1, RangeHeadTail
  <2>3. CASE Head(todo) \in DOMAIN found
    <3>1. todo' = Tail(todo) /\ found' = found
      BY <1>5, <2>3 DEF ReadMetric
    <3>. QED BY <1>1, <1>3, <2>2, <2>3, <3>1 DEF Covers
  <2>4. CASE Head(todo) \notin DOMAIN found
    <3>1. /\ Head(todo) \in DOMAIN catalog /\ found' = Recorded(Head(todo))
          /\ todo' = Referred(Head(todo)) \o Tail(todo)
      BY <1>5, <2>4 DEF ReadMetric
    <3>2. /\ Referred(Head(todo)) \in Seq(RefKey)
          /\ Range(Referred(Head(todo))) = Referents(Head(todo))
      BY <1>1, <3>1, ReferredType DEF Referents
    <3>3. Range(todo') = Referents(Head(todo)) \cup Range(Tail(todo))
      <4>. DEFINE more == Referred(Head(todo))
                  rest == Tail(todo)
      <4>1. more \in Seq(RefKey) /\ rest \in Seq(RefKey)
        BY <2>2, <3>2
      <4>2. todo' = more \o rest /\ Range(more) = Referents(Head(todo))
        BY <3>1, <3>2
      <4>. HIDE DEF more
      <4>3. Range(more \o rest) = Range(more) \cup Range(rest)
        BY <4>1, RangeConcat
      <4>. QED BY <4>2, <4>3
    <3>4. DOMAIN found' = DOMAIN found \cup {Head(todo)}
      BY <3>1 DEF Recorded
    <3>5. \A key : Referents(key)' = Referents(key)
      BY DEF Referents
    <3>. HIDE DEF Referents
    <3>6. DOMAIN found \cup Range(todo) \subseteq DOMAIN found' \cup Range(todo')
      BY <2>2, <3>3, <3>4
    <3>. QED BY <1>1, <1>3, <3>3, <3>4, <3>5, <3>6 DEF Covers
  <2>. QED BY <2>3, <2>4
<1>6. CASE \E key \in DOMAIN catalog : DeleteMetric(key)
  BY <1>4, <1>6 DEF DeleteMetric
<1>. QED BY <1>1, <1>4, <1>5, <1>6 DEF ReaderStep, metricVars

LEMMA MadeComplete ==
    ASSUME TypeInv, MetricsInv, NEW o, Made(o)
    PROVE  CompleteIfAny(o)
<1>1. /\ store \in Object /\ obj \in Object
      /\ CompleteIfAny(store) /\ CompleteIfAny(obj)
  BY DEF TypeInv, RequestTypes, MetricsInv, Resting
<1>2. ASSUME NEW p \in {store, obj}, o.metrics = p.metrics
      PROVE  CompleteIfAny(o)
  BY <1>1, <1>2 DEF CompleteIfAny
<1>3. CASE \E v \in BOOLEAN : o = [store EXCEPT !.versioned = v]
  <2>1. o.metrics = store.metrics
    BY <1>1, <1>3 DEF Object
  <2>. QED BY <1>2, <2>1
<1>4. CASE pc = "read metrics" /\ AllRead /\ o = [obj EXCEPT !.metrics = DOMAIN found]
  <2>1. o.metrics = DOMAIN found
    BY <1>1, <1>4 DEF Object
  <2>2. Range(todo) = {}
    <3>1. todo = <<>>
      BY <1>4 DEF AllRead
    <3>. QED BY <3>1 DEF Range
  <2>. QED BY <1>4, <2>1, <2>2 DEF MetricsInv, ReadInv, CompleteIfAny
<1>5. CASE \E s \in Stage : o = [obj EXCEPT !.stage = s]
  <2>1. o.metrics = obj.metrics
    BY <1>1, <1>5 DEF Object
  <2>. QED BY <1>2, <2>1
<1>6. CASE o = Failure(obj)
  BY <1>1, <1>2, <1>6, FailureIs
<1>7. CASE o = Recommending(obj)
  <2>1. o.metrics = obj.metrics
    BY <1>1, <1>7, RecommendingIs DEF Object
  <2>. QED BY <1>2, <2>1
<1>8. CASE \E analysis \in Analyses, s \in Stage : o = [Invoked(analysis) EXCEPT !.stage = s]
  <2>1. o.metrics = obj.metrics
    BY <1>1, <1>8 DEF Invoked, Object
  <2>. QED BY <1>2, <2>1
<1>9. CASE \E analysis \in Analyses : o = Failure(Invoked(analysis))
  <2>1. PICK analysis \in Analyses : o = Failure(Invoked(analysis))
    BY <1>9
  <2>2. Invoked(analysis) \in Object /\ Invoked(analysis).metrics = obj.metrics
    BY <1>1, Writing DEF Invoked, Object
  <2>. QED BY <1>2, <2>1, <2>2, FailureIs
<1>10. WithDistribution \in Object /\ WithDistribution.metrics = obj.metrics
  BY <1>1, NewDistributionType DEF WithDistribution, Object
<1>11. CASE o = WithDistribution
  BY <1>2, <1>10, <1>11
<1>12. CASE o = Recommending(WithDistribution)
  <2>. DEFINE d == WithDistribution
  <2>1. d \in Object /\ d.metrics = obj.metrics /\ o = [d EXCEPT !.recommended = Chosen(d.analysis)]
    BY <1>10, <1>12, RecommendingIs
  <2>. HIDE DEF d
  <2>2. o.metrics = obj.metrics
    BY <2>1 DEF Object
  <2>. QED BY <1>2, <2>2
<1>. QED
  BY <1>3, <1>4, <1>5, <1>6, <1>7, <1>8, <1>9, <1>11, <1>12 DEF Made, Stage

LEMMA MetricsStep ==
    ASSUME TypeInv, MetricsInv, [Next]_vars, pc # "panic", pc' # "panic"
    PROVE  MetricsInv'
<1>1. ObjectStep /\ RequestTypes /\ spec' = spec /\ obj \in Object
  BY Steps, ObjectsStep DEF TypeInv, RequestTypes
<1>2. ReadInv'
  BY ReadStep DEF MetricsInv
<1>3. ASSUME NEW o, Usual(o)
      PROVE  CompleteIfAny(o)
  BY <1>3, MadeComplete DEF Usual, MetricsInv
<1>4. CompleteIfAny(obj')
  <2>1. CASE Usual(obj')
    BY <1>3, <2>1
  <2>2. CASE UNCHANGED obj
    BY <2>2 DEF MetricsInv
  <2>3. CASE \E analysis \in Analyses : obj' = Invoked(analysis)
    <3>1. obj'.metrics = obj.metrics
      BY <1>1, <2>3 DEF Invoked, Object
    <3>. QED BY <3>1 DEF MetricsInv, CompleteIfAny
  <2>. QED BY <1>1, <2>1, <2>2, <2>3 DEF ObjectStep, FlightStep
<1>5. \A o \in Resting' \cup {obj'} : CompleteIfAny(o)
  BY <1>1, <1>3, <1>4, RestingStep
<1>6. \A o : CompleteIfAny(o)' = CompleteIfAny(o)
  BY <1>1 DEF CompleteIfAny, Covers
<1>. QED BY <1>2, <1>5, <1>6 DEF MetricsInv

-----------------------------------------------------------------------------
(***************************************************************************)
(* The inductive invariant, and what follows from it.                      *)
(***************************************************************************)
StageInv == TypeInv /\ AnalysisInv /\ PatternInv /\ DistInv /\ MetricsInv

LEMMA InitStage == Init => StageInv
<1>. SUFFICES ASSUME Init PROVE StageInv
  OBVIOUS
<1>1. TypeInv
  BY InitTypes
<1>2. PICK v \in BOOLEAN : store = NewObject(v)
  BY DEF Init
<1>3. /\ cache = store /\ obj = store /\ pending = <<>>
      /\ pc = "idle" /\ loopJob = "absent"
  BY DEF Init
<1>4. Resting \cup {obj} = {store}
  <2>1. Range(pending) = {}
    BY <1>3 DEF Range
  <2>. QED BY <1>3, <2>1 DEF Resting
<1>5. /\ store.stage = "Initializing" /\ store.metrics = {} /\ ~store.failed
      /\ store.analysis = NoAnalysis /\ store.recommended = "none"
  BY <1>2 DEF NewObject
<1>6. AnalysisInv
  BY <1>3, <1>4, <1>5 DEF AnalysisInv, Consistent, Follows
<1>7. PatternInv
  BY <1>3, <1>4, <1>5 DEF PatternInv
<1>8. DistInv
  BY <1>3, <1>4, <1>5 DEF DistInv, SeenInv, Observing, KnownIfRunning
<1>9. MetricsInv
  BY <1>3, <1>4, <1>5 DEF MetricsInv, ReadInv, CompleteIfAny
<1>. QED BY <1>1, <1>6, <1>7, <1>8, <1>9 DEF StageInv

LEMMA StageAlways == Spec => []StageInv
<1>1. ASSUME StageInv, [Next]_vars
      PROVE  StageInv'
  <2>1. TypeInv /\ AnalysisInv /\ PatternInv /\ DistInv /\ MetricsInv
    BY <1>1 DEF StageInv
  <2>2. TypeInv'
    BY <1>1, <2>1, RequestTypesStep, MetricTypesStep, WeightTypesStep DEF TypeInv
  <2>3. pc # "panic" /\ pc' # "panic"
    BY <1>1, <2>1, NeverPanics DEF PatternInv
  <2>4. AnalysisInv' /\ PatternInv'
    BY <1>1, <2>1, <2>3, AnalysisStep, PatternStep
  <2>5. DistInv' /\ MetricsInv'
    BY <1>1, <2>1, <2>3, DistStep, MetricsStep
  <2>. QED BY <2>2, <2>4, <2>5 DEF StageInv
<1>2. StageInv /\ [Next]_vars => StageInv'
  BY <1>1
<1>. QED BY <1>2, InitStage, PTL DEF Spec

(* What is recommended while an experiment runs follows from the stored    *)
(* analysis: its winner, or the baseline as long as there is none, however *)
(* often an iteration is interrupted between the two.                      *)
THEOREM RecommendationFollows == Spec => []RecommendationFollowsWinner
<1>1. StageInv => RecommendationFollowsWinner
  BY DEF StageInv, AnalysisInv, Resting, Consistent, Follows, Chosen, RecommendationFollowsWinner
<1>. QED BY <1>1, StageAlways, PTL

(* Weights are never shifted, and no experiment is seen running, on an     *)
(* analysis that asks for a rollback.                                      *)
THEOREM FailingEndsIt == Spec => []NoFailingIteration
<1>1. StageInv => NoFailingIteration
  BY DEF StageInv, AnalysisInv, Resting, Consistent, NoFailingIteration
<1>. QED BY <1>1, StageAlways, PTL

(* An experiment of which iter8ctl asserts that it has completed and found *)
(* a winner, and that was neither failed nor to be rolled back, recommends *)
(* the winner.                                                             *)
THEOREM PromotionIsRight == Spec => []PromotedIsWinner
<1>1. ASSUME StageInv
      PROVE  PromotedIsWinner
  <2>. SUFFICES ASSUME Asserted(store, ConditionType), ~store.failed,
                       ~mustRollback(spec, store.analysis)
                PROVE  store.recommended = store.analysis.winner
    BY DEF PromotedIsWinner
  <2>1. store.analysis.winner # "none"
    BY DEF Asserted, ConditionType, WinnerFound
  <2>2. Follows(store)
    BY <1>1 DEF StageInv, AnalysisInv, Resting, Consistent
  <2>3. NoAnalysis.winner = "none"
    BY DEF NoAnalysis
  <2>. QED BY <2>1, <2>2, <2>3 DEF Follows, Chosen
<1>2. StageInv => PromotedIsWinner
  BY <1>1
<1>. QED BY <1>2, StageAlways, PTL

(* The nil deployment pattern is never dereferenced, whatever the          *)
(* references of the versions and whenever versionInfo arrives.            *)
THEOREM NeverNil == Spec => []NoNilPattern
<1>1. StageInv => NoNilPattern
  BY DEF StageInv, PatternInv, NoNilPattern
<1>. QED BY <1>1, StageAlways, PTL

(* After an iteration every version has a recorded weight, but for those   *)
(* that a fixed split may leave out, and they add up to 100 if one had to  *)
(* be computed: for any number of versions and objects, and whatever       *)
(* others do to the weights meanwhile.                                     *)
THEOREM DistributionKnown == Spec => []DistributionIsKnown
<1>1. StageInv => DistributionIsKnown
  BY DEF StageInv, DistInv, Resting, KnownIfRunning, Known, DistributionIsKnown
<1>. QED BY <1>1, StageAlways, PTL

(* status.metrics, once it is stored, has every metric that the criteria   *)
(* name and every one that such a metric needs, however metrics refer to   *)
(* each other and whichever of them are deleted meanwhile.                 *)
THEOREM MetricsAreComplete == Spec => []MetricsComplete
<1>1. ASSUME StageInv
      PROVE  MetricsComplete
  <2>. SUFFICES ASSUME store.metrics # {} PROVE Covers(store.metrics, {})
    BY DEF MetricsComplete, Covers, Referents
  <2>. QED BY <1>1 DEF StageInv, MetricsInv, Resting, CompleteIfAny
<1>2. StageInv => MetricsComplete
  BY <1>1
<1>. QED BY <1>2, StageAlways, PTL

=============================================================================
