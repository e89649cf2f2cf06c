---------------------------- MODULE WeightControl ---------------------------
(***************************************************************************)
(* redistributeWeight and updateObservedWeights (controllers/weights.go):  *)
(* write the recommended weights into the objects that the versions refer  *)
(* to and read back what is there.  Every call to the API server is a step *)
(* of its own and may fail; in between others may change the weights.      *)
(***************************************************************************)
EXTENDS ExperimentSpec, Integers, FiniteSets

VARIABLES
    actual,      \* the weight in each version's field
    patches,     \* objects still to be patched, each with the weights that change
    unread,      \* the versions still to be observed, by their index
    seen         \* observedWeights

weightVars == <<actual, patches, unread, seen>>

shouldRedistribute(s) ==
    s.pattern # "Conformance" /\ GetDeploymentPattern(s) # "FixedSplit"

-----------------------------------------------------------------------------
(***************************************************************************)
(* redistributeWeight.  weights are the recommended weights, a function of *)
(* some of the names; dist is status.currentWeightDistribution, a list.    *)
(***************************************************************************)

(* A version without a reference or a field is passed over.                *)
Adjustable(v) == v.ref # NoRef /\ v.ref.path # "empty"

RecommendationMissing(s, weights) ==
    \E i \in DOMAIN s.versions :
        Adjustable(s.versions[i]) /\ s.versions[i].name \notin DOMAIN weights

(* Zero when the distribution has no entry for the name.                   *)
getCurrentWeight(name, dist) ==
    LET entries == SelectSeq(dist, LAMBDA d : d.name = name)
    IN  IF entries = <<>> THEN 0 ELSE Head(entries).value

(* addPatch turns the path into a JSON pointer: "[", "]." and "." become   *)
(* "/".  The bracket behind an index at the end stays, so that the pointer *)
(* names nothing, and the server refuses a request that has one in it:     *)
(* none of the weights in it change.                                       *)
Applicable(versions) ==
    IF \A v \in versions : v.ref.path # "indexed" THEN {v.name : v \in versions} ELSE {}

(* addPatch for all versions: only weights that differ from the ones last  *)
(* recorded, grouped by the object without the field (getKey).             *)
Patches(s, weights, dist) ==
    LET changed == {v \in Range(s.versions) :
                       Adjustable(v) /\ weights[v.name] # getCurrentWeight(v.name, dist)}
        Of(object) == {v \in changed : v.ref.object = object}
    IN  [object \in {v.ref.object : v \in changed} |->
            [name \in Applicable(Of(object)) |-> weights[name]]]

StartPatching(s, weights, dist) ==
    /\ patches' = Patches(s, weights, dist)
    /\ UNCHANGED <<actual, unread, seen>>

(* Mutant of PatchWeight: the patch replaces all there is.                 *)
PatchWeightReplacing(object) ==
    /\ object \in DOMAIN patches
    /\ actual' = patches[object]
    /\ patches' = [o \in DOMAIN patches \ {object} |-> patches[o]]
    /\ UNCHANGED <<unread, seen>>

(* patchWeight: one request changes all the fields of an object.  The      *)
(* objects come in the order of a Go map, any.                             *)
PatchWeight(object) ==
    /\ object \in DOMAIN patches
    /\ actual' = [name \in DOMAIN actual \cup DOMAIN patches[object] |->
                    IF name \in DOMAIN patches[object] THEN patches[object][name] ELSE actual[name]]
    /\ patches' = [o \in DOMAIN patches \ {object} |-> patches[o]]
    /\ UNCHANGED <<unread, seen>>

(* A patch that fails is logged and nothing else.                          *)
PatchFails(object) ==
    /\ object \in DOMAIN patches
    /\ patches' = [o \in DOMAIN patches \ {object} |-> patches[o]]
    /\ UNCHANGED <<actual, unread, seen>>

AllPatched == DOMAIN patches = {}

-----------------------------------------------------------------------------
(***************************************************************************)
(* updateObservedWeights                                                   *)
(***************************************************************************)
StartObserving(s) ==
    /\ unread' = [i \in DOMAIN s.versions |-> i]
    /\ seen' = <<>>
    /\ UNCHANGED <<actual, patches>>

(* The next version: a version without a reference is missing; any other   *)
(* is read from its field.                                                 *)
ObserveWeight(s) ==
    /\ unread # <<>>
    /\ LET v == s.versions[Head(unread)]
       IN  \/ v.ref = NoRef /\ UNCHANGED seen
           \/ HasField(v) /\ seen' = Append(seen, [name |-> v.name, value |-> actual[v.name]])
    /\ unread' = Tail(unread)
    /\ UNCHANGED <<actual, patches>>

(* A path that is empty or does not parse never yields a weight; a read    *)
(* may fail for any reference.                                             *)
ObservationFails(s) == unread # <<>> /\ s.versions[Head(unread)].ref # NoRef

Observed == unread = <<>>

(* The versions without a reference, by their index.                       *)
MissingVersions(s) == {i \in DOMAIN s.versions : s.versions[i].ref = NoRef}

(* The weights of a distribution added up, from the first entry on.        *)
Sums(dist) ==
    LET sum[n \in 0..Len(dist)] == IF n = 0 THEN 0 ELSE sum[n - 1] + dist[n].value
    IN  sum

Total(dist) == Sums(dist)[Len(dist)]

(* Mutant of ObservedDistribution: the missing weight is not computed.     *)
SeenDistribution(s) == seen

(* One missing weight is what the others leave of 100, whatever they are;  *)
(* more than one are left out.                                             *)
ObservedDistribution(s) ==
    IF Cardinality(MissingVersions(s)) = 1
      THEN LET missing == CHOOSE i \in MissingVersions(s) : TRUE
           IN  Append(seen, [name |-> s.versions[missing].name, value |-> 100 - Total(seen)])
      ELSE seen

(* Too many references are missing to know the distribution.  The pattern  *)
(* is dereferenced although the defaults may not have been filled in yet.  *)
PatternNeeded(s) == Cardinality(MissingVersions(s)) > 1

DistributionUnknown(s) == PatternNeeded(s) /\ s.deployment # "FixedSplit"

PatternMissing(s) == PatternNeeded(s) /\ s.deployment = "unset"

(* Others change a weight. *)
DriftTo(name, weight) ==
    /\ name \in DOMAIN actual
    /\ actual' = [actual EXCEPT ![name] = weight]
    /\ UNCHANGED <<patches, unread, seen>>

DropWeightWork ==
    /\ patches' = <<>>
    /\ unread' = <<>>
    /\ seen' = <<>>
    /\ UNCHANGED actual

=============================================================================
