--------------------------- MODULE ExperimentSpec ---------------------------
(***************************************************************************)
(* What the controller reads of spec (api/v2alpha2/experiment_types.go),   *)
(* the defaults of optional fields (defaults.go) and the rules of          *)
(* validation (controllers/validatation.go).  Definitions only; s is the   *)
(* specification of one experiment.                                        *)
(*                                                                         *)
(* Quantities that only the analytics service or a user reads are left     *)
(* out.  A version is known by its name; its field in a weight object is   *)
(* the version's own.                                                      *)
(***************************************************************************)
EXTENDS Naturals, Sequences, SequencesExt

TestingPattern == {"Canary", "A/B", "A/B/N", "Conformance"}

DeploymentPattern == {"FixedSplit", "Progressive", "BlueGreen"}

(* weightObjRef: an object and the field path of a weight in it, which     *)
(* starts with a dot and ends in a name or in an index, or has no dot, or  *)
(* is empty.                                                               *)
NoRef == [object |-> "none", path |-> "none"]

WeightObjRef(Object) ==
    [object : Object, path : {"dotted", "indexed", "undotted", "empty"}] \cup {NoRef}

VersionDetail(Version, Object) == [name : Version, ref : WeightObjRef(Object)]

(* A path that observeWeight can read. *)
HasField(v) == v.ref.path \in {"dotted", "indexed"}

(* A reference to a metric: a namespace, or "" for the one of whoever      *)
(* refers, and a name.                                                     *)
MetricRef(Namespace, Name) == (Namespace \cup {""}) \X Name

Criteria(Ref) ==
    [requestCount : Seq(Ref),      \* at most one
     rewards : Seq(Ref),
     indicators : Seq(Ref),
     objectives : Seq([metric : Ref, rollback : {"unset", "true", "false"}])]

NoCriteria == [requestCount |-> <<>>, rewards |-> <<>>, indicators |-> <<>>, objectives |-> <<>>]

(* Absent criteria and empty ones are treated alike wherever they are      *)
(* read.  No versions stand for a versionInfo that is not there yet.       *)
Specification(Version, Object, Ref) ==
    [pattern : TestingPattern,
     deployment : DeploymentPattern \cup {"unset"},
     versions : Seq(VersionDetail(Version, Object)),
     criteria : Criteria(Ref)]

HasVersionInfo(s) == s.versions # <<>>

Baseline(s) == s.versions[1].name

NamesOf(s) == {s.versions[i].name : i \in DOMAIN s.versions}

-----------------------------------------------------------------------------
(***************************************************************************)
(* Defaults                                                                *)
(***************************************************************************)
(* Mutant of GetDeploymentPattern: another default.                        *)
GetDeploymentPatternFixed(s) ==
    IF s.deployment = "unset" THEN "FixedSplit" ELSE s.deployment

GetDeploymentPattern(s) ==
    IF s.deployment = "unset" THEN "Progressive" ELSE s.deployment

(* Whether failing an objective ends the experiment.                       *)
GetRollbackOnFailure(objective, deployment) ==
    CASE objective.rollback = "unset" -> deployment = "BlueGreen"
      [] OTHER -> objective.rollback = "true"

(* InitializeSpec, in memory only.  InitializeObjectives assigns to the    *)
(* loop's copies of the objectives, so nothing comes of it.                *)
InitializeSpec(s) == [s EXCEPT !.deployment = GetDeploymentPattern(s)]

-----------------------------------------------------------------------------
(***************************************************************************)
(* Validation of versionInfo                                               *)
(***************************************************************************)
GetNumberOfCandidates(s) == Len(s.versions) - 1

CandidatesMatchStrategy(s) ==
    CASE s.pattern = "Conformance" -> GetNumberOfCandidates(s) = 0
      [] s.pattern \in {"A/B", "Canary"} -> GetNumberOfCandidates(s) = 1
      [] s.pattern = "A/B/N" -> GetNumberOfCandidates(s) > 0

VersionsUnique(s) ==
    IsInjective([i \in DOMAIN s.versions |-> s.versions[i].name])

ValidNumberOfRewards(s) ==
    Len(s.criteria.rewards) = IF s.pattern \in {"A/B", "A/B/N"} THEN 1 ELSE 0

FieldPathsDotted(s) ==
    \A i \in DOMAIN s.versions : s.versions[i].ref.path # "undotted"

IsVersionInfoValid(s) ==
    /\ HasVersionInfo(s)
    /\ CandidatesMatchStrategy(s)
    /\ VersionsUnique(s)
    /\ ValidNumberOfRewards(s)
    /\ FieldPathsDotted(s)

=============================================================================
