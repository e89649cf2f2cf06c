------------------------------ MODULE MCRunning -----------------------------
(***************************************************************************)
(* Experiments for RunningStage and the metric objects they are about.     *)
(***************************************************************************)
EXTENDS RunningStage, Iter8ctl

Field(object) == [object |-> object, path |-> "dotted"]

Version(name, ref) == [name |-> name, ref |-> ref]

Plain(pattern, deployment, versions) ==
    [pattern |-> pattern, deployment |-> deployment, versions |-> versions, criteria |-> NoCriteria]

(* Requests in another namespace count in a metric of that namespace, and  *)
(* latency and its sample size refer to each other.                        *)
MCCatalog ==
    <<"shared", "requests">> :> <<<<"", "count">>>> @@
    <<"shared", "count">> :> <<>> @@
    <<"ns", "latency">> :> <<<<"ns", "samples">>>> @@
    <<"ns", "samples">> :> <<<<"", "latency">>>>

Objective(name, rollback) == [metric |-> <<"", name>>, rollback |-> rollback]

(* The weights are in two objects; one of two objectives rolls back.       *)
Canary ==
    [Plain("Canary", "unset", <<Version("v1", Field("one")), Version("v2", Field("two"))>>)
       EXCEPT !.criteria =
         [NoCriteria EXCEPT !.requestCount = <<<<"shared", "requests">>>>,
                            !.objectives = <<Objective("latency", "true"), Objective("samples", "unset")>>]]

(* The weight of the baseline is computed; all objectives roll back.       *)
BlueGreen ==
    [Plain("A/B", "BlueGreen", <<Version("v1", NoRef), Version("v2", Field("vs"))>>)
       EXCEPT !.criteria =
         [NoCriteria EXCEPT !.rewards = <<<<"", "latency">>>>,
                            !.indicators = <<<<"shared", "requests">>>>,
                            !.objectives = <<Objective("samples", "unset")>>]]

(* Nothing but weights, in one object or in two.                           *)
OneObject == Plain("Canary", "unset", <<Version("v1", NoRef), Version("v2", Field("vs"))>>)

(* The weights of one object, one of them at the end of a list.            *)
LastOfList ==
    Plain("Canary", "unset",
          <<Version("v1", Field("vs")), Version("v2", [object |-> "vs", path |-> "indexed"])>>)

TwoObjects ==
    Plain("Canary", "unset", <<Version("v1", Field("one")), Version("v2", Field("two"))>>)

FixedSplit ==
    Plain("Canary", "FixedSplit", <<Version("v1", NoRef), Version("v2", NoRef)>>)

ThreeVersions ==
    [Plain("A/B/N", "FixedSplit", <<Version("v1", NoRef), Version("v2", NoRef), Version("v3", NoRef)>>)
       EXCEPT !.criteria = [NoCriteria EXCEPT !.rewards = <<<<"shared", "count">>>>]]

Unweighted == Plain("Canary", "unset", <<Version("v1", NoRef), Version("v2", NoRef)>>)

Conformance == Plain("Conformance", "unset", <<Version("v1", NoRef)>>)

Invalid ==
    {Plain("Conformance", "unset", <<Version("v1", Field("vs")), Version("v2", Field("vs"))>>),
     Plain("Canary", "unset", <<Version("v1", NoRef), Version("v1", Field("vs"))>>),
     Plain("Canary", "FixedSplit", <<Version("v1", NoRef), Version("v2", [object |-> "vs", path |-> "empty"])>>)}

MCSpecs ==
    {Canary, BlueGreen, OneObject, LastOfList, TwoObjects, FixedSplit, ThreeVersions, Unweighted,
     Conformance} \cup Invalid

MCWithLoopHandler == {OneObject, TwoObjects, Unweighted, FixedSplit}

MCWithFinishHandler == {Canary, Conformance}

MCWithStaleCache == {OneObject, FixedSplit, Conformance}

(* Who asserts with iter8ctl that an experiment has completed and found a  *)
(* winner may promote: unless it has failed or was rolled back, the winner *)
(* is what the experiment recommends (assert.go, status.go:105), although  *)
(* the last analysis and the recommendation are written at different times.*)
PromotedIsWinner ==
    Asserted(store, ConditionType) /\ ~store.failed /\ ~mustRollback(spec, store.analysis) =>
        store.recommended = store.analysis.winner

(* describe stars one version if any has a value (experiment.go:309), the  *)
(* first of those that no other beats, whatever the analysis says of the   *)
(* experiment's versions.                                                  *)
BestIsMarked ==
    store.analysis # NoAnalysis =>
        \A values \in [DOMAIN spec.versions -> {Unavailable, 1, 2}],
           direction \in PreferredDirection :
            LET available == {i \in DOMAIN values : values[i] # Unavailable}
                unbeaten == {i \in available :
                                \A j \in available : ~Beats(direction, values[j], values[i])}
                best == CurrentBest(values, direction)
            IN  /\ best = 0 <=> available = {}
                /\ best # 0 => best \in unbeaten /\ \A i \in unbeaten : best <= i

(* Log lines of the handlers that have run, with two iterations per loop:  *)
(* up to three, where a line may also be of another experiment or be less  *)
(* important than asked for, or one or six of one job and then one or six  *)
(* of another, as kubectl prints the logs pod by pod.                      *)
HandlersRun ==
    {"start"} \cup {h \in {"loop"} : loopJob = "complete"}
              \cup {h \in {"finish"} : finishJob \in {"complete", "failed"}}

Precedences == {Precedence(h, n, 2) : h \in HandlersRun, n \in {1, 2}}

HandlerEntry == [precedence : Precedences, priority : {1}, ours : {TRUE}]

OtherEntry == [precedence : {0}, priority : {2}, ours : {TRUE}] \cup
              [precedence : {0}, priority : {1}, ours : {FALSE}]

LogEntry == HandlerEntry \cup OtherEntry

Numbered(entries) ==
    [i \in DOMAIN entries |->
        [text |-> i, precedence |-> entries[i].precedence,
         priority |-> entries[i].priority, ours |-> entries[i].ours]]

Blocks ==
    {[i \in 1..(m + n) |-> IF i <= m THEN a ELSE b] :
        m, n \in {1, Gap}, a, b \in HandlerEntry}

Lines == {Numbered(entries) : entries \in BoundedSeq(LogEntry, 3) \cup Blocks}

(* Of two lines the first in print: by precedence and, of few lines, those *)
(* of one precedence as they were written.                                 *)
InOrder(a, b, few) ==
    /\ a # b
    /\ a.precedence <= b.precedence
    /\ few /\ a.precedence = b.precedence => a.text < b.text

(* debug prints exactly the wanted logs of an experiment that has ended,   *)
(* each of them once and by precedence, up to the twelve that Go does not  *)
(* sort by quicksort; and those of one job in the order in which the job   *)
(* has written them (debug.go:33), as long as they are fewer than seven:   *)
(* with more, the pass over entries six apart may change their places.     *)
LogsInOrder ==
    Completed(store) /\ pc = "idle" /\ pending = <<>> =>
        \A lines \in Lines :
            LET printed == Debug(lines, 1)
            IN  /\ ToSet(printed) = {l \in ToSet(lines) : l.ours /\ l.priority = 1}
                /\ \A i, j \in DOMAIN printed :
                      i < j => InOrder(printed[i], printed[j], Len(printed) <= Gap)

=============================================================================
