---------------------------- MODULE MetricsReader ---------------------------
(***************************************************************************)
(* ReadMetrics and ReadMetric (controllers/metrics.go): collect the        *)
(* metrics that the criteria name and those they refer to in turn by       *)
(* sampleSize.  Every metric is a read of its own, and metric objects may  *)
(* come and go between two of them.                                        *)
(***************************************************************************)
EXTENDS ExperimentSpec

CONSTANTS
    ExperimentNamespace

VARIABLES
    catalog,     \* the metric objects: from key to sampleSize, none or one reference
    todo,        \* references still to be read, in the code's order
    found        \* metricsCache: the metrics read so far, as they were

metricVars == <<catalog, todo, found>>

(* A key is a namespace and a name.                                        *)
Key(namespace, ref) == IF ref[1] = "" THEN <<namespace, ref[2]>> ELSE ref

(* The references of the criteria, with the experiment's namespace.        *)
NamedMetrics(s) ==
    LET refs == s.criteria.requestCount \o s.criteria.rewards \o s.criteria.indicators
                \o [i \in DOMAIN s.criteria.objectives |-> s.criteria.objectives[i].metric]
    IN  [i \in DOMAIN refs |-> Key(ExperimentNamespace, refs[i])]

(* metrics are the keys in status.metrics                                  *)
ShouldReadMetrics(s, metrics) == metrics = {} /\ NamedMetrics(s) # <<>>

StartReading(s) ==
    /\ todo' = NamedMetrics(s)
    /\ found' = <<>>
    /\ UNCHANGED catalog

(* The sampleSize of a metric is looked up in that metric's namespace.     *)
Referred(key) == [i \in DOMAIN catalog[key] |-> Key(key[1], catalog[key][i])]

Recorded(key) ==
    [k \in DOMAIN found \cup {key} |-> IF k \in DOMAIN found THEN found[k] ELSE catalog[k]]

(* Mutants of ReadMetric: it does not follow sampleSize; it records a      *)
(* metric only once what it refers to has been read.                       *)
ReadMetricShallow ==
    /\ todo # <<>>
    /\ IF Head(todo) \in DOMAIN found
         THEN todo' = Tail(todo) /\ UNCHANGED found
         ELSE /\ Head(todo) \in DOMAIN catalog
              /\ found' = Recorded(Head(todo))
              /\ todo' = Tail(todo)
    /\ UNCHANGED catalog

ReadMetricRecordedLast ==
    /\ todo # <<>>
    /\ IF Head(todo) \in DOMAIN found
         THEN todo' = Tail(todo) /\ UNCHANGED found
         ELSE /\ Head(todo) \in DOMAIN catalog
              /\ LET more == Referred(Head(todo))
                 IN  IF more = <<>>
                       THEN found' = Recorded(Head(todo)) /\ todo' = Tail(todo)
                       ELSE todo' = more \o todo /\ UNCHANGED found
    /\ UNCHANGED catalog

(* One read that succeeds, or a metric that has been read already.         *)
ReadMetric ==
    /\ todo # <<>>
    /\ IF Head(todo) \in DOMAIN found
         THEN todo' = Tail(todo) /\ UNCHANGED found
         ELSE /\ Head(todo) \in DOMAIN catalog
              /\ found' = Recorded(Head(todo))
              /\ todo' = Referred(Head(todo)) \o Tail(todo)
    /\ UNCHANGED catalog

(* The next metric cannot be found.                                        *)
MetricUnavailable == todo # <<>> /\ Head(todo) \notin DOMAIN found \cup DOMAIN catalog

AllRead == todo = <<>>

(* A user deletes a metric. *)
DeleteMetric(key) ==
    /\ key \in DOMAIN catalog
    /\ catalog' = [k \in DOMAIN catalog \ {key} |-> catalog[k]]
    /\ UNCHANGED <<todo, found>>

Forget ==
    /\ todo' = <<>>
    /\ found' = <<>>
    /\ UNCHANGED catalog

=============================================================================
