---------------------------- MODULE MCHandlerJobs ---------------------------
(***************************************************************************)
(* Actions for HandlerJobs.                                                *)
(***************************************************************************)
EXTENDS HandlerJobs, CollectResults

Plain(kind) == [kind |-> kind, if |-> "true", strict |-> FALSE, flaw |-> "none"]

(* Results; a notification that may not fail, a task whose condition does  *)
(* not hold, one whose condition does not compile, and one that measures   *)
(* behind it; a task that cannot be made after one that can.               *)
MCActions ==
    {<<Plain("collect")>>,
     <<[Plain("http") EXCEPT !.strict = TRUE],
       [Plain("run") EXCEPT !.if = "false"],
       [Plain("readiness") EXCEPT !.if = "bad"],
       Plain("collect")>>,
     <<Plain("collect"), [Plain("readiness") EXCEPT !.flaw = "bad object name"]>>}

(* What one run of a collect task may have measured, version by version.   *)
Measurements ==
    LET Measurement(version, count, code) ==
            [version |-> version,
             result |-> [count |-> count, sum |-> 2 * count, max |-> count, data |-> <<count>>,
                         codes |-> [c \in {code} |-> count]]]
    IN  {<<Measurement("baseline", 1, "200")>>,
         <<Measurement("baseline", 2, "500"), Measurement("candidate", 1, "200")>>,
         <<Measurement("candidate", 2, "500")>>}

(* The results in the end, each task adding to those of the tasks before.  *)
CollectedBy(tasks) ==
    LET totals[n \in 0..Len(tasks)] ==
            IF n = 0 THEN NoResults ELSE Measured(totals[n - 1], tasks[n])
    IN  totals

Collected(tasks) == CollectedBy(tasks)[Len(tasks)]

(* What adds up in a result: requests, their durations, the buckets of the *)
(* histogram and the requests for each return code.                        *)
Quantity == {"requests", "duration", "buckets", "200", "500"}

Amount(result, quantity) ==
    CASE quantity = "requests" -> result.count
      [] quantity = "duration" -> result.sum
      [] quantity = "buckets" -> Len(result.data)
      [] OTHER -> Get(result.codes, quantity)

(* The sums of the first n numbers. *)
Sums(numbers) ==
    LET sum[n \in 0..Len(numbers)] == IF n = 0 THEN 0 ELSE sum[n - 1] + numbers[n]
    IN  sum

SumOf(numbers) == Sums(numbers)[Len(numbers)]

(* What the measurements of a task add to a version.                       *)
Share(task, version, quantity) ==
    SumOf([i \in 1..Len(task) |->
              IF task[i].version = version THEN Amount(task[i].result, quantity) ELSE 0])

MaximaOf(task, version) ==
    {task[i].result.max : i \in {k \in 1..Len(task) : task[k].version = version}}

AllMaxima(tasks, version) == UNION {MaximaOf(tasks[k], version) : k \in 1..Len(tasks)}

(* Nothing that the collect tasks of an experiment have measured and       *)
(* stored is lost or counted for another version when the results of a     *)
(* later job or attempt join it (collect.go:157), not even when a return   *)
(* code, or a version, appears for the first time in a later one.          *)
AggregatesAll ==
    \A tasks \in [1..Cardinality(results) -> Measurements], v \in {"baseline", "candidate"} :
        LET totals == Collected(tasks)
            maxima == AllMaxima(tasks, v)
        IN  /\ v \in DOMAIN totals <=> maxima # {}
            /\ v \in DOMAIN totals =>
                  /\ totals[v].max = Max(maxima)
                  /\ \A q \in Quantity :
                        Amount(totals[v], q) = SumOf([k \in 1..Len(tasks) |-> Share(tasks[k], v, q)])

=============================================================================
