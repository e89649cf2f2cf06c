------------------------------ MODULE Iter8ctl ------------------------------
(***************************************************************************)
(* What iter8ctl makes of an experiment: the conditions of assert, the     *)
(* best version that describe marks (iter8ctl/experiment/experiment.go)    *)
(* and the order in which debug prints the logs of the handlers            *)
(* (iter8ctl/debug/debug.go).  Definitions only; o is an experiment as     *)
(* module RunningStage stores it.                                          *)
(***************************************************************************)
EXTENDS Naturals, SequencesExt

ConditionType == {"completed", "winnerFound"}

Completed(o) == o.stage = "Completed"

WinnerFound(o) == o.analysis.winner # "none"

Asserted(o, conditions) ==
    /\ "completed" \in conditions => Completed(o)
    /\ "winnerFound" \in conditions => WinnerFound(o)

-----------------------------------------------------------------------------
(***************************************************************************)
(* GetAnnotatedMetricStrs: the values of a reward, one for each version,   *)
(* with a star at the best; its place is 0 when no value is available, and *)
(* so is a value that is not.                                              *)
(***************************************************************************)
Unavailable == 0

PreferredDirection == {"High", "Low"}

Beats(direction, a, b) == IF direction = "High" THEN a > b ELSE a < b

(* The loop body: the best after the i-th version, given the one before.  *)
Visit(values, direction, best, i) ==
    IF \/ values[i] = Unavailable
       \/ best # 0 /\ ~Beats(direction, values[i], values[best])
      THEN best ELSE i

(* The best of the first n versions, for each n. *)
BestSoFar(values, direction) ==
    LET best[n \in 0..Len(values)] ==
            IF n = 0 THEN 0 ELSE Visit(values, direction, best[n - 1], n)
    IN  best

(* Mutant of CurrentBest: the last version that was looked at is starred,  *)
(* as it would be if the loop variable's address were kept.                *)
CurrentBestByAddress(values, direction) ==
    IF BestSoFar(values, direction)[Len(values)] = 0 THEN 0 ELSE Len(values)

CurrentBest(values, direction) == BestSoFar(values, direction)[Len(values)]

-----------------------------------------------------------------------------
(***************************************************************************)
(* Debug.  A line has the precedence and priority of an Iter8Log, and says *)
(* whether it is one of this experiment's.  The logs are sorted after each *)
(* line, with sort.Sort of Go 1.16 (go.mod): up to twelve of them, one     *)
(* pass over entries six apart and then insertion sort.  Beyond that it is *)
(* quicksort, which is not modelled.                                       *)
(***************************************************************************)
MostLines == 12

Gap == 6

(* GetIter8LogPrecedence, of a line written by a handler that has read the *)
(* experiment when so many iterations were completed.                      *)
Precedence(handler, completedIterations, iterationsPerLoop) ==
    IF handler = "start" THEN 0 ELSE completedIterations \div iterationsPerLoop + 1

(* Less: as it is called, i is behind j, and of two of the same precedence *)
(* the one in front stays there.                                           *)
Precedes(a, b) == a.precedence < b.precedence

(* The pass: the i-th entry changes places with the one that is Gap before *)
(* it, and so passes the entries between them, also those of its own       *)
(* precedence.                                                             *)
Exchanged(logs, i) ==
    IF Precedes(logs[i], logs[i - Gap])
      THEN [logs EXCEPT ![i] = logs[i - Gap], ![i - Gap] = logs[i]]
      ELSE logs

Shell(logs) ==
    LET pass[n \in 0..Len(logs)] == IF n <= Gap THEN logs ELSE Exchanged(pass[n - 1], n)
    IN  pass[Len(logs)]

(* Insertion: an entry sinks to its place among those before it, right     *)
(* behind the last one that it does not precede.  Mutant: it also passes   *)
(* those of its own precedence.                                            *)
PlacePastEquals(logs, new) == 1 + Max({0} \cup {i \in DOMAIN logs : Precedes(logs[i], new)})

Place(logs, new) == 1 + Max({0} \cup {i \in DOMAIN logs : ~Precedes(new, logs[i])})

Sink(logs, new) == InsertAt(logs, Place(logs, new), new)

Insertion(logs) ==
    LET sorted[n \in 0..Len(logs)] == IF n = 0 THEN <<>> ELSE Sink(sorted[n - 1], logs[n])
    IN  sorted[Len(logs)]

Sort(logs) == Insertion(Shell(logs))

(* Lines of other experiments and less important ones are left out.        *)
Wanted(line, priority) == line.ours /\ line.priority <= priority

(* The logs after the first n lines, for each n. *)
Logs(lines, priority) ==
    LET logs[n \in 0..Len(lines)] ==
            IF n = 0 THEN <<>>
            ELSE Sort(IF Wanted(lines[n], priority) THEN Append(logs[n - 1], lines[n])
                                                    ELSE logs[n - 1])
    IN  logs

Debug(lines, priority) == Logs(lines, priority)[Len(lines)]

=============================================================================
