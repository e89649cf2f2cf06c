------------------------- MODULE ExperimentContract -------------------------
(***************************************************************************)
(* What the life of one experiment promises its user, without requests,    *)
(* caches, retries or restarts: which stage follows which, when a handler  *)
(* may start, when an iteration may be counted, and what must be true of   *)
(* an experiment that ends with a certain outcome.                         *)
(*                                                                         *)
(* The user sees the status and the jobs of the handlers.  A handler       *)
(* starts only when those before it have completed: nothing starts beside  *)
(* a running handler, after one has failed or after the finish handler.    *)
(***************************************************************************)
EXTENDS Integers

CONSTANTS
    IterationsPerLoop,
    MaxLoops,
    Strategies,     \* the sets of kinds of handlers an experiment may have
    LateLaunches    \* TRUE: a handler may start when the experiment has ended

VARIABLES
    actions,     \* the kinds of handlers of the experiment
    stage,
    iterations,  \* how many have been counted
    failed,      \* the Failed condition
    outcome,     \* what the Completed condition says
    handlers     \* the state of each handler

vars == <<actions, stage, iterations, failed, outcome, handlers>>

MaxIterations == IterationsPerLoop * MaxLoops

(* The start handler, the one that ends the experiment, one for each loop. *)
Start == 0
Finish == 1
Loop(k) == 1 + k

LoopJob == {Loop(k) : k \in 1..MaxLoops}

Job == {Start, Finish} \cup LoopJob

Handler ==
    {j \in Job : \/ j = Start /\ "start" \in actions
                 \/ j = Finish /\ "finish" \in actions
                 \/ j \in LoopJob /\ "loop" \in actions}

(* No handler runs and none has failed, but for those in the set S. *)
QuietBut(S) == \A j \in Handler \ S : handlers[j] \in {"absent", "complete"}

Quiet == QuietBut({})

StartIsDone == Start \in Handler => handlers[Start] = "complete"

Init ==
    /\ actions \in Strategies
    /\ stage = "New"
    /\ iterations = 0
    /\ failed = FALSE
    /\ outcome = "none"
    /\ handlers = [j \in Job |-> "absent"]

-----------------------------------------------------------------------------
(***************************************************************************)
(* Stages and iterations.                                                  *)
(***************************************************************************)
Enter(s) ==
    /\ stage' = s
    /\ UNCHANGED <<actions, iterations, failed, outcome, handlers>>

Accept == stage = "New" /\ Enter("Waiting")

Initialize == stage = "Waiting" /\ Quiet /\ Enter("Initializing")

Run == stage = "Initializing" /\ Quiet /\ StartIsDone /\ Enter("Running")

Conclude ==
    /\ stage = "Running"
    /\ Finish \in Handler
    /\ handlers[Finish] # "absent"
    /\ QuietBut({Finish})
    /\ Enter("Finishing")

(* An iteration is counted while the handlers are quiet; the last one of a *)
(* loop when the loop's handler has been started, however far it has come. *)
Iterate ==
    /\ stage = "Running"
    /\ iterations < MaxIterations
    /\ StartIsDone
    /\ handlers[Finish] = "absent"
    /\ \/ Quiet
       \/ \E k \in 1..MaxLoops : iterations + 1 = k * IterationsPerLoop /\ QuietBut({Loop(k)})
    /\ \A k \in 1..MaxLoops :
          iterations + 1 >= k * IterationsPerLoop /\ Loop(k) \in Handler
              => handlers[Loop(k)] # "absent"
    /\ iterations' = iterations + 1
    /\ UNCHANGED <<actions, stage, failed, outcome, handlers>>

(***************************************************************************)
(* Handlers.                                                               *)
(***************************************************************************)
In(s) == stage = s \/ (LateLaunches /\ stage = "Completed")

Launch(j) ==
    /\ j \in Handler
    /\ handlers[j] = "absent"
    /\ Quiet
    /\ handlers[Finish] = "absent"
    /\ handlers' = [handlers EXCEPT ![j] = "running"]
    /\ UNCHANGED <<actions, stage, iterations, failed, outcome>>

LaunchStart ==
    /\ In("Initializing")
    /\ \A j \in Job : handlers[j] = "absent"
    /\ Launch(Start)

LaunchLoop(k) ==
    /\ In("Running")
    /\ StartIsDone
    /\ \A i \in 1..k - 1 : handlers[Loop(i)] = "complete"
    /\ iterations >= k * IterationsPerLoop - 1
    /\ stage = "Running" => iterations = k * IterationsPerLoop - 1
    /\ Launch(Loop(k))

LaunchFinish ==
    /\ In("Running")
    /\ StartIsDone
    /\ Launch(Finish)

HandlerEnds(j) ==
    /\ handlers[j] = "running"
    /\ \E s \in {"complete", "failed"} : handlers' = [handlers EXCEPT ![j] = s]
    /\ UNCHANGED <<actions, stage, iterations, failed, outcome>>

(***************************************************************************)
(* The end.                                                                *)
(***************************************************************************)
End(verdict) ==
    /\ stage \notin {"New", "Completed"}
    /\ stage' = "Completed"
    /\ outcome' = verdict
    /\ UNCHANGED <<actions, handlers>>

Succeed ==
    /\ stage = "Running" /\ iterations = MaxIterations
    /\ \A j \in Handler : handlers[j] = "complete"
    /\ Finish \notin Handler
    /\ End("succeeded")
    /\ UNCHANGED <<iterations, failed>>

RollBack ==
    /\ stage = "Running" /\ iterations < MaxIterations
    /\ Quiet /\ StartIsDone
    /\ Finish \notin Handler
    /\ End("rolled back")
    /\ UNCHANGED <<iterations, failed>>

(* The finish handler, and with it the experiment, has completed. *)
Finished ==
    /\ stage \in {"Running", "Finishing"}
    /\ handlers[Finish] = "complete"
    /\ Quiet /\ StartIsDone
    /\ End("handler completed")
    /\ UNCHANGED <<iterations, failed>>

(* A handler has failed; there is no other that still runs. *)
Break ==
    /\ \E j \in Handler : handlers[j] = "failed" /\ QuietBut({j})
    /\ End("handler failed")
    /\ failed' = TRUE
    /\ UNCHANGED iterations

(* Metrics, analytics or weights fail, or the versions are not valid. *)
Fail ==
    /\ stage \in {"Initializing", "Running"}
    /\ Quiet /\ StartIsDone
    /\ End("failed")
    /\ failed' = TRUE
    /\ UNCHANGED iterations

(* The tasks of the handlers are not valid. *)
Reject ==
    /\ stage \in {"Waiting", "Initializing", "Running"}
    /\ Quiet
    /\ End("failed")
    /\ UNCHANGED <<iterations, failed>>

(* A handler cannot be started.  For that of a loop, the iteration that    *)
(* was its last one counts.                                                *)
CannotLaunch(j) ==
    /\ j \in Handler
    /\ stage \in {"Initializing", "Running"}
    /\ Quiet
    /\ stage = "Running" => StartIsDone
    /\ End("launch failed")
    /\ UNCHANGED failed
    /\ iterations' = IF j \in LoopJob THEN iterations + 1 ELSE iterations
    /\ \A k \in 1..MaxLoops : j = Loop(k) => iterations' = k * IterationsPerLoop

Next ==
    \/ Accept \/ Initialize \/ Run \/ Conclude \/ Iterate
    \/ LaunchStart \/ (\E k \in 1..MaxLoops : LaunchLoop(k)) \/ LaunchFinish
    \/ \E j \in Job : HandlerEnds(j)
    \/ Succeed \/ RollBack \/ Finished \/ Break \/ Fail \/ Reject
    \/ \E j \in Job : CannotLaunch(j)

Spec == Init /\ [][Next]_vars

-----------------------------------------------------------------------------
(* Nothing starts after a failure: a handler that runs or has failed is    *)
(* alone, every other one has completed or was not started.                *)
FailureStopsHandlers ==
    \A i, j \in Job : {handlers[i], handlers[j]} \subseteq {"running", "failed"} => i = j

(* What the outcome says is true and stays true of the handlers.           *)
OutcomeIsTrue ==
    /\ outcome \in {"succeeded", "rolled back", "handler completed"} => ~failed
    /\ outcome = "succeeded" =>
          iterations = MaxIterations /\ \A j \in Handler : handlers[j] = "complete"
    /\ outcome = "rolled back" => iterations < MaxIterations
    /\ outcome = "handler completed" =>
          handlers[Finish] = "complete" /\ \A j \in Job : handlers[j] \in {"absent", "complete"}
    /\ outcome = "handler failed" =>
          failed /\ \E j \in Handler : handlers[j] = "failed" /\ QuietBut({j})

=============================================================================
