---------------------------- MODULE MCLifecycle ----------------------------
(***************************************************************************)
(* The life of an experiment against its contract.                         *)
(***************************************************************************)
EXTENDS ExperimentLifecycle

(***************************************************************************)
(* What the user sees of it: the stored status and the handlers' jobs.     *)
(* The controller launches from the copy of the status it has read, so     *)
(* that with stale copies a job may be created when the end of the         *)
(* experiment is already stored.                                           *)
(***************************************************************************)
Contract ==
    INSTANCE ExperimentContract
    WITH LateLaunches <- ~FreshStatus,
         stage <- store.stage, iterations <- store.iterations,
         failed <- store.failed, outcome <- store.message, handlers <- jobs

(* Whatever is stale, retried, lost or restarted on the way, every change  *)
(* of the stored status and of the jobs is one that the contract allows in *)
(* that state: the handlers start one after the other, iterations are      *)
(* counted between them, and the experiment ends as its outcome says.      *)
KeepsContract == Contract!Spec

(* No handler of an experiment starts beside another one that runs or      *)
(* after one that has failed (checkHandlersStatus before every launch,     *)
(* experiment_controller.go:117).                                          *)
FailureStopsHandlers == Contract!FailureStopsHandlers

(* What the Completed condition says of iterations and handlers was true   *)
(* when it was written and is not overtaken by a handler that comes late.  *)
OutcomeIsTrue == Contract!OutcomeIsTrue

(* Nothing is launched for an experiment that has completed                *)
(* (experiment_controller.go:110, "If experiment already completed, stop").*)
NothingStartsAfterEnd ==
    [][store.stage = "Completed" =>
          \A j \in Job : jobs[j] = "absent" => jobs'[j] = "absent"]_vars

=============================================================================
