---------------------------- MODULE MCTargetLock ----------------------------
(***************************************************************************)
(* Instances of TargetLock for TLC.                                        *)
(***************************************************************************)
EXTENDS TargetLock, TLC

CONSTANTS e1, e2, e3, t1

(* Everyone wants the same target. *)
OneTarget == [e \in Experiment |-> t1]

Names == Permutations(Experiment)

(***************************************************************************)
(* The protocol implements the ticket lock: a contender has joined with    *)
(* its InitTime as the ticket, an owner holds, everyone else is out.       *)
(***************************************************************************)
Mode(o) ==
    CASE o.phase = "waiting" -> "waiting"
      [] o.phase = "owner" -> "holding"
      [] OTHER -> "out"

Turns ==
    INSTANCE TicketLock
    WITH Client <- Experiment, Resource <- Target, ResourceOf <- TargetOf,
         Ticket <- 1..MaxTime,
         mode <- [e \in Experiment |-> Mode(store[e])],
         ticket <- [e \in Experiment |-> store[e].init]

(* Every step of the controller on the stored experiments is a turn taken  *)
(* as the ticket lock allows, or changes nothing the lock is about.        *)
TakesTurns == Turns!Spec

=============================================================================
