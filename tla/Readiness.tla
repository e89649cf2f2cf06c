------------------------------ MODULE Readiness -----------------------------
(***************************************************************************)
(* The readiness task (tasks/readiness/readiness.go): waits until the      *)
(* objects named by the task and by the experiment's versions exist and    *)
(* are as they should be, and gives up after some attempts.                *)
(***************************************************************************)
EXTENDS Integers, Sequences, SequencesExt

CONSTANTS
    Object,      \* what a task may refer to
    MaxRefs,     \* bound on the references of a task, each to another object
    NumRetries   \* attempts after the first

VARIABLES
    refs,        \* ObjRefs, those of the versions included
    ready,       \* the objects that are there and meet their conditions
    i,           \* the attempt, from 0
    objIndex,    \* the code's count of objects found to be good
    err,         \* a check has failed
    found,       \* the references checked and found to be good so far
    pc

vars == <<refs, ready, i, objIndex, err, found, pc>>

Init ==
    /\ refs \in {s \in BoundedSeq(Object, MaxRefs) : IsInjective(s)}
    /\ ready \in SUBSET Object
    /\ i = 0
    /\ objIndex = 0
    /\ err = FALSE
    /\ found = {}
    /\ pc = "attempt"

(* Objects appear and become ready, or go away, while the task runs. *)
ObjectChanges ==
    /\ pc # "returned"
    /\ \E o \in Object : ready' = IF o \in ready THEN ready \ {o} ELSE ready \cup {o}
    /\ UNCHANGED <<refs, i, objIndex, err, found, pc>>

(* The inner loop, left after the first failure. *)
MoreToCheck == ~err /\ objIndex < Len(refs)

(* The reference that is checked is that of the attempt (line 184), not of *)
(* objIndex.                                                               *)
Checked == i + 1

Check ==
    /\ pc = "attempt"
    /\ MoreToCheck
    /\ IF refs[Checked] \in ready
         THEN /\ objIndex' = objIndex + 1
              /\ found' = found \cup {Checked}
              /\ UNCHANGED err
         ELSE /\ err' = TRUE
              /\ UNCHANGED <<objIndex, found>>
    /\ UNCHANGED <<refs, ready, i, pc>>

(* The outer loop ends with the last attempt or when all is good.          *)
Finished == i = NumRetries \/ objIndex = Len(refs)

Return ==
    /\ pc = "attempt"
    /\ ~MoreToCheck
    /\ Finished
    /\ pc' = "returned"
    /\ UNCHANGED <<refs, ready, i, objIndex, err, found>>

(* The next attempt; err is not cleared. *)
TryAgain ==
    /\ pc = "attempt"
    /\ ~MoreToCheck
    /\ ~Finished
    /\ i' = i + 1
    /\ UNCHANGED <<refs, ready, objIndex, err, found, pc>>

Next == ObjectChanges \/ Check \/ Return \/ TryAgain

Spec == Init /\ [][Next]_vars

-----------------------------------------------------------------------------
(* "invariant: objIndex is the number of objects that have been checked    *)
(* and found to be good" (readiness.go:176), which is what the task's      *)
(* success rests on.                                                       *)
ObjIndexCountsGood == objIndex = Cardinality(found)

=============================================================================
