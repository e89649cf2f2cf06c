--------------------------- MODULE CollectResults ---------------------------
(***************************************************************************)
(* How the collect task adds what it has measured to the results of        *)
(* earlier iterations (aggregate in tasks/collect/collect.go).             *)
(* Definitions only.  A result has the number, the sum and the maximum of  *)
(* the durations, the buckets of their histogram, and how often each       *)
(* return code was seen; results are kept by version.                      *)
(***************************************************************************)
EXTENDS Integers, Sequences, SequencesExt, FiniteSetsExt

Result(Code) ==
    [count : Nat, sum : Nat, max : Nat, data : Seq(Nat),
     codes : UNION {[C -> Nat] : C \in SUBSET Code}]

NoResults == [v \in {} |-> 0]

Get(codes, code) == IF code \in DOMAIN codes THEN codes[code] ELSE 0

(* Mutant of Joined: only codes that are known already are added.          *)
JoinedKnown(old, new) ==
    [count |-> old.count + new.count, sum |-> old.sum + new.sum, max |-> Max({old.max, new.max}),
     data |-> old.data \o new.data,
     codes |-> [c \in DOMAIN old.codes |-> old.codes[c] + Get(new.codes, c)]]

Joined(old, new) ==
    [count |-> old.count + new.count, sum |-> old.sum + new.sum, max |-> Max({old.max, new.max}),
     data |-> old.data \o new.data,
     codes |-> [c \in DOMAIN old.codes \cup DOMAIN new.codes |->
                  Get(old.codes, c) + Get(new.codes, c)]]

aggregate(oldResults, version, newResult) ==
    [v \in DOMAIN oldResults \cup {version} |->
        IF v # version THEN oldResults[v]
        ELSE IF v \in DOMAIN oldResults THEN Joined(oldResults[v], newResult) ELSE newResult]

(* The versions of a task are measured in their order: the results after   *)
(* the first n of them, for each n.                                        *)
Totals(oldResults, measurements) ==
    LET totals[n \in 0..Len(measurements)] ==
            IF n = 0 THEN oldResults
            ELSE aggregate(totals[n - 1], measurements[n].version, measurements[n].result)
    IN  totals

Measured(oldResults, measurements) == Totals(oldResults, measurements)[Len(measurements)]

=============================================================================
