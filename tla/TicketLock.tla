----------------------------- MODULE TicketLock -----------------------------
(***************************************************************************)
(* What taking turns on a target promises, without caches, events or       *)
(* triggers: a client takes a ticket no smaller than those given before;   *)
(* a resource has at most one holder; it goes to a client that no other    *)
(* client waiting for it precedes.                                         *)
(***************************************************************************)
EXTENDS Naturals

CONSTANTS
    Client,
    Resource,
    ResourceOf,   \* the resource of each client
    Ticket        \* a set of numbers

VARIABLES mode, ticket

vars == <<mode, ticket>>

Competitors(c) == {d \in Client \ {c} : ResourceOf[d] = ResourceOf[c] /\ mode[d] # "out"}

Init ==
    /\ mode = [c \in Client |-> "out"]
    /\ ticket \in [Client -> {0}]

Join(c, t) ==
    /\ mode[c] = "out"
    /\ \A d \in Client : ticket[d] <= t
    /\ mode' = [mode EXCEPT ![c] = "waiting"]
    /\ ticket' = [ticket EXCEPT ![c] = t]

Acquire(c) ==
    /\ mode[c] = "waiting"
    /\ \A d \in Competitors(c) : mode[d] = "waiting" /\ ticket[c] <= ticket[d]
    /\ mode' = [mode EXCEPT ![c] = "holding"]
    /\ UNCHANGED ticket

Leave(c) ==
    /\ mode[c] # "out"
    /\ mode' = [mode EXCEPT ![c] = "out"]
    /\ UNCHANGED ticket

Next ==
    \E c \in Client :
        \/ \E t \in Ticket : Join(c, t)
        \/ Acquire(c)
        \/ Leave(c)

Spec == Init /\ [][Next]_vars

=============================================================================
