---------------------------- MODULE TaskOwnership ----------------------------
(* What delegation promises: organisations take over tasks and give them      *)
(* back, and at most Limit of them hold one task at a time.  The service      *)
(* means Limit to be 1.                                                       *)
EXTENDS Naturals, FiniteSets

CONSTANTS Tasks, Orgs, Limit

VARIABLE owners  \* the organisations that hold each task

Init == owners = [t \in Tasks |-> {}]

Take(t, o) ==
    /\ Cardinality(owners[t]) < Limit
    /\ owners' = [owners EXCEPT ![t] = @ \cup {o}]

GiveBack(t, o) == owners' = [owners EXCEPT ![t] = @ \ {o}]

Next == \E t \in Tasks, o \in Orgs : Take(t, o) \/ GiveBack(t, o)

Spec == Init /\ [][Next]_owners
=============================================================================
