--------------------------------- MODULE Calls ---------------------------------
(***************************************************************************)
(* What the services have in common: calls in flight.  A handler runs      *)
(* without interruption from one await to the next; each database          *)
(* statement is a step, and between two steps of a handler any other may   *)
(* run.  A call remembers what it read.  It is "alone" while no other call *)
(* has written anything since it began: what it read is then still so,     *)
(* unless it wrote it itself.                                              *)
(***************************************************************************)
EXTENDS Naturals, FiniteSets

CONSTANTS
    Users,          \* everybody with an account
    Admins,         \* SystemRole.ADMIN
    Handlers,       \* how many calls can be in flight at once
    MaxOverlaps     \* how often a call starts beside another one

ASSUME CallsAssumption == Admins \subseteq Users /\ MaxOverlaps \in Nat

VARIABLES
    call,       \* what each handler remembers between two steps
    overlaps    \* counts the calls that started beside another one

flight == <<call, overlaps>>

Idle == [op |-> "idle"]

InFlight(h) == call[h] # Idle
At(h, s) == InFlight(h) /\ call[h].step = s

CallsInit ==
    /\ call = [h \in Handlers |-> Idle]
    /\ overlaps = 0

\* A call starts: beside another one only so many times.
Overlaps ==
    IF \E h \in Handlers : InFlight(h)
    THEN overlaps < MaxOverlaps /\ overlaps' = overlaps + 1
    ELSE overlaps' = overlaps

Begin(h, c) ==
    /\ ~InFlight(h)
    /\ call' = [call EXCEPT ![h] = c]
    /\ Overlaps

\* A step that writes nothing.
Becomes(h, c) ==
    /\ call' = [call EXCEPT ![h] = c]
    /\ UNCHANGED overlaps

Disturbed(g) == IF InFlight(g) THEN [call[g] EXCEPT !.alone = FALSE] ELSE Idle

\* A step that writes: nobody else is alone any more.
WritesAndBecomes(h, c) ==
    /\ call' = [g \in Handlers |-> IF g = h THEN c ELSE Disturbed(g)]
    /\ UNCHANGED overlaps

\* A call of one statement, which writes.
Disturbs ==
    /\ call' = [g \in Handlers |-> Disturbed(g)]
    /\ Overlaps

=============================================================================
