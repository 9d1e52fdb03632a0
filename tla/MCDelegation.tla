---------------------------- MODULE MCDelegation ----------------------------
(* Finite instances of Delegation for TLC. *)
EXTENDS Delegation, TLC

Symmetric == Permutations(Orgs) \cup Permutations(Handlers)
=============================================================================
