--------------------------- MODULE MCRequestLifecycle ---------------------------
(***************************************************************************)
(* The request of RequestLifecycle with two calls in flight and two        *)
(* additions.  No property of it tells one handler from another, or one    *)
(* addition.                                                               *)
(***************************************************************************)
EXTENDS RequestLifecycle, TLC

MCSymmetry == Permutations(Handlers) \cup Permutations(Additions)

=============================================================================
