--------------------------- MODULE MCClientLifecycle ---------------------------
(* An instance of ClientLifecycle for TLC: two calls, on threads, by tasks or one *)
(* of each, on two backends, that overlap or follow each other, with a deadline   *)
(* that may cut any attempt.                                                      *)
EXTENDS ClientLifecycle, TLC

CONSTANTS c1, c2

Symmetry == Permutations(Calls)
=============================================================================
