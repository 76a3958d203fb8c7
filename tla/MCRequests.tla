----------------------------- MODULE MCRequests -----------------------------
(* A small instance of Requests for TLC. *)
EXTENDS Requests, TLC

Symmetry == Permutations(Ids) \union Permutations(Handlers)
==============================================================================
