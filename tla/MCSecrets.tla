------------------------------ MODULE MCSecrets ------------------------------
(* A small instance of Secrets for TLC. *)
EXTENDS Secrets, TLC

Symmetry == Permutations(Keys) \union Permutations(Reqs)
==============================================================================
