------------------------------- MODULE MCFiles -------------------------------
(* A small instance of Files for TLC. *)
EXTENDS Files
==============================================================================
