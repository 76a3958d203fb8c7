---------------------------- MODULE MCReceiptPages ----------------------------
(***************************************************************************)
(* The instance of ReceiptPages for TLC.  The temporal property is checked *)
(* with it, so that no symmetry is used.                                   *)
(***************************************************************************)
EXTENDS ReceiptPages
==============================================================================
