------------------------- MODULE MCSimpleScheduler --------------------------
(* Instances of SimpleScheduler for TLC. *)
EXTENDS SimpleScheduler, TLC
=============================================================================
