------------------------- MODULE MCThreadScheduler --------------------------
(* Instances of ThreadScheduler for TLC. *)
EXTENDS ThreadScheduler
=============================================================================
