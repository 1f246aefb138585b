------------------------------- MODULE MCTid --------------------------------
(* Instances of Tid for TLC. *)
EXTENDS Tid, TLC
=============================================================================
