-------------------------- MODULE MCCoroScheduler ---------------------------
(* Instances of CoroScheduler for TLC. *)
EXTENDS CoroScheduler
=============================================================================
