------------------------- MODULE MCExpertScheduler -------------------------
(* Instances of ExpertScheduler for TLC. *)
EXTENDS ExpertScheduler
=============================================================================
