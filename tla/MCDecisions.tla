----------------------------- MODULE MCDecisions -----------------------------
(* Small instances of Decisions for TLC.  They check liveness, for which no *)
(* symmetry is sound.                                                       *)
EXTENDS Decisions
=============================================================================
