---------------------------- MODULE MCExperiments ----------------------------
EXTENDS Experiments, TLC

(* Experiments, events and updates are interchangeable. *)
Symmetry ==
  Permutations(Experiment) \cup Permutations(Event) \cup Permutations(Worker)
=============================================================================
