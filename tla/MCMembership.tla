---------------------------- MODULE MCMembership ----------------------------
EXTENDS Membership, TLC

(* Users, projects and workers are interchangeable. *)
Symmetry == Permutations(User) \cup Permutations(Project) \cup Permutations(Worker)
=============================================================================
