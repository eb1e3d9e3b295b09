------------------------------- MODULE MCSchema -------------------------------
EXTENDS Schema, TLC

(* Rows and texts are interchangeable. *)
Symmetry == Permutations(Id) \cup Permutations(Text)
===============================================================================
