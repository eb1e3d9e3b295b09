----------------------------- MODULE MCAccounts -----------------------------
EXTENDS Accounts, TLC

(* Accounts, tokens and workers are interchangeable. *)
Symmetry == Permutations(User) \cup Permutations(Token) \cup Permutations(Worker)
=============================================================================
