------------------------------- MODULE MCStory -------------------------------
EXTENDS Story, TLC

Symmetry == Permutations(Wording)
=============================================================================
