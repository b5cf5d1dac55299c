----------------------------- MODULE MCCommands -----------------------------
EXTENDS Commands, TLC

CONSTANTS p1, w1, w2

\* Requests of the same role are interchangeable.
Symmetry == Permutations(Players) \cup Permutations(Wizards)
=============================================================================
