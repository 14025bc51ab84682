------------------------------- MODULE MCCrud -------------------------------
EXTENDS Crud
Symmetry == Permutations(Request) \cup Permutations(Key) \cup Permutations(Note)
=============================================================================
