------------------------------ MODULE MCSessions ------------------------------
EXTENDS SessionsInv, TLC
Symmetry == Permutations(Pair) \union Permutations(Req) \union Permutations(Sess)
===============================================================================
