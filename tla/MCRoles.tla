------------------------------- MODULE MCRoles -------------------------------
EXTENDS Roles, TLC
Symmetry == Permutations(Req) \union Permutations(User) \union Permutations(Role \ {Super})
==============================================================================
