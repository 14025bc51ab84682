---------------------------- MODULE MCOrganization ----------------------------
EXTENDS Organization, TLC
CONSTANTS top, mid, low, m, n, op, other
MCHeld == [u \in User |-> IF u = op THEN Role ELSE {}]
Parents1 == top :> None @@ mid :> top @@ low :> mid
Parents2 == top :> None @@ mid :> None
MCTrees == {Parents1, Parents2}
MCHomes == {op :> mid @@ other :> low, op :> None}
MCScopes == {[kind |-> k, rows |-> {}] : k \in {"ALL", "DEPARTMENT", "DEPARTMENT_CHILDREN", "SELF"}}
              \union {[kind |-> "CUSTOM", rows |-> {top}]}
Symmetry == Permutations(Req) \union Permutations(Role)
==============================================================================
