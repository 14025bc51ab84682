------------------------------ MODULE RoleClosure ------------------------------
(***************************************************************************)
(* Expansion of a set of roles to the roles they inherit from              *)
(* (RoleInheritanceRepository.ancestor_ids, app/repositories/permission.py) *)
(*                                                                         *)
(* A recursive query collects the inheritance edges that can be reached    *)
(* upwards, then a walk with a stack and a limit on its depth collects the *)
(* ancestors.  Neither Python nor PostgreSQL fixes the order in which a    *)
(* set is gone through, so it is chosen step by step.  An edge is          *)
(* <<child, parent>>.  Permissions is not interested in the steps, only in *)
(* the result; a theorem of PermissionsProofs says that it is the same.    *)
(***************************************************************************)
EXTENDS Integers, Sequences

CONSTANTS RoleId, MaxDepth     \* MaxDepth: MAX_ROLE_INHERITANCE_DEPTH

ASSUME DepthAssumption == MaxDepth \in Nat

VARIABLES edge,       \* role_inheritances, as the one statement sees it
          start,      \* the roles to expand
          rows, work, \* result and working table of the recursive query
          todo,       \* roles to expand that are not on the stack yet
          seen,       \* ancestors found so far
          frontier,   \* stack of <<role, depth>>
          cur,        \* the pair taken from the stack
          rest,       \* its parents the inner loop has not come to yet
          pc

walking == <<edge, start, rows, work, todo, seen, frontier, cur, rest, pc>>
input == <<edge, start>>
query == <<rows, work>>

Level == RoleId \X (0..MaxDepth)

ExpansionTypes == /\ edge \subseteq RoleId \X RoleId /\ start \subseteq RoleId
                  /\ rows \subseteq edge /\ work \subseteq edge
                  /\ todo \subseteq start /\ seen \subseteq RoleId /\ rest \subseteq RoleId
                  /\ frontier \in Seq(Level) /\ cur \in Level
                  /\ pc \in {"join", "load", "pop", "visit", "done", "error"}

\* A CHECK excludes self-inheritance; the tables exclude nothing else.
Called == /\ edge \in SUBSET {e \in RoleId \X RoleId : e[1] # e[2]}
          /\ start \in (SUBSET RoleId) \ {{}}
          /\ rows = {e \in edge : e[1] \in start} /\ work = rows
          /\ todo = start /\ seen = {} /\ rest = {}
          /\ frontier = <<>> /\ cur = <<CHOOSE r \in start : TRUE, 0>>
          /\ pc = "join"

-------------------------------------------------------------------------------
\* The edges that continue those of a working table.
Upwards(w) == {e \in edge : \E f \in w : e[1] = f[2]}

\* Seeded fault: UNION ALL.
All(new, old) == new

\* UNION keeps what is not in the result yet.
Fresh(new, old) == new \ old

Join == /\ pc = "join"
        /\ LET new == Fresh(Upwards(work), rows)
           IN  rows' = rows \union new /\ work' = new
        /\ pc' = IF work = {} THEN "load" ELSE "join"
        /\ UNCHANGED <<input, todo, seen, frontier, cur, rest>>

\* The roles to expand enter the stack at depth 0.
Load == /\ pc = "load"
        /\ IF todo = {}
             THEN pc' = "pop" /\ UNCHANGED <<todo, frontier>>
             ELSE \E s \in todo : /\ todo' = todo \ {s}
                                  /\ frontier' = Append(frontier, <<s, 0>>)
                                  /\ UNCHANGED pc
        /\ UNCHANGED <<input, query, seen, cur, rest>>

-------------------------------------------------------------------------------
Parents(r) == {e[2] : e \in {x \in rows : x[1] = r}}

AtLimit(f) == f[2] >= MaxDepth

\* Seeded fault: at the limit the walk turns back without a word.
NeverTooDeep(f) == FALSE

\* At the limit, with a level to go.
TooDeep(f) == AtLimit(f) /\ Parents(f[1]) # {}

Pop == /\ pc = "pop"
       /\ IF frontier = <<>>
            THEN pc' = "done" /\ UNCHANGED <<frontier, cur, rest>>
            ELSE LET f == frontier[Len(frontier)]
                 IN  /\ frontier' = SubSeq(frontier, 1, Len(frontier) - 1)
                     /\ cur' = f
                     /\ IF AtLimit(f)
                          THEN rest' = {} /\ pc' = IF TooDeep(f) THEN "error" ELSE "pop"
                          ELSE rest' = Parents(f[1]) /\ pc' = "visit"
       /\ UNCHANGED <<input, query, todo, seen>>

NextLevel(p) == <<p, cur[2] + 1>>

\* One turn of the inner loop: a parent that is new is seen, and stacked.
Visit == /\ pc = "visit"
         /\ IF rest = {}
              THEN pc' = "pop" /\ UNCHANGED <<seen, frontier, rest>>
              ELSE \E p \in rest : /\ rest' = rest \ {p}
                                   /\ seen' = seen \union {p}
                                   /\ frontier' = IF p \in seen THEN frontier
                                                    ELSE Append(frontier, NextLevel(p))
                                   /\ UNCHANGED pc
         /\ UNCHANGED <<input, query, todo, cur>>

Step == Join \/ Load \/ Pop \/ Visit

Expansion == Called /\ [][Step]_walking

\* It is a loop of one task: it goes on until it ends.
FairExpansion == Expansion /\ WF_walking(Step)

\* What is returned: the roles to expand do not count as ancestors.
Result == seen \ start

-------------------------------------------------------------------------------
\* A set that holds the parents of the roles to expand and of its own members.
Closed(S) == \A e \in edge : e[1] \in start \union S => e[2] \in S

\* Without an error, what the walk has seen is the least such set: no ancestor
\* is missed whatever the order, and nobody gets a permission from elsewhere.
Exact == pc = "done" => /\ Closed(seen)
                        /\ \A S \in SUBSET RoleId : Closed(S) => seen \subseteq S

\* An error is no false alarm: there is a chain longer than the limit.
ErrorMeansDeep ==
    pc = "error" => \E f \in [0..MaxDepth + 1 -> RoleId] :
                        f[0] \in start /\ \A i \in 0..MaxDepth : <<f[i], f[i + 1]>> \in edge

\* The expansion ends on every table, with cycles too.
Terminates == <>(pc \in {"done", "error"})
===============================================================================
