-------------------------------- MODULE Roles --------------------------------
(***************************************************************************)
(* Administration of roles, of their inheritance and of the roles that     *)
(* users hold (app/services/role.py, role_inheritance.py, user.py and      *)
(* authorization.py).                                                      *)
(*                                                                         *)
(* A request checks the rules on what is committed, one statement at a     *)
(* time (READ COMMITTED), collects its writes (txn) and publishes them     *)
(* with Commit.  A statement that touches a row another transaction has    *)
(* touched waits for it.  Every change of permissions ends with            *)
(* bump(), an UPDATE of one row that is locked until the commit.           *)
(*                                                                         *)
(* Requests that change nothing are left out, as are the rights of the     *)
(* operator, who is a SUPER_ADMIN here, and the creation of roles and      *)
(* users, which are there from the start.  The expansion that the check    *)
(* for cycles uses is the module RoleClosure.                              *)
(***************************************************************************)
EXTENDS Integers, FiniteSets

CONSTANTS Role, Super,     \* Super: the role whose code is SUPER_ADMIN
          User, Req, None,
          MaxVersion       \* bound on the changes of permissions

ASSUME RoleAssumption == Super \in Role /\ None \notin Req /\ MaxVersion \in Nat

VARIABLES role, user,   \* status and deleted_at of the rows in roles and admin_users
          edge,         \* role_inheritances, as <<child, parent>>
          holds,        \* user_roles
          version,      \* permission_versions
          lock,         \* the request that has the version row locked
          job, txn

vars   == <<role, user, edge, holds, version, lock, job, txn>>
tables == <<role, user, edge, holds, version>>

Row   == [status : {"ACTIVE", "DISABLED"}, deleted : BOOLEAN]
Edge  == Role \X Role
Held  == User \X Role
Op    == {"none", "grant", "revoke", "delRole", "roleStatus", "assign", "userStatus", "delUser"}
PC    == {"idle", "check", "holders", "refs", "before", "who", "count", "write", "bump", "chain",
          "commit"}

NoWrite == [role |-> <<>>, user |-> <<>>, add |-> {}, del |-> {}, give |-> {}, take |-> {}]
Blank   == [op |-> "none", pc |-> "idle", role |-> None, parent |-> None, user |-> None,
            roles |-> {}, new |-> <<>>, exists |-> FALSE, stale |-> FALSE]

\* The writes change what somebody is permitted to do.
Permits(w) == w.role # <<>> \/ w.add \union w.del \union w.give \union w.take # {}

\* Types; and whoever is about to commit a change of permissions has the
\* version row locked.
TypeOK == /\ role \in [Role -> Row] /\ user \in [User -> Row]
          /\ edge \subseteq Edge /\ holds \subseteq Held
          /\ version \in Nat /\ lock \in Req \union {None}
          /\ \A r \in Req : /\ job[r].op \in Op /\ job[r].pc \in PC
                            /\ job[r].pc \in {"chain", "commit"} /\ Permits(txn[r]) => lock = r

RolesOf(u)   == {x \in Role : <<u, x>> \in holds}
Holders(x)   == {u \in User : <<u, x>> \in holds}

\* A system in which every user is a SUPER_ADMIN and, to have longer chains
\* within the bound, one inheritance may have been granted before.
Init == /\ role = [x \in Role |-> [status |-> "ACTIVE", deleted |-> FALSE]]
        /\ user = [u \in User |-> [status |-> "ACTIVE", deleted |-> FALSE]]
        /\ edge \in {{}} \union {{e} : e \in {e \in Edge : e[1] # e[2]}}
        /\ holds = User \X {Super}
        /\ version = 0 /\ lock = None
        /\ job = [r \in Req |-> Blank] /\ txn = [r \in Req |-> NoWrite]

-------------------------------------------------------------------------------
At(r, l) == job[r].pc = l

Unlock(r) == lock' = IF lock = r THEN None ELSE lock

\* count_super_admins counts the former; only the latter can log in.
Admins == {u \in Holders(Super) : ~user[u].deleted /\ ~role[Super].deleted}
Usable == {u \in Admins : user[u].status = "ACTIVE"}

\* A request comes from a SUPER_ADMIN who is logged in, possibly about itself.
Begin(r, j) == /\ At(r, "idle")
               /\ Usable # {}
               /\ version + Cardinality({q \in Req : job[q].pc # "idle"}) < MaxVersion
               /\ job' = [job EXCEPT ![r] = j]
               /\ UNCHANGED <<tables, lock, txn>>

Goto(r, l) == /\ job' = [job EXCEPT ![r].pc = l]
              /\ UNCHANGED <<tables, lock, txn>>

\* An exception makes get_db roll the transaction back.
Raise(r) == /\ job' = [job EXCEPT ![r] = Blank]
            /\ txn' = [txn EXCEPT ![r] = NoWrite]
            /\ Unlock(r)
            /\ UNCHANGED tables

Require(r, ok, l) == IF ok THEN Goto(r, l) ELSE Raise(r)

\* The statement waits while another transaction has touched the same rows.
Untouched(r, w) ==
    \A q \in Req \ {r} : /\ (txn[q].add \union txn[q].del) \intersect (w.add \union w.del) = {}
                         /\ (txn[q].give \union txn[q].take) \intersect (w.give \union w.take) = {}
                         /\ w.role = <<>> \/ txn[q].role = <<>> \/ job[q].role # job[r].role
                         /\ w.user = <<>> \/ txn[q].user = <<>> \/ job[q].user # job[r].user

Write(r, ok, w, l) == /\ Untouched(r, w)
                      /\ IF ok THEN /\ txn' = [txn EXCEPT ![r] = w]
                                    /\ job' = [job EXCEPT ![r].pc = l]
                                    /\ UNCHANGED <<tables, lock>>
                               ELSE Raise(r)

-------------------------------------------------------------------------------
\* "child inherits parent" is granted and revoked.
BeginGrant(r, c, p) ==
    /\ c # p /\ ~role[c].deleted /\ ~role[p].deleted
    /\ Begin(r, [Blank EXCEPT !.op = "grant", !.pc = "check", !.role = c, !.parent = p,
                              !.exists = <<c, p>> \in edge])

\* All roles that x inherits from (what RoleClosure shows the expansion to be).
Ancestors(x) == {a \in Role : \A S \in SUBSET Role :
                    ({e[2] : e \in {e \in edge : e[1] \in S \union {x}}} \subseteq S) => a \in S}

\* Seeded fault: the direction is mixed up.
ClosesBackwards(c, p) == p \in Ancestors(c)

\* The edge from c to p would close a cycle.
Closes(c, p) == c \in Ancestors(p)

CheckGrant(r) == /\ At(r, "check")
                 /\ LET j == job[r]
                    IN  Require(r, ~Closes(j.role, j.parent),
                                IF j.exists THEN "chain" ELSE "write")

\* Inserting a row that has appeared meanwhile violates the primary key.
InsertEdge(r) == /\ At(r, "write") /\ job[r].op = "grant"
                 /\ LET e == <<job[r].role, job[r].parent>>
                    IN  Write(r, e \notin edge, [NoWrite EXCEPT !.add = {e}], "bump")

BeginRevoke(r, c, p) ==
    /\ c # p /\ ~role[c].deleted /\ ~role[p].deleted
    /\ Begin(r, [Blank EXCEPT !.op = "revoke", !.pc = "write", !.role = c, !.parent = p])

DeleteEdge(r) == /\ At(r, "write") /\ job[r].op = "revoke"
                 /\ LET e == <<job[r].role, job[r].parent>>
                    IN  Write(r, e \in edge, [NoWrite EXCEPT !.del = {e} \intersect edge], "bump")

\* list_chain reads the child again for the answer.
ListChain(r) == /\ At(r, "chain")
                /\ Require(r, ~role[job[r].role].deleted, "commit")

-------------------------------------------------------------------------------
\* What the ORM writes: the columns whose value differs from the row as read.
Changed(old, new) == [c \in {c \in DOMAIN new : new[c] # old[c]} |-> new[c]]

\* A role is deleted, enabled or disabled.
BeginDeleteRole(r, x) ==
    /\ ~role[x].deleted
    /\ Begin(r, [Blank EXCEPT !.op = "delRole", !.pc = "holders", !.role = x,
                              !.new = Changed(role[x], [status |-> "DISABLED", deleted |-> TRUE])])

NotHeld(x) == Holders(x) = {}

CountHolders(r) == At(r, "holders") /\ Require(r, NotHeld(job[r].role), "refs")

NotReferenced(x) == \A e \in edge : x \notin {e[1], e[2]}

CountReferences(r) == At(r, "refs") /\ Require(r, NotReferenced(job[r].role), "write")

UpdateRole(r, x, s) ==
    /\ ~role[x].deleted /\ role[x].status # s
    /\ Begin(r, [Blank EXCEPT !.op = "roleStatus", !.pc = "write", !.role = x,
                              !.new = [status |-> s]])

WriteRole(r) == /\ At(r, "write") /\ job[r].op \in {"delRole", "roleStatus"}
                /\ Write(r, TRUE, [NoWrite EXCEPT !.role = job[r].new], "bump")

-------------------------------------------------------------------------------
\* The roles of a user are replaced as a whole.
BeginAssign(r, u, S) ==
    /\ ~user[u].deleted
    /\ \A x \in S : ~role[x].deleted
    /\ Begin(r, [Blank EXCEPT !.op = "assign", !.pc = "before", !.user = u, !.roles = S])

ReadBefore(r) == /\ At(r, "before")
                 /\ job' = [job EXCEPT ![r].pc = "write", ![r].new = RolesOf(job[r].user)]
                 /\ UNCHANGED <<tables, lock, txn>>

\* Seeded fault: roles are added and none is taken away.
Nothing(before, S) == {}

ToRemove(before, S) == before \ S

ReplaceRoles(r) ==
    /\ At(r, "write") /\ job[r].op = "assign"
    /\ LET j    == job[r]
           add  == {j.user} \X (j.roles \ j.new)
           take == {j.user} \X ToRemove(j.new, j.roles)
       IN  Write(r, add \intersect holds = {},
                 [NoWrite EXCEPT !.give = add, !.take = take], "bump")

Free(l) == l = None

\* bump: the version row is locked to the end of the transaction.
Bump(r) == /\ At(r, "bump")
           /\ Free(lock)
           /\ lock' = r
           /\ job' = [job EXCEPT ![r].pc = IF job[r].op \in {"grant", "revoke"}
                                             THEN "chain" ELSE "commit"]
           /\ UNCHANGED <<tables, txn>>

-------------------------------------------------------------------------------
\* A user is disabled, enabled or deleted.
IsAdmin(u) == <<u, Super>> \in holds /\ ~role[Super].deleted

BeginUserStatus(r, u, s) ==
    /\ ~user[u].deleted /\ user[u].status # s
    /\ Begin(r, [Blank EXCEPT !.op = "userStatus", !.user = u, !.new = [status |-> s],
                              !.pc = IF s = "DISABLED" THEN "who" ELSE "write"])

BeginDeleteUser(r, u) ==
    /\ ~user[u].deleted
    /\ Begin(r, [Blank EXCEPT !.op = "delUser", !.pc = "who", !.user = u,
                              !.new = Changed(user[u], [status |-> "DISABLED", deleted |-> TRUE])])

\* Seeded fault: the user who goes is not counted out.
SomeAdmin(n) == n >= 1

\* assert_not_last_super_admin
NotTheLast(n) == n > 1

AskAdmin(r) == /\ At(r, "who")
               /\ Goto(r, IF IsAdmin(job[r].user) THEN "count" ELSE "write")

CountAdmins(r) == At(r, "count") /\ Require(r, NotTheLast(Cardinality(Admins)), "write")

WriteUser(r) == /\ At(r, "write") /\ job[r].op \in {"userStatus", "delUser"}
                /\ Write(r, TRUE, [NoWrite EXCEPT !.user = job[r].new], "commit")

-------------------------------------------------------------------------------
\* The columns of an UPDATE replace those of the row.
Set(row, cols) == [c \in DOMAIN row |-> IF c \in DOMAIN cols THEN cols[c] ELSE row[c]]

\* Seeded fault: the version is what it was when the request began.
Kept(r) == version

\* The version after a request: one more if it has bumped it.
Bumped(r) == version + (IF lock = r THEN 1 ELSE 0)

\* stale: somebody has committed since the request began.
Commit(r) ==
    /\ At(r, "commit")
    /\ LET w == txn[r]
       IN  /\ role'  = [x \in Role |-> IF x = job[r].role THEN Set(role[x], w.role) ELSE role[x]]
           /\ user'  = [u \in User |-> IF u = job[r].user THEN Set(user[u], w.user) ELSE user[u]]
           /\ edge'  = (edge \ w.del) \union w.add
           /\ holds' = (holds \ w.take) \union w.give
    /\ version' = Bumped(r)
    /\ Unlock(r)
    /\ job' = [q \in Req |-> IF q = r \/ At(q, "idle") THEN Blank
                               ELSE [job[q] EXCEPT !.stale = TRUE]]
    /\ txn' = [txn EXCEPT ![r] = NoWrite]

Next == \E r \in Req :
    \/ \E c, p \in Role : BeginGrant(r, c, p) \/ BeginRevoke(r, c, p)
    \/ CheckGrant(r) \/ InsertEdge(r) \/ DeleteEdge(r) \/ ListChain(r)
    \/ \E x \in Role : \/ BeginDeleteRole(r, x)
                       \/ \E s \in {"ACTIVE", "DISABLED"} : UpdateRole(r, x, s)
    \/ CountHolders(r) \/ CountReferences(r) \/ WriteRole(r)
    \/ \E u \in User : \/ \E S \in SUBSET Role : BeginAssign(r, u, S)
                       \/ \E s \in {"ACTIVE", "DISABLED"} : BeginUserStatus(r, u, s)
                       \/ BeginDeleteUser(r, u)
    \/ ReadBefore(r) \/ ReplaceRoles(r) \/ Bump(r) \/ AskAdmin(r) \/ CountAdmins(r) \/ WriteUser(r)
    \/ Commit(r)

Spec == Init /\ [][Next]_vars

-------------------------------------------------------------------------------
\* No role inherits from itself (the check of grant).
Acyclic == \A x \in Role : x \notin Ancestors(x)

\* What is held or takes part in the inheritance has not been deleted.
Referential == /\ \A e \in edge : ~role[e[1]].deleted /\ ~role[e[2]].deleted
               /\ \A h \in holds : ~role[h[2]].deleted

\* The request commits in this step, and nobody else has since it began.
CommitsAlone(r) == At(r, "commit") /\ ~At(r, "commit")' /\ ~job[r].stale

\* A request that overlaps with no other commit leaves the inheritance without
\* a cycle and what is referred to undeleted: the checks of grant, delete and
\* assign are enough when they are not outdated.
ChecksSuffice == [][\A r \in Req : CommitsAlone(r) =>
                      (Acyclic => Acyclic') /\ (Referential => Referential')]_vars

\* Every committed change of permissions has a version of its own, whatever
\* requests overlap: the lock on the version row is held to the commit.
VersionMoves == [][<<edge, holds, role>> # <<edge, holds, role>>' => version' = version + 1]_vars

\* Disabling or deleting does not take the last undeleted SUPER_ADMIN away,
\* unless another request has committed in between.
LastAdminStays == [][\A r \in Req : CommitsAlone(r) /\ holds' = holds =>
                       (Admins # {} => Admins' # {})]_vars

\* After an undisturbed assignment the user holds the given roles and no other.
ReplaceIsWhole == [][\A r \in Req, u \in User :
                       CommitsAlone(r) /\ job[r].op = "assign" /\ job[r].user = u =>
                         RolesOf(u)' = job[r].roles]_vars
-------------------------------------------------------------------------------
\* A promise of the comments that the code does not keep.

\* "At least one usable SUPER_ADMIN has to remain" when one is disabled or deleted.
UsableAdminStays == [][\A r \in Req : CommitsAlone(r) /\ holds' = holds =>
                         (Usable # {} => Usable' # {})]_vars
==============================================================================
