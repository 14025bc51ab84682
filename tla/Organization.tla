----------------------------- MODULE Organization -----------------------------
(***************************************************************************)
(* Departments, who works where, and the data scopes that decide who may   *)
(* see and change what (app/services/department.py, user.py, data_scope.py,*)
(* role_data_scope.py, app/core/scope.py, repositories/scope_filters.py).  *)
(*                                                                         *)
(* A request remembers how its operator was authenticated, resolves his    *)
(* scope from the tree, loads the target into a copy, checks, writes (txn) *)
(* and commits; each is a statement of its own at READ COMMITTED, and      *)
(* nothing locks the tree.  Which roles a user holds does not change here  *)
(* (the module Roles); codes, names, passwords and the permission for an   *)
(* operation are left out.                                                 *)
(***************************************************************************)
EXTENDS Integers, FiniteSets

CONSTANTS Dept, User, Role,
          Held,            \* Held[u]: the ACTIVE roles of u
          Trees,           \* trees there may be at first: the parents of those there are
          Homes,           \* and where people may belong
          Scopes,          \* the scopes that roles have at first and are given
          Req, None,
          MaxRequests      \* bound on the requests of a behaviour

Kind == {"ALL", "DEPARTMENT", "DEPARTMENT_CHILDREN", "SELF", "CUSTOM"}

\* Only CUSTOM comes with departments (_assert_scope_arguments).
ASSUME OrganizationAssumption ==
    /\ Held \in [User -> SUBSET Role] /\ None \notin Dept \union Req
    /\ \A t \in Trees : \E S \in SUBSET Dept : t \in [S -> S \union {None}]
    /\ \A h \in Homes : \E S \in SUBSET User : h \in [S -> Dept \union {None}]
    /\ Scopes \subseteq [kind : Kind, rows : SUBSET Dept] /\ Scopes # {}
    /\ \A s \in Scopes : s.kind # "CUSTOM" => s.rows = {}
    /\ MaxRequests \in Nat /\ IsFiniteSet(Dept)

VARIABLES dept,      \* departments
          user,      \* admin_users: deleted_at, department_id
          kind,      \* roles.data_scope
          custom,    \* role_custom_scope_departments
          version, begun, job, txn

tables == <<dept, user, kind, custom>>
vars   == <<tables, version, begun, job, txn>>

Row    == [state : {"absent", "ACTIVE", "DISABLED"}, deleted : BOOLEAN,
           parent : Dept \union {None}]
Person == [state : {"absent", "there"}, home : Dept \union {None}]
Scope  == [all : BOOLEAN, depts : SUBSET Dept, only : BOOLEAN, plus : BOOLEAN]

NoWrite == [dept |-> <<>>, user |-> <<>>, kind |-> <<>>, add |-> {}, del |-> {}]
NoScope == [all |-> FALSE, depts |-> {}, only |-> FALSE, plus |-> FALSE]
Blank   == [op |-> "none", pc |-> "idle", by |-> None, x |-> None, to |-> None,
            home |-> None, kinds |-> <<>>, sc |-> NoScope, copy |-> <<>>, stale |-> FALSE]

Op == {"none", "createDept", "moveDept", "disableDept", "deleteDept",
       "createUser", "moveUser", "setScope"}
PC == {"idle", "resolve", "load", "parent", "subtree", "children", "users", "home",
       "role", "exist", "rows", "write", "bump", "commit"}

\* Types; and two requests are never between bump and commit at once.
TypeOK == /\ dept \in [Dept -> Row] /\ user \in [User -> Person]
          /\ kind \in [Role -> Kind] /\ custom \subseteq Role \X Dept
          /\ version \in 0..MaxRequests /\ begun \in 0..MaxRequests
          /\ \A r \in Req : job[r].op \in Op /\ job[r].pc \in PC /\ job[r].sc \in Scope
          /\ \A q, r \in Req : q # r => ~(\A i \in {q, r} : /\ job[i].op = "setScope"
                                                           /\ job[i].pc = "commit")

-------------------------------------------------------------------------------
Live(d)   == dept[d].state # "absent" /\ ~dept[d].deleted
Exists(d) == d \in Dept /\ Live(d)
There(u)  == user[u].state = "there"

Children(S) == {x \in Dept : Live(x) /\ dept[x].parent \in S}

\* descendant_ids: d and everything live below it, the least set that the
\* recursive query reaches; UNION stops at a cycle.
Below(d) == LET closed == {S \in SUBSET Dept : /\ Exists(d) => d \in S
                                               /\ Children(S) \subseteq S}
            IN  {x \in Dept : \A S \in closed : x \in S}

\* The scope of one role of a user who belongs to h.
ScopeOf(k, rows, h) ==
    [all   |-> k = "ALL",
     depts |-> CASE k = "DEPARTMENT"          -> {h} \ {None}
                 [] k = "DEPARTMENT_CHILDREN" -> Below(h)
                 [] k = "CUSTOM"              -> rows
                 [] OTHER                     -> {},
     only  |-> k = "SELF",
     plus  |-> k = "SELF"]

\* Seeded fault: one SELF role narrows the others to the user himself.
AnySelf(S) == \E s \in S : s.only

AllSelf(S) == \A s \in S : s.only

Merge(S) ==
    IF \E s \in S : s.all THEN [NoScope EXCEPT !.all = TRUE]
    ELSE [all |-> FALSE, depts |-> UNION {s.depts : s \in S},
          only |-> AllSelf(S), plus |-> \E s \in S : s.only]

RowsOf(c) == {d \in Dept : <<c, d>> \in custom}

\* A user without a role falls back to SELF.
Resolve(kinds, h) ==
    Merge(IF kinds = <<>> THEN {ScopeOf("SELF", {}, h)}
          ELSE {ScopeOf(kinds[c], RowsOf(c), h) : c \in DOMAIN kinds})

KindsOf(u)  == [c \in Held[u] |-> kind[c]]
Resolved(u) == Resolve(KindsOf(u), user[u].home)

AllowsDept(s, d) == s.all \/ d \in s.depts

AllowsUser(s, by, v) ==
    IF s.only THEN v = by
    ELSE \/ s.all
         \/ user[v].home # None /\ AllowsDept(s, user[v].home)
         \/ s.plus /\ v = by

\* user_scope_condition: the same in SQL.
Listed(s, by, v) ==
    CASE s.only                      -> v = by
      [] ~s.only /\ s.all            -> TRUE
      [] ~s.only /\ ~s.all /\ s.depts = {} -> s.plus /\ v = by
      [] OTHER                       -> user[v].home \in s.depts \/ (s.plus /\ v = by)

\* _load_target has a test of its own.
Admits(s, by, v) ==
    IF ~s.only /\ ~s.all THEN user[v].home # None /\ AllowsDept(s, user[v].home)
    ELSE s.only => v = by

\* Seeded fault: only departments at the top level are roots.
TopLevel(rows) == {d \in rows : dept[d].parent = None}

\* _build_tree: where the parent is not among the rows there is a root.
RootsOf(rows) == {d \in rows : dept[d].parent \notin rows}

\* What hangs below a root at some distance.
Shown(rows) == LET closed == {S \in SUBSET rows : /\ RootsOf(rows) \subseteq S
                                                  /\ rows \intersect Children(S) \subseteq S}
               IN  {x \in rows : \A S \in closed : x \in S}

-------------------------------------------------------------------------------
\* A tree has grown, people work in it, and roles have been given scopes.
InitTree == \E t \in Trees : dept = [d \in Dept |->
               [state   |-> IF d \in DOMAIN t THEN "ACTIVE" ELSE "absent",
                deleted |-> FALSE,
                parent  |-> IF d \in DOMAIN t THEN t[d] ELSE None]]

InitPeople == \E h \in Homes :
                 /\ user = [u \in User |->
                              [state |-> IF u \in DOMAIN h THEN "there" ELSE "absent",
                               home  |-> IF u \in DOMAIN h THEN h[u] ELSE None]]
                 /\ \A u \in DOMAIN h : h[u] # None => Live(h[u])

InitScopes == \E s \in [Role -> Scopes] :
                 /\ kind = [c \in Role |-> s[c].kind]
                 /\ custom = {p \in Role \X Dept : p[2] \in s[p[1]].rows}
                 /\ \A p \in custom : Live(p[2])

Init == /\ InitTree /\ InitPeople /\ InitScopes
        /\ version = 0 /\ begun = 0
        /\ job = [r \in Req |-> Blank] /\ txn = [r \in Req |-> NoWrite]

-------------------------------------------------------------------------------
At(r, op, l) == job[r].op = op /\ job[r].pc = l

Goto(r, l) == /\ job' = [job EXCEPT ![r].pc = l]
              /\ UNCHANGED <<tables, version, begun, txn>>

\* An exception makes get_db roll the transaction back.
Raise(r) == /\ job' = [job EXCEPT ![r] = Blank]
            /\ txn' = [txn EXCEPT ![r] = NoWrite]
            /\ UNCHANGED <<tables, version, begun>>

Require(r, ok, l) == IF ok THEN Goto(r, l) ELSE Raise(r)

\* The statement waits while another transaction has touched the same rows.
Untouched(r, w) ==
    \A q \in Req \ {r} : /\ DOMAIN txn[q].dept \intersect DOMAIN w.dept = {}
                         /\ DOMAIN txn[q].user \intersect DOMAIN w.user = {}
                         /\ DOMAIN txn[q].kind \intersect DOMAIN w.kind = {}
                         /\ (txn[q].add \union txn[q].del) \intersect (w.add \union w.del) = {}

Write(r, ok, w, l) == /\ Untouched(r, w)
                      /\ IF ok THEN /\ txn' = [txn EXCEPT ![r] = w]
                                    /\ job' = [job EXCEPT ![r].pc = l]
                                    /\ UNCHANGED <<tables, version, begun>>
                               ELSE Raise(r)

\* The ORM writes the columns that differ from the row as it was read.
Changed(old, new) == [c \in {c \in DOMAIN new : new[c] # old[c]} |-> new[c]]
Update(x, old, new) == LET w == Changed(old, new)
                       IN  IF DOMAIN w = {} THEN <<>> ELSE [y \in {x} |-> w]

\* A row, or a table of values, after a statement that sets some of it.
Set(old, new) == [c \in DOMAIN old |-> IF c \in DOMAIN new THEN new[c] ELSE old[c]]

\* A request of an operator who has been authenticated: his department and the
\* kinds of scope of his roles are known.  The permission for it comes from a role.
Begin(r, op, by, x, to) ==
    /\ job[r].pc = "idle" /\ begun < MaxRequests /\ There(by) /\ Held[by] # {}
    /\ begun' = begun + 1
    /\ job' = [job EXCEPT ![r] = [Blank EXCEPT
                  !.op = op, !.by = by, !.x = x, !.to = to, !.home = user[by].home,
                  !.kinds = KindsOf(by), !.pc = IF op = "setScope" THEN "role" ELSE "resolve"]]
    /\ UNCHANGED <<tables, version, txn>>

\* DataScopeResolver.resolve; what comes next depends on the operation.
ResolveScope(r) ==
    /\ job[r].pc = "resolve"
    /\ job' = [job EXCEPT ![r].sc = Resolve(job[r].kinds, job[r].home),
                          ![r].pc = CASE job[r].op = "createDept" -> "parent"
                                      [] job[r].op = "createUser" -> "home"
                                      [] OTHER                    -> "load"]
    /\ UNCHANGED <<tables, version, begun, txn>>

\* Seeded fault: whoever may change the department may move it anywhere.
AnyParent(s, p) == TRUE

\* None stands for the top level.
AllowsParent(s, p) == IF p = None THEN s.all ELSE AllowsDept(s, p)

-------------------------------------------------------------------------------
\* DepartmentService.create
CheckParent(r) ==
    /\ At(r, "createDept", "parent")
    /\ LET p == job[r].to
       IN  Require(r, AllowsParent(job[r].sc, p) /\ (p # None => Exists(p)), "write")

InsertDept(r) ==
    /\ At(r, "createDept", "write")
    /\ Write(r, TRUE, [NoWrite EXCEPT !.dept = [d \in {job[r].x} |->
                 [state |-> "ACTIVE", deleted |-> FALSE, parent |-> job[r].to]]], "commit")

\* DepartmentService._load_target
LoadDept(r) ==
    /\ job[r].op \in {"moveDept", "disableDept", "deleteDept"} /\ job[r].pc = "load"
    /\ LET d == job[r].x
       IN  IF AllowsDept(job[r].sc, d) /\ Exists(d)
             THEN /\ job' = [job EXCEPT ![r].copy = dept[d],
                                        ![r].pc = CASE job[r].op = "moveDept"   -> "parent"
                                                    [] job[r].op = "deleteDept" -> "children"
                                                    [] OTHER                    -> "write"]
                  /\ UNCHANGED <<tables, version, begun, txn>>
             ELSE Raise(r)

\* DepartmentService.update with a parent: _assert_parent_change_allowed
CheckNewParent(r) ==
    /\ At(r, "moveDept", "parent")
    /\ LET p == job[r].to
       IN  Require(r, /\ p # job[r].x /\ AllowsParent(job[r].sc, p)
                      /\ p # None => Exists(p), IF p = None THEN "write" ELSE "subtree")

\* Seeded fault: a cycle is looked for one level down.
ChildrenOnly(d) == {d} \union Children({d})

\* Where a department may not be moved.
OwnSubtree(d) == Below(d)

CheckSubtree(r) == /\ At(r, "moveDept", "subtree")
                   /\ Require(r, job[r].to \notin OwnSubtree(job[r].x), "write")

MoveDept(r) ==
    /\ At(r, "moveDept", "write")
    /\ Write(r, TRUE, [NoWrite EXCEPT
                 !.dept = Update(job[r].x, job[r].copy, [parent |-> job[r].to])], "commit")

\* DepartmentService.disable
DisableDept(r) ==
    /\ At(r, "disableDept", "write")
    /\ Write(r, TRUE, [NoWrite EXCEPT
                 !.dept = Update(job[r].x, job[r].copy, [state |-> "DISABLED"])], "commit")

\* exists_user_in_subtree
UsersBelow(d) == {u \in User : There(u) /\ user[u].home \in Below(d)}

\* DepartmentService.delete
CountChildren(r) == /\ At(r, "deleteDept", "children")
                    /\ Require(r, Children({job[r].x}) = {}, "users")

CheckUsers(r) == At(r, "deleteDept", "users") /\ Require(r, UsersBelow(job[r].x) = {}, "write")

DeleteDept(r) ==
    /\ At(r, "deleteDept", "write")
    /\ Write(r, TRUE, [NoWrite EXCEPT
                 !.dept = Update(job[r].x, job[r].copy, [deleted |-> TRUE])], "commit")

-------------------------------------------------------------------------------
\* UserService._load_target, for an update that moves the user
LoadUser(r) ==
    /\ At(r, "moveUser", "load")
    /\ LET v == job[r].x
       IN  IF There(v) /\ Admits(job[r].sc, job[r].by, v)
             THEN /\ job' = [job EXCEPT ![r].copy = user[v], ![r].pc = "home"]
                  /\ UNCHANGED <<tables, version, begun, txn>>
             ELSE Raise(r)

\* _assert_department_in_scope, of create and update
CheckHome(r) ==
    /\ job[r].op \in {"createUser", "moveUser"} /\ job[r].pc = "home"
    /\ LET d == job[r].to
       IN  Require(r, AllowsParent(job[r].sc, d) /\ (d # None => Exists(d)), "write")

InsertUser(r) ==
    /\ At(r, "createUser", "write")
    /\ Write(r, TRUE, [NoWrite EXCEPT !.user = [u \in {job[r].x} |->
                 [state |-> "there", home |-> job[r].to]]], "commit")

MoveUser(r) ==
    /\ At(r, "moveUser", "write")
    /\ Write(r, TRUE, [NoWrite EXCEPT
                 !.user = Update(job[r].x, job[r].copy, [home |-> job[r].to])], "commit")

-------------------------------------------------------------------------------
\* RoleDataScopeService.set_scope; clear_custom_scope is set_scope(SELF).
LoadRole(r) ==
    /\ At(r, "setScope", "role")
    /\ job' = [job EXCEPT ![r].copy = [kind |-> kind[job[r].x]],
                          ![r].pc = IF job[r].to.rows = {} THEN "rows" ELSE "exist"]
    /\ UNCHANGED <<tables, version, begun, txn>>

CheckExist(r) == /\ At(r, "setScope", "exist")
                 /\ Require(r, \A d \in job[r].to.rows : Live(d), "rows")

ReadRows(r) ==
    /\ At(r, "setScope", "rows")
    /\ job' = [job EXCEPT ![r].copy = [kind |-> @.kind, rows |-> RowsOf(job[r].x)],
                          ![r].pc = "write"]
    /\ UNCHANGED <<tables, version, begun, txn>>

\* replace_custom_scope_departments, clear_custom_scope_departments
WriteScope(r) ==
    /\ At(r, "setScope", "write")
    /\ LET c   == job[r].x
           s   == job[r].to
           add == {c} \X (s.rows \ job[r].copy.rows)
       IN  Write(r, add \intersect custom = {},
                 [NoWrite EXCEPT
                    !.kind = IF s.kind = job[r].copy.kind THEN <<>> ELSE [x \in {c} |-> s.kind],
                    !.add  = add,
                    !.del  = ({c} \X (job[r].copy.rows \ s.rows)) \intersect custom], "bump")

Taken(S) == S # {}

\* bump locks the version to the commit.
Bump(r) == /\ At(r, "setScope", "bump")
           /\ ~Taken({q \in Req : At(q, "setScope", "commit")})
           /\ Goto(r, "commit")

\* stale: somebody else has committed since the request began.
Commit(r) ==
    /\ job[r].pc = "commit"
    /\ LET w == txn[r]
       IN  /\ dept' = [d \in Dept |-> IF d \in DOMAIN w.dept THEN Set(dept[d], w.dept[d])
                                                              ELSE dept[d]]
           /\ user' = [u \in User |-> IF u \in DOMAIN w.user THEN Set(user[u], w.user[u])
                                                              ELSE user[u]]
           /\ kind' = Set(kind, w.kind)
           /\ custom' = (custom \ w.del) \union w.add
    /\ version' = version + (IF job[r].op = "setScope" THEN 1 ELSE 0)
    /\ job' = [q \in Req |-> IF q = r THEN Blank
                             ELSE IF job[q].pc = "idle" THEN job[q]
                             ELSE [job[q] EXCEPT !.stale = TRUE]]
    /\ txn' = [txn EXCEPT ![r] = NoWrite]
    /\ UNCHANGED begun

-------------------------------------------------------------------------------
Place == Dept \union {None}

\* Nothing else is inserted under the same key at the same time.
New(x) == \A r \in Req : job[r].x # x

Next == \E r \in Req :
    \/ \E by \in User :
        \/ \E d \in Dept, p \in Place : \/ dept[d].state = "absent" /\ New(d)
                                           /\ Begin(r, "createDept", by, d, p)
                                        \/ Live(d) /\ Begin(r, "moveDept", by, d, p)
        \/ \E d \in Dept, op \in {"disableDept", "deleteDept"} :
              Live(d) /\ Begin(r, op, by, d, None)
        \/ \E v \in User, d \in Place : \/ user[v].state = "absent" /\ New(v)
                                           /\ Begin(r, "createUser", by, v, d)
                                        \/ There(v) /\ Begin(r, "moveUser", by, v, d)
        \/ \E c \in Role, s \in Scopes : Begin(r, "setScope", by, c, s)
    \/ ResolveScope(r) \/ CheckParent(r) \/ InsertDept(r)
    \/ LoadDept(r) \/ CheckNewParent(r) \/ CheckSubtree(r) \/ MoveDept(r) \/ DisableDept(r)
    \/ CountChildren(r) \/ CheckUsers(r) \/ DeleteDept(r)
    \/ LoadUser(r) \/ CheckHome(r) \/ InsertUser(r) \/ MoveUser(r)
    \/ LoadRole(r) \/ CheckExist(r) \/ ReadRows(r) \/ WriteScope(r) \/ Bump(r)
    \/ Commit(r)

Spec == Init /\ [][Next]_vars

-------------------------------------------------------------------------------
\* What a tree and scopes are to be: nothing live hangs below something deleted
\* or below itself, everybody belongs to a live department, and departments are
\* listed of CUSTOM roles only.
Parents(S) == {dept[d].parent : d \in S} \ {None}

Ancestors(d) == LET closed == {S \in SUBSET Dept : Parents({d} \union S) \subseteq S}
                IN  {x \in Dept : \A S \in closed : x \in S}

Sound == /\ \A d \in Dept : Live(d) => /\ dept[d].parent # None => Live(dept[d].parent)
                                       /\ d \notin Ancestors(d)
         /\ \A u \in User : There(u) /\ user[u].home # None => Live(user[u].home)
         /\ \A p \in custom : kind[p[1]] = "CUSTOM"

\* Request r commits in this step, and nobody else has since it began.
CommitsAlone(r) == job[r].pc = "commit" /\ job'[r].pc # "commit" /\ ~job[r].stale

\* A request that overlaps with no other commit keeps the organization sound:
\* the checks of create, update, delete and set_scope are enough when they are
\* not outdated, over several levels of the tree.  They hold no lock, so two
\* overlapping moves can close a cycle, each after checks that pass.
ChecksSuffice == [][\A r \in Req : CommitsAlone(r) /\ Sound => Sound']_<<tables, job>>

-------------------------------------------------------------------------------
\* What a role of u covers, read off the rules for each kind of scope (Spec 03
\* section 10): whole departments, and for SELF only u.
Covers(u, c, d) == CASE kind[c] = "ALL"                 -> TRUE
                     [] kind[c] = "DEPARTMENT"          -> d = user[u].home
                     [] kind[c] = "DEPARTMENT_CHILDREN" -> user[u].home \in {d} \union Ancestors(d)
                     [] kind[c] = "CUSTOM"              -> <<c, d>> \in custom
                     [] OTHER                           -> FALSE

Reaches(u, d) == \E c \in Held[u] : Covers(u, c, d)
Sees(u, v) == \/ \E c \in Held[u] : kind[c] = "ALL"
              \/ user[v].home # None /\ Reaches(u, user[v].home)
              \/ v = u /\ (Held[u] = {} \/ \E c \in Held[u] : kind[c] = "SELF")

\* The merged scope of several roles is their union, department by department
\* and user by user (DD-19); the condition in SQL and the test in Python agree,
\* and the test that user.py has of its own admits nobody else.
ScopeIsUnion ==
    Sound => \A u \in User : There(u) =>
        LET s == Resolved(u)
        IN  /\ \A d \in Dept : Live(d) => (AllowsDept(s, d) <=> Reaches(u, d))
            /\ \A v \in User : There(v) => /\ AllowsUser(s, u, v) <=> Sees(u, v)
                                           /\ Listed(s, u, v) <=> AllowsUser(s, u, v)
                                           /\ Admits(s, u, v) => AllowsUser(s, u, v)

\* With the types.
ScopeInv == TypeOK /\ ScopeIsUnion

\* The tree that an operator is shown has every department of his scope, those
\* included whose parent is outside it.
TreeIsWhole == Sound => \A u \in User : There(u) =>
                   LET rows == {d \in Dept : Live(d) /\ AllowsDept(Resolved(u), d)}
                   IN  Shown(rows) = rows

InReach(u, p) == IF p = None THEN \E c \in Held[u] : kind[c] = "ALL" ELSE Reaches(u, p)

\* What it changes it reaches, and where it puts it, too.
StaysWithin(r) ==
    LET u == job[r].by
    IN  /\ \A d \in Dept : dept[d] # dept'[d] =>
              /\ dept[d].state # "absent" => Reaches(u, d)
              /\ dept[d].parent # dept'[d].parent \/ dept[d].state = "absent"
                    => InReach(u, dept'[d].parent)
        /\ \A v \in User : user[v] # user'[v] =>
              /\ user[v].state # "absent" => Sees(u, v)
              /\ InReach(u, user'[v].home)

\* What a request changes was in the scope of its operator, and where it puts it
\* is, too, as long as nobody else commits between the resolution of the scope
\* and the end: no way round by naming another department in the request.
ActsInScope ==
    [][\A r \in Req : CommitsAlone(r) /\ Sound => StaysWithin(r)]_<<tables, job>>

-------------------------------------------------------------------------------
\* A promise of the comments that the code does not keep: who is listed can be
\* opened, for "include_self" adds the user himself in SQL and in Python alike.
ListedCanBeRead == \A u, v \in User : There(u) /\ There(v) /\ Listed(Resolved(u), u, v)
                                         => Admits(Resolved(u), u, v)
==============================================================================
