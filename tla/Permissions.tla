------------------------------ MODULE Permissions ------------------------------
(***************************************************************************)
(* Permission resources, what roles are granted of them, and the effective *)
(* permissions a request computes (app/services/permission_resource.py,    *)
(* role_permission.py, effective_permission.py, permission_contract.py).   *)
(*                                                                         *)
(* An administrator's request checks what is committed, one statement at a *)
(* time (READ COMMITTED), collects its writes (txn) and publishes them     *)
(* with Commit; a statement waits for rows that another transaction has    *)
(* touched, and bump() locks the version row to the commit.  A reader is   *)
(* a sequence of statements, too, the version among the last of them.      *)
(*                                                                         *)
(* role_permissions and role_field_permissions are one table here: the row *)
(* of a field has a level, every other row level 1, and 0 stands for no    *)
(* row.  The id of a resource fixes its type.  Left out: what a resource   *)
(* shows (names, routes, icons), the rights of the operator, and requests  *)
(* that name resources of a wrong type, which are refused.  The roles of   *)
(* the user move as the module Roles shows: each change has a version.     *)
(***************************************************************************)
EXTENDS Integers, FiniteSets

CONSTANTS Role, Super,        \* Super: the role whose code is SUPER_ADMIN
          Resource, TypeOf,   \* TypeOf[x]: the type that x has once created
          Made,               \* the resources that are there at the start
          MaxLevel,           \* field levels are 1..MaxLevel, the last the most permissive
          Req, None,
          MaxVersion,         \* bound on the changes of permissions
          MaxReaders          \* bound on the readers at one time, who do not disturb one another

Binary == {"PAGE", "MENU", "BUTTON", "API"}
Type   == Binary \union {"FIELD"}

ASSUME PermissionsAssumption == /\ Super \in Role /\ None \notin Req \union Resource
                                /\ TypeOf \in [Resource -> Type] /\ Made \subseteq Resource
                                /\ \E p \in Made : TypeOf[p] = "PAGE"
                                /\ MaxLevel \in Nat \ {0} /\ {MaxVersion, MaxReaders} \subseteq Nat

VARIABLES res,       \* permission_resources: status, deleted_at, parent or owner
          level,     \* the rows of role_permissions and role_field_permissions
          pages,     \* menu_pages, as <<menu, page>>
          roles,     \* what the user holds, who inherits from whom, who is ACTIVE
          version, lock,
          job, txn

vars   == <<res, level, pages, roles, version, lock, job, txn>>
tables == <<res, level, pages, roles, version>>

Pair     == Role \X Resource
Row      == [status : {"absent", "ACTIVE", "DISABLED"}, deleted : BOOLEAN,
             over : Resource \union {None}]
OfType(t) == {x \in Resource : TypeOf[x] = t}
Levels(t) == IF t = "FIELD" THEN 0..MaxLevel ELSE 0..1

NoWrite == [res |-> <<>>, level |-> <<>>, add |-> {}, del |-> {}]
NoneYet == [roles |-> {}, ids |-> {}, codes |-> {}, levels |-> <<>>, super |-> FALSE,
            rows |-> {}, menus |-> {}, label |-> 0]
Blank   == [op |-> "none", pc |-> "idle", x |-> None, role |-> None, want |-> <<>>,
            before |-> <<>>, got |-> NoneYet, since |-> 0, stale |-> FALSE]

Op == {"none", "replace", "create", "status", "delete", "setPages", "contract", "judge"}
PC == {"idle", "check", "before", "write", "over", "children", "menus", "grants", "bump",
       "commit", "direct", "expand", "active", "codes", "fields", "names", "super", "version",
       "rows", "menuPages", "kept"} \union Binary

Reads(r) == job[r].op \in {"contract", "judge"}

\* Types; rows exist only of what was created; and whoever has bumped the
\* version has its row locked.
TypeOK == /\ res \in [Resource -> Row]
          /\ \A p \in Pair : level[p] \in Levels(TypeOf[p[2]])
          /\ pages \subseteq OfType("MENU") \X OfType("PAGE")
          /\ roles.holds \union roles.active \subseteq Role /\ roles.edge \subseteq Role \X Role
          /\ version \in 0..MaxVersion /\ lock \in Req \union {None}
          /\ \A p \in Pair : level[p] > 0 => res[p[2]].status # "absent"
          /\ \A r \in Req : /\ job[r].op \in Op /\ job[r].pc \in PC
                            /\ job[r].pc = "commit" /\ job[r].op # "create" /\ txn[r] # NoWrite
                                  => lock = r

-------------------------------------------------------------------------------
\* _live_resource_filter: neither deleted nor disabled.
Live(x) == res[x].status = "ACTIVE" /\ ~res[x].deleted

\* get leaves out what is deleted, and only that.
There(x) == res[x].status # "absent" /\ ~res[x].deleted

\* What a type of resource hangs below (parent_id, or owner_resource_id of a field).
Above == [PAGE |-> "none", MENU |-> "MENU", BUTTON |-> "PAGE", API |-> "PAGE", FIELD |-> "PAGE"]
MayBeTop(t) == t \in {"PAGE", "MENU", "API"}

\* The roles in S and all that they inherit from.
Expand(S) == {x \in Role : \A T \in SUBSET Role :
                 (S \subseteq T /\ \A e \in roles.edge : e[1] \in T => e[2] \in T) => x \in T}

Granted(R, t) == {x \in OfType(t) : Live(x) /\ \E c \in R : level[<<c, x>>] > 0}

\* The most permissive level of several roles.
LevelOf(R, f) == CHOOSE n \in {level[<<c, f>>] : c \in R} :
                    \A c \in R : n >= level[<<c, f>>]

FieldLevels(R) == [f \in Granted(R, "FIELD") |-> LevelOf(R, f)]

\* Seeded fault: a menu shows pages the user has no access to.
AllPages(rows) == {e \in pages : e[1] \in rows}

MenuPages(rows) == {e \in pages : e[1] \in rows /\ e[2] \in rows}

\* Some resources have been created before, what has to below a page.
Init == /\ res = [x \in Resource |->
                   [status  |-> IF x \in Made THEN "ACTIVE" ELSE "absent",
                    deleted |-> FALSE,
                    over    |-> IF x \in Made /\ ~MayBeTop(TypeOf[x])
                                  THEN CHOOSE p \in Made : TypeOf[p] = "PAGE" ELSE None]]
        /\ level = [p \in Pair |-> 0] /\ pages = {}
        /\ roles = [holds |-> Role \ {Super}, edge |-> {}, active |-> Role]
        /\ version = 0 /\ lock = None
        /\ job = [r \in Req |-> Blank] /\ txn = [r \in Req |-> NoWrite]

-------------------------------------------------------------------------------
At(r, l) == job[r].pc = l

Unlock(r) == lock' = IF lock = r THEN None ELSE lock

Writers == {r \in Req : ~At(r, "idle") /\ ~Reads(r)}
Readers == {r \in Req : Reads(r)}

Begin(r, j) == /\ At(r, "idle")
               /\ j.op \notin {"contract", "judge"} => version + Cardinality(Writers) < MaxVersion
               /\ job' = [job EXCEPT ![r] = j]
               /\ UNCHANGED <<tables, lock, txn>>

Goto(r, l) == /\ job' = [job EXCEPT ![r].pc = l]
              /\ UNCHANGED <<tables, lock, txn>>

\* An exception makes get_db roll the transaction back.
Raise(r) == /\ job' = [job EXCEPT ![r] = Blank]
            /\ txn' = [txn EXCEPT ![r] = NoWrite]
            /\ Unlock(r)
            /\ UNCHANGED tables

Require(r, ok, l) == IF ok THEN Goto(r, l) ELSE Raise(r)

\* The statement waits while another transaction has touched the same rows.
Untouched(r, w) ==
    \A q \in Req \ {r} : /\ DOMAIN txn[q].res \intersect DOMAIN w.res = {}
                         /\ DOMAIN txn[q].level \intersect DOMAIN w.level = {}
                         /\ (txn[q].add \union txn[q].del) \intersect (w.add \union w.del) = {}

Write(r, ok, w, l) == /\ Untouched(r, w)
                      /\ IF ok THEN /\ txn' = [txn EXCEPT ![r] = w]
                                    /\ job' = [job EXCEPT ![r].pc = l]
                                    /\ UNCHANGED <<tables, lock>>
                               ELSE Raise(r)

-------------------------------------------------------------------------------
\* The grants of a role on one type of resources are replaced as a whole:
\* want[x] is the level asked for, 0 where x is not named.
BeginReplace(r, c, t, want) ==
    Begin(r, [Blank EXCEPT !.op = "replace", !.role = c, !.want = want,
                           !.pc = IF \A x \in OfType(t) : want[x] = 0 THEN "before" ELSE "check"])

CheckAssignable(r) == /\ At(r, "check") /\ job[r].op = "replace"
                      /\ Require(r, \A x \in DOMAIN job[r].want : job[r].want[x] > 0 => Live(x),
                                 "before")

\* list_resource_ids, list_field_levels
Current(c, t) == [x \in t |-> IF Live(x) THEN level[<<c, x>>] ELSE 0]

ReadGrants(r) == /\ At(r, "before") /\ job[r].op = "replace"
                 /\ job' = [job EXCEPT ![r].pc = "write",
                                       ![r].before = Current(job[r].role, DOMAIN job[r].want)]
                 /\ UNCHANGED <<tables, lock, txn>>

\* Seeded fault: what is no longer asked for stays.
Additions(before, want) == {x \in DOMAIN want : want[x] > before[x]}

\* The rows that are deleted, updated or inserted.
Differing(before, want) == {x \in DOMAIN want : want[x] # before[x]}

\* Inserting a row that is there violates the primary key; updating or deleting
\* one that is gone does nothing.
WriteGrants(r) ==
    /\ At(r, "write") /\ job[r].op = "replace"
    /\ LET j     == job[r]
           diff  == Differing(j.before, j.want)
           added == {x \in diff : j.before[x] = 0}
           moved == {x \in diff \ added : level[<<j.role, x>>] > 0}
       IN  Write(r, \A x \in added : level[<<j.role, x>>] = 0,
                 [NoWrite EXCEPT !.level = [p \in {j.role} \X (added \union moved) |-> j.want[p[2]]]],
                 "bump")

-------------------------------------------------------------------------------
\* A resource is created below another (one that is created DISABLED is like one
\* that is disabled at once).
BeginCreate(r, x, p) ==
    /\ res[x].status = "absent" /\ \A q \in Req : job[q].x # x
    /\ p = None => MayBeTop(TypeOf[x])
    /\ Begin(r, [Blank EXCEPT !.op = "create", !.x = x,
                              !.want = [status |-> "ACTIVE", deleted |-> FALSE, over |-> p],
                              !.pc = IF p = None THEN "write" ELSE "over"])

CheckOver(r) == /\ At(r, "over")
                /\ LET p == job[r].want.over
                   IN  Require(r, There(p) /\ TypeOf[p] = Above[TypeOf[job[r].x]], "write")

Insert(r) ==
    /\ At(r, "write") /\ job[r].op = "create"
    /\ Write(r, TRUE, [NoWrite EXCEPT !.res = [y \in {job[r].x} |-> job[r].want]], "commit")

-------------------------------------------------------------------------------
\* What the ORM writes: the columns whose value differs from the row as read.
Changed(old, new) == [c \in {c \in DOMAIN new : new[c] # old[c]} |-> new[c]]

\* A row, or a table of levels, after a statement that sets some of it.
Set(old, new) == [c \in DOMAIN old |-> IF c \in DOMAIN new THEN new[c] ELSE old[c]]

\* A resource is enabled or disabled.
BeginStatus(r, x, s) ==
    /\ There(x)
    /\ Begin(r, [Blank EXCEPT !.op = "status", !.pc = "write", !.x = x,
                              !.want = Changed(res[x], [status |-> s])])

\* Seeded fault: the change of a status does not move the version.
NeverMoves(w) == FALSE

\* status_changed
Moves(w) == DOMAIN w # {}

UpdateStatus(r) ==
    /\ At(r, "write") /\ job[r].op = "status"
    /\ LET w == job[r].want
       IN  Write(r, TRUE, [NoWrite EXCEPT
                          !.res = IF DOMAIN w = {} THEN <<>> ELSE [y \in {job[r].x} |-> w]],
                 IF Moves(w) THEN "bump" ELSE "commit")

\* A resource that nothing refers to is deleted.
BeginDelete(r, x) ==
    /\ There(x)
    /\ Begin(r, [Blank EXCEPT !.op = "delete", !.pc = "children", !.x = x,
                              !.want = Changed(res[x], [status |-> "DISABLED", deleted |-> TRUE])])

CountChildren(r) == /\ At(r, "children")
                    /\ Require(r, \A x \in Resource : There(x) => res[x].over # job[r].x, "menus")

CountMenuPages(r) == /\ At(r, "menus")
                     /\ Require(r, \A e \in pages : job[r].x \notin {e[1], e[2]}, "grants")

\* Seeded fault: fields are not looked for in role_field_permissions.
UngrantedBinary(x) == TypeOf[x] = "FIELD" \/ \A c \in Role : level[<<c, x>>] = 0

\* count_roles_for_resource
Ungranted(x) == \A c \in Role : level[<<c, x>>] = 0

CountGrants(r) == At(r, "grants") /\ Require(r, Ungranted(job[r].x), "write")

DeleteResource(r) ==
    /\ At(r, "write") /\ job[r].op = "delete"
    /\ Write(r, TRUE, [NoWrite EXCEPT !.res = [y \in {job[r].x} |-> job[r].want]], "bump")

-------------------------------------------------------------------------------
\* The pages of a menu are replaced as a whole.
BeginSetPages(r, m, S) ==
    /\ There(m)
    /\ Begin(r, [Blank EXCEPT !.op = "setPages", !.x = m, !.want = S,
                              !.pc = IF S = {} THEN "before" ELSE "check"])

CheckPages(r) == /\ At(r, "check") /\ job[r].op = "setPages"
                 /\ Require(r, \A p \in job[r].want : Live(p), "before")

ReadPages(r) == /\ At(r, "before") /\ job[r].op = "setPages"
                /\ job' = [job EXCEPT ![r].pc = "write",
                                      ![r].before = {e[2] : e \in {e \in pages : e[1] = job[r].x}}]
                /\ UNCHANGED <<tables, lock, txn>>

WritePages(r) ==
    /\ At(r, "write") /\ job[r].op = "setPages"
    /\ LET j   == job[r]
           add == {j.x} \X (j.want \ j.before)
       IN  Write(r, add \intersect pages = {},
                 [NoWrite EXCEPT !.add = add, !.del = ({j.x} \X (j.before \ j.want)) \intersect pages],
                 "bump")

-------------------------------------------------------------------------------
Free(l) == l = None

\* bump: the version row is locked to the end of the transaction.
Bump(r) == /\ At(r, "bump") /\ Free(lock)
           /\ lock' = r
           /\ job' = [job EXCEPT ![r].pc = "commit"]
           /\ UNCHANGED <<tables, txn>>

\* stale: somebody has committed since the request began.  Clients drop what
\* they have kept when the version moves.
Commit(r) ==
    /\ At(r, "commit")
    /\ LET w == txn[r]
       IN  /\ res'   = [x \in Resource |-> IF x \in DOMAIN w.res THEN Set(res[x], w.res[x])
                                                                  ELSE res[x]]
           /\ level' = Set(level, w.level)
           /\ pages' = (pages \ w.del) \union w.add
    /\ version' = version + (IF lock = r THEN 1 ELSE 0)
    /\ Unlock(r)
    /\ job' = [q \in Req |-> IF q = r \/ (At(q, "kept") /\ lock = r) THEN Blank
                               ELSE IF q \in Writers THEN [job[q] EXCEPT !.stale = TRUE]
                               ELSE job[q]]
    /\ txn' = [txn EXCEPT ![r] = NoWrite]
    /\ UNCHANGED roles

\* A role or an inheritance is enabled or taken away (the module Roles).
Flip(S, x) == IF x \in S THEN S \ {x} ELSE S \union {x}

RolesMove == /\ lock = None /\ version + Cardinality(Writers) < MaxVersion
             /\ \E c \in Role :
                  \/ roles' = [roles EXCEPT !.holds = Flip(@, c)]
                  \/ roles' = [roles EXCEPT !.active = Flip(@, c)]
                  \/ \E d \in Role \ {c} : /\ <<d, c>> \notin roles.edge
                                           /\ roles' = [roles EXCEPT !.edge = Flip(@, <<c, d>>)]
             /\ version' = version + 1
             /\ job' = [q \in Req |-> IF At(q, "kept") THEN Blank ELSE job[q]]
             /\ UNCHANGED <<res, level, pages, lock, txn>>

-------------------------------------------------------------------------------
\* The permissions of the user are computed: as the contract of the front end,
\* or (judge, resolve_api_codes) as the codes a request is admitted by.
BeginRead(r, op) == /\ Cardinality(Readers) < MaxReaders
                    /\ Begin(r, [Blank EXCEPT !.op = op, !.pc = "direct", !.since = version])

Take(r, l, g) == /\ job' = [job EXCEPT ![r].pc = l, ![r].got = g]
                 /\ UNCHANGED <<tables, lock, txn>>

Got(r) == job[r].got

ReadDirect(r) == /\ At(r, "direct")
                 /\ Take(r, "expand", [Got(r) EXCEPT !.roles = roles.holds \intersect roles.active])

ReadInherited(r) == /\ At(r, "expand")
                    /\ Take(r, "active", [Got(r) EXCEPT !.roles = Expand(@)])

ReadActive(r) == /\ At(r, "active")
                 /\ Take(r, IF job[r].op = "judge" THEN "API" ELSE "PAGE",
                         [Got(r) EXCEPT !.roles = @ \intersect roles.active])

After == [PAGE |-> "MENU", MENU |-> "BUTTON", BUTTON |-> "API", API |-> "codes"]

ReadGranted(r, t) == /\ At(r, t)
                     /\ Take(r, After[t], [Got(r) EXCEPT !.ids = @ \union Granted(Got(r).roles, t)])

ReadCodes(r) == /\ At(r, "codes")
                /\ Take(r, IF job[r].op = "judge" THEN "kept" ELSE "fields",
                        [Got(r) EXCEPT !.codes = {x \in Got(r).ids : Live(x)}])

ReadFields(r) == /\ At(r, "fields")
                 /\ Take(r, "names", [Got(r) EXCEPT !.levels = FieldLevels(Got(r).roles)])

ReadFieldNames(r) ==
    /\ At(r, "names")
    /\ LET l == Got(r).levels
       IN  Take(r, "super", [Got(r) EXCEPT !.levels = [f \in {f \in DOMAIN l : Live(f)} |-> l[f]]])

ReadSuper(r) == /\ At(r, "super")
                /\ Take(r, "version", [Got(r) EXCEPT !.super = Super \in roles.holds])

ReadVersion(r) == At(r, "version") /\ Take(r, "rows", [Got(r) EXCEPT !.label = version])

\* Everything that is live, for a SUPER_ADMIN.
RowsFor(g) == {x \in Resource : Live(x) /\ TypeOf[x] \in Binary /\ (g.super \/ x \in g.ids)}

ReadRows(r) == At(r, "rows") /\ Take(r, "menuPages", [Got(r) EXCEPT !.rows = RowsFor(Got(r))])

\* The client keeps the contract with its version.
ReadMenuPages(r) == /\ At(r, "menuPages")
                    /\ Take(r, "kept", [Got(r) EXCEPT !.menus = MenuPages(Got(r).rows)])

Forget(r) == At(r, "kept") /\ Raise(r)

Next == \/ RolesMove
        \/ \E r \in Req :
            \/ \E c \in Role, t \in {TypeOf[x] : x \in Resource} :
                 \E want \in [OfType(t) -> Levels(t)] : BeginReplace(r, c, t, want)
            \/ CheckAssignable(r) \/ ReadGrants(r) \/ WriteGrants(r)
            \/ \E x \in Resource, p \in Resource \union {None} : BeginCreate(r, x, p)
            \/ CheckOver(r) \/ Insert(r)
            \/ \E x \in Resource : \/ \E s \in {"ACTIVE", "DISABLED"} : BeginStatus(r, x, s)
                                   \/ BeginDelete(r, x)
            \/ UpdateStatus(r) \/ CountChildren(r) \/ CountMenuPages(r) \/ CountGrants(r)
            \/ DeleteResource(r)
            \/ \E m \in OfType("MENU"), S \in SUBSET OfType("PAGE") : BeginSetPages(r, m, S)
            \/ CheckPages(r) \/ ReadPages(r) \/ WritePages(r)
            \/ Bump(r) \/ Commit(r)
            \/ \E op \in {"contract", "judge"} : BeginRead(r, op)
            \/ ReadDirect(r) \/ ReadInherited(r) \/ ReadActive(r)
            \/ \E t \in Binary : ReadGranted(r, t)
            \/ ReadCodes(r) \/ ReadFields(r) \/ ReadFieldNames(r) \/ ReadSuper(r)
            \/ ReadVersion(r) \/ ReadRows(r) \/ ReadMenuPages(r) \/ Forget(r)

Spec == Init /\ [][Next]_vars

-------------------------------------------------------------------------------
\* What roles permit: the live part of the tables, and who has which role.
Permitted == <<[p \in Pair |-> IF Live(p[2]) THEN level[p] ELSE 0],
               {e \in pages : Live(e[1]) /\ Live(e[2])}, roles>>

\* Every commit that changes what somebody is permitted has a version of its
\* own, whatever overlaps: a change that is published without one stays unseen.
VersionMoves == [][Permitted # Permitted' => version' = version + 1]_<<res, level, pages, roles>>

\* What the readers are to compute.
Effective == Expand(roles.holds \intersect roles.active) \intersect roles.active

Admits(g) == g.codes = Granted(Effective, "API")

Shows(g) == /\ g.ids = UNION {Granted(Effective, t) : t \in Binary} /\ g.codes = g.ids
            /\ g.levels = FieldLevels(Effective)
            /\ g.super = (Super \in roles.holds)
            /\ g.menus = {e \in pages : {e[1], e[2]} \subseteq g.rows}

\* A result that was computed while the version stood still is right, and stays
\* right for as long as the version does: the statements fit together, the
\* short way (judge) agrees with the long one, and no change of a grant, a
\* resource, a level, a menu or a role goes without the version.  A SUPER_ADMIN
\* may see more than the contract says: creating a resource has no version.
UndisturbedVouches ==
    \A r \in Req : At(r, "kept") /\ job[r].since = version =>
        LET g == Got(r)
        IN  IF job[r].op = "judge" THEN Admits(g)
            ELSE Shows(g) /\ IF g.super THEN g.rows \subseteq RowsFor(g) ELSE g.rows = RowsFor(g)

\* With the types.
ReadInv == TypeOK /\ UndisturbedVouches

\* No resource hangs below a deleted one, and no grant or menu refers to one.
Referential == /\ \A x \in Resource : There(x) /\ res[x].over # None => There(res[x].over)
               /\ \A p \in Pair : level[p] > 0 => ~res[p[2]].deleted
               /\ \A e \in pages : ~res[e[1]].deleted /\ ~res[e[2]].deleted

\* The request commits in this step, and nobody else has since it began.
CommitsAlone(r) == At(r, "commit") /\ ~At(r, "commit")' /\ ~job[r].stale

\* A request that overlaps with no other commit leaves no reference to a deleted
\* resource: the three counts of delete, and the checks of create, replace and
\* set_menu_pages, are enough when they are not outdated.
ChecksSuffice == [][\A r \in Req : CommitsAlone(r) /\ Referential => Referential']_vars

\* After an undisturbed replacement the role has exactly what was asked for of
\* the resources that are live, fields at the level asked for.
ReplaceCoversLive ==
    [][\A r \in Req : CommitsAlone(r) /\ job[r].op = "replace" =>
         \A x \in DOMAIN job[r].want : Live(x) => level'[<<job[r].role, x>>] = job[r].want[x]]_vars

-------------------------------------------------------------------------------
\* Promises of the comments that the code does not keep.

\* A replacement is one "as a whole": nothing that was not asked for remains.
ReplaceIsWhole ==
    [][\A r \in Req : CommitsAlone(r) /\ job[r].op = "replace" =>
         \A x \in DOMAIN job[r].want : level'[<<job[r].role, x>>] = job[r].want[x]]_vars

\* A contract may be kept for as long as its permission_version is the current one.
VersionVouches ==
    \A r \in Req : At(r, "kept") /\ job[r].op = "contract" /\ Got(r).label = version =>
        Shows(Got(r)) /\ Got(r).rows = RowsFor(Got(r))
==============================================================================
