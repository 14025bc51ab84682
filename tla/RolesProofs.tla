----------------------------- MODULE RolesProofs -----------------------------
(***************************************************************************)
(* Every change of permissions has a version of its own, and the checks    *)
(* of a request that nobody overtakes are enough: for any number of roles, *)
(* users and requests.                                                     *)
(*                                                                         *)
(* What a request has checked stays true until somebody else commits, and  *)
(* that somebody marks it as stale; who is about to commit a change of     *)
(* permissions holds the lock on the version row.                          *)
(***************************************************************************)
EXTENDS Roles, FiniteSetTheorems, TLAPS

-------------------------------------------------------------------------------
\* What a request remembers.
Fields == {"op", "pc", "role", "parent", "user", "roles", "new", "exists", "stale"}

Shape(j) == /\ \A k \in Fields : k \in DOMAIN j
            /\ j.op \in Op /\ j.pc \in PC /\ j.stale \in BOOLEAN

Columns(c) == /\ DOMAIN c \subseteq {"status", "deleted"}
              /\ "status" \in DOMAIN c => c["status"] \in {"ACTIVE", "DISABLED"}
              /\ "deleted" \in DOMAIN c => c["deleted"] \in BOOLEAN

RoleOps == {"delRole", "roleStatus"}
UserOps == {"delUser", "userStatus"}
EdgeOps == {"grant", "revoke"}

\* Which operations are at which places, and with which inputs.
Place(j) ==
    /\ j.pc = "idle" <=> j.op = "none"
    /\ j.pc \in {"holders", "refs"} => j.op = "delRole"
    /\ j.pc = "check" => j.op = "grant"
    /\ j.pc = "before" => j.op = "assign"
    /\ j.pc \in {"who", "count"} => j.op \in UserOps
    /\ j.pc = "bump" => j.op \notin UserOps
    /\ j.pc = "chain" => j.op \in EdgeOps
    /\ j.op \in EdgeOps => j.role \in Role /\ j.parent \in Role /\ j.role # j.parent
    /\ j.op \in RoleOps => j.role \in Role /\ Columns(j.new)
    /\ j.op \in UserOps => j.user \in User /\ Columns(j.new)
    /\ j.op \in {"roleStatus", "userStatus"} => "deleted" \notin DOMAIN j.new
    /\ j.op = "assign" => j.user \in User /\ j.roles \subseteq Role
    /\ j.op = "assign" /\ j.pc # "before" => j.new \subseteq Role

Done(j) == j.pc \in {"bump", "chain", "commit"}

\* What a request writes, by its operation.
Writes(j, w) ==
    /\ ~Done(j) => w = NoWrite
    /\ Done(j) =>
         \/ j.op \in EdgeOps /\ j.pc # "bump" /\ w = NoWrite
         \/ j.op = "grant" /\ w = [NoWrite EXCEPT !.add = {<<j.role, j.parent>>}]
         \/ j.op = "revoke" /\ \E E \in SUBSET {<<j.role, j.parent>>} :
                                  w = [NoWrite EXCEPT !.del = E]
         \/ j.op \in RoleOps /\ w = [NoWrite EXCEPT !.role = j.new]
         \/ j.op \in UserOps /\ w = [NoWrite EXCEPT !.user = j.new]
         \/ j.op = "assign" /\ w = [NoWrite EXCEPT !.give = {j.user} \X (j.roles \ j.new),
                                                   !.take = {j.user} \X ToRemove(j.new, j.roles)]

\* What the checks of a request have found out, as long as nobody has committed.
Fresh(j) ==
    /\ j.op = "grant" => ~role[j.role].deleted /\ ~role[j.parent].deleted
    /\ j.op = "grant" /\ j.pc # "check" => ~Closes(j.role, j.parent)
    /\ j.op = "delRole" /\ j.pc # "holders" => NotHeld(j.role)
    /\ j.op = "delRole" /\ j.pc \notin {"holders", "refs"} => NotReferenced(j.role)
    /\ j.op = "assign" => \A x \in j.roles : ~role[x].deleted
    /\ j.op = "assign" /\ j.pc # "before" => j.new = RolesOf(j.user)
    /\ j.op = "delUser" /\ j.pc \notin {"who", "count"} =>
         ~IsAdmin(j.user) \/ NotTheLast(Cardinality(Admins))

Local(j, w) == Shape(j) /\ Place(j) /\ Writes(j, w) /\ (~j.stale => Fresh(j))

\* Who is about to commit a change of permissions holds the lock on the version.
Locked(r, j, w, l) == j.pc \in {"chain", "commit"} /\ Permits(w) => l = r

IInv == /\ role \in [Role -> Row] /\ user \in [User -> Row]
        /\ edge \subseteq Edge /\ holds \subseteq Held
        /\ version \in Nat /\ lock \in Req \union {None}
        /\ job = [r \in Req |-> job[r]] /\ txn = [r \in Req |-> txn[r]]
        /\ \A r \in Req : Local(job[r], txn[r]) /\ Locked(r, job[r], txn[r], lock)

-------------------------------------------------------------------------------
\* What the columns of an UPDATE make of a row.
LEMMA SetRow == ASSUME NEW x \in Row, NEW c, Columns(c)
                PROVE  /\ Set(x, c) \in Row
                       /\ "deleted" \notin DOMAIN c => Set(x, c).deleted = x.deleted
<1>. DEFINE y == Set(x, c)
<1>1. y = [k \in {"status", "deleted"} |-> y[k]] /\ DOMAIN x = {"status", "deleted"}
  BY DEF Set, Row
<1>2. y["status"] \in {"ACTIVE", "DISABLED"} /\ y["deleted"] \in BOOLEAN
  BY DEF Set, Row, Columns
<1>3. y = [status |-> y["status"], deleted |-> y["deleted"]]
  BY <1>1
<1>4. "deleted" \notin DOMAIN c => y["deleted"] = x["deleted"]
  BY <1>1 DEF Set
<1>. QED BY <1>2, <1>3, <1>4 DEF Row

LEMMA SetNothing == ASSUME NEW x \in Row PROVE Set(x, <<>>) = x
<1>1. DOMAIN x = {"status", "deleted"} /\ x = [k \in {"status", "deleted"} |-> x[k]]
  BY DEF Row
<1>2. DOMAIN <<>> = {}
  OBVIOUS
<1>. QED BY <1>1, <1>2 DEF Set

\* A request at another place in its handler.
LEMMA Moved == ASSUME NEW j, Shape(j), NEW l \in PC
               PROVE  LET i == [j EXCEPT !.pc = l]
                      IN  /\ Shape(i) /\ i.pc = l /\ i.op = j.op /\ i.role = j.role
                          /\ i.parent = j.parent /\ i.user = j.user /\ i.roles = j.roles
                          /\ i.new = j.new /\ i.exists = j.exists /\ i.stale = j.stale
BY DEF Shape, Fields

LEMMA BlankShape == Shape(Blank) /\ Blank.stale = FALSE
BY DEF Blank, Shape, Fields, Op, PC

LEMMA BlankFits == /\ Local(Blank, NoWrite)
                   /\ \A r \in Req : \A l : Locked(r, Blank, NoWrite, l)
<1>1. Shape(Blank) /\ Blank.pc = "idle" /\ Blank.op = "none"
  BY BlankShape DEF Blank
<1>. QED BY <1>1 DEF Local, Place, Writes, Done, Fresh, Locked, RoleOps, UserOps, EdgeOps

-------------------------------------------------------------------------------
LEMMA InitIInv == Init => IInv
<1>. SUFFICES ASSUME Init PROVE IInv
  OBVIOUS
<1>1. role \in [Role -> Row] /\ user \in [User -> Row]
  BY DEF Init, Row
<1>2. edge \subseteq Edge /\ holds \subseteq Held
  BY RoleAssumption DEF Init, Edge, Held
<1>3. \A r \in Req : job[r] = Blank /\ txn[r] = NoWrite
  BY DEF Init
<1>. QED BY <1>1, <1>2, <1>3, BlankFits DEF Init, IInv

-------------------------------------------------------------------------------
\* A step of one request that commits nothing keeps the invariant if what the
\* request remembers and writes afterwards fits.
LEMMA OwnStep ==
    ASSUME IInv, NEW r \in Req, NEW j, NEW w, Local(j, w), Locked(r, j, w, lock'),
           lock' \in Req \union {None}, \A q \in Req \ {r} : lock = q => lock' = q,
           job' = [job EXCEPT ![r] = j], txn' = [txn EXCEPT ![r] = w], UNCHANGED tables
    PROVE  IInv'
<1>1. /\ UNCHANGED <<role, user, edge, holds, version>>
      /\ job' = [q \in Req |-> job'[q]] /\ txn' = [q \in Req |-> txn'[q]]
      /\ job'[r] = j /\ txn'[r] = w
      /\ \A q \in Req \ {r} : job'[q] = job[q] /\ txn'[q] = txn[q]
  BY DEF IInv, tables
<1>2. ASSUME NEW q \in Req
      PROVE  Local(job[q], txn[q])' /\ Locked(q, job[q], txn[q], lock)'
  <2>1. PICK i, v : job'[q] = i /\ txn'[q] = v /\ Local(i, v) /\ Locked(q, i, v, lock')
    <3>1. CASE q = r
      BY <3>1, <1>1
    <3>2. CASE q # r
      BY <3>2, <1>1 DEF IInv, Locked
    <3>. QED BY <3>1, <3>2
  <2>2. Shape(i) /\ Place(i) /\ Writes(i, v)
    BY <2>1 DEF Local
  <2>3. Shape(job[q])' /\ Place(job[q])' /\ Writes(job[q], txn[q])'
    <3>1. Shape(job[q])'
      BY <2>1, <2>2 DEF Shape
    <3>2. Place(job[q])'
      <4>1. Place(job'[q])
        BY <2>1, <2>2
      <4>. QED BY <4>1 DEF Place, Columns
    <3>3. Writes(job[q], txn[q])'
      <4>1. Writes(job'[q], txn'[q])
        BY <2>1, <2>2
      <4>. QED BY <4>1 DEF Writes, Done, ToRemove
    <3>. QED BY <3>1, <3>2, <3>3
  <2>4. ~i.stale => Fresh(i)
    BY <2>1 DEF Local
  <2>5. /\ \A x \in Role : NotHeld(x)' <=> NotHeld(x)
        /\ \A x \in Role : NotReferenced(x)' <=> NotReferenced(x)
        /\ \A x, y : Closes(x, y)' <=> Closes(x, y)
        /\ \A u : RolesOf(u)' = RolesOf(u) /\ (IsAdmin(u)' <=> IsAdmin(u))
        /\ Admins' = Admins
    BY <1>1 DEF NotHeld, Holders, NotReferenced, Closes, Ancestors, RolesOf, IsAdmin, Admins
  <2>6. i.op = "delRole" => i.role \in Role
    BY <2>2 DEF Place, RoleOps
  <2>7. (~job[q].stale => Fresh(job[q]))'
    BY <1>1, <2>1, <2>4, <2>5, <2>6 DEF Fresh, NotTheLast, NotHeld, NotReferenced, Closes,
                                        RolesOf, IsAdmin, Admins
  <2>8. Locked(q, job[q], txn[q], lock)'
    BY <2>1 DEF Locked, Permits
  <2>. QED BY <2>3, <2>7, <2>8 DEF Local
<1>. QED BY <1>1, <1>2 DEF IInv

\* The start of a request, an exception, and a step to another place.
LEMMA BeginStep == ASSUME IInv, NEW r \in Req, NEW j, Begin(r, j), Local(j, NoWrite),
                          ~Done(j)
                   PROVE  IInv'
<1>1. txn[r] = NoWrite
  BY DEF Begin, At, IInv, Local, Writes, Done
<1>2. txn' = [txn EXCEPT ![r] = NoWrite]
  BY <1>1 DEF Begin, IInv
<1>. QED BY <1>2, OwnStep DEF Begin, Locked, Done, IInv

LEMMA RaiseStep == ASSUME IInv, NEW r \in Req, Raise(r) PROVE IInv'
BY BlankFits, OwnStep DEF Raise, Unlock, IInv

LEMMA GotoStep == ASSUME IInv, NEW r \in Req, NEW l \in PC, Goto(r, l),
                         Local([job[r] EXCEPT !.pc = l], txn[r]),
                         l \in {"chain", "commit"} =>
                           \/ /\ Locked(r, job[r], txn[r], lock)
                              /\ job[r].pc \in {"chain", "commit"}
                           \/ txn[r] = NoWrite
                  PROVE  IInv'
<1>. DEFINE j == [job[r] EXCEPT !.pc = l]
<1>1. job' = [job EXCEPT ![r] = j] /\ txn' = [txn EXCEPT ![r] = txn[r]]
  BY DEF Goto, IInv
<1>2. j.pc = l
  BY Moved DEF IInv, Local
<1>3. ~Permits(NoWrite)
  BY DEF Permits, NoWrite
<1>. HIDE DEF j
<1>4. Locked(r, j, txn[r], lock)
  BY <1>2, <1>3 DEF Locked
<1>5. Local(j, txn[r]) /\ UNCHANGED <<tables, lock>>
  BY DEF Goto, j
<1>. QED BY <1>1, <1>4, <1>5, OwnStep DEF IInv

LEMMA RequireStep == ASSUME IInv, NEW r \in Req, NEW ok, NEW l \in PC, Require(r, ok, l),
                            ok => Local([job[r] EXCEPT !.pc = l], txn[r]),
                            l \in {"chain", "commit"} =>
                              \/ /\ Locked(r, job[r], txn[r], lock)
                                 /\ job[r].pc \in {"chain", "commit"}
                              \/ txn[r] = NoWrite
                     PROVE  IInv'
BY GotoStep, RaiseStep DEF Require

LEMMA WriteStep == ASSUME IInv, NEW r \in Req, NEW ok, NEW w, NEW l \in PC, Write(r, ok, w, l),
                          ok => Local([job[r] EXCEPT !.pc = l], w),
                          l = "bump" \/ ~Permits(w)
                   PROVE  IInv'
<1>1. CASE ok
  <2>. DEFINE j == [job[r] EXCEPT !.pc = l]
  <2>1. job' = [job EXCEPT ![r] = j] /\ txn' = [txn EXCEPT ![r] = w] /\ UNCHANGED <<tables, lock>>
    BY <1>1 DEF Write, IInv
  <2>2. j.pc = l /\ Local(j, w)
    BY <1>1, Moved DEF IInv, Local
  <2>. HIDE DEF j
  <2>. QED BY <2>1, <2>2, OwnStep DEF Locked, IInv
<1>2. CASE ~ok
  BY <1>2, RaiseStep DEF Write
<1>. QED BY <1>1, <1>2

-------------------------------------------------------------------------------
\* Every operation begins with what its first statement has read.
LEMMA BeginSteps ==
    ASSUME IInv, NEW r \in Req,
           \/ \E c, p \in Role : BeginGrant(r, c, p) \/ BeginRevoke(r, c, p)
           \/ \E x \in Role : \/ BeginDeleteRole(r, x)
                              \/ \E s \in {"ACTIVE", "DISABLED"} : UpdateRole(r, x, s)
           \/ \E u \in User : \/ \E S \in SUBSET Role : BeginAssign(r, u, S)
                              \/ \E s \in {"ACTIVE", "DISABLED"} : BeginUserStatus(r, u, s)
                              \/ BeginDeleteUser(r, u)
    PROVE  IInv'
<1>1. ASSUME NEW c \in Role, NEW p \in Role, BeginGrant(r, c, p) PROVE IInv'
  <2>. DEFINE j == [Blank EXCEPT !.op = "grant", !.pc = "check", !.role = c, !.parent = p,
                                 !.exists = <<c, p>> \in edge]
  <2>1. /\ Shape(j) /\ j.op = "grant" /\ j.pc = "check" /\ j.role = c /\ j.parent = p
    <3>1. /\ DOMAIN j = DOMAIN Blank /\ j.stale = Blank.stale /\ j.op = "grant"
          /\ j.pc = "check" /\ j.role = c /\ j.parent = p
      BY DEF Blank
    <3>2. "grant" \in Op /\ "check" \in PC
      BY DEF Op, PC
    <3>. HIDE DEF j
    <3>. QED BY <3>1, <3>2, BlankShape DEF Shape
  <2>2. Begin(r, j) /\ c # p /\ ~role[c].deleted /\ ~role[p].deleted
    BY <1>1 DEF BeginGrant
  <2>. HIDE DEF j
  <2>3. Local(j, NoWrite) /\ ~Done(j)
    BY <2>1, <2>2 DEF Local, Place, Writes, Done, Fresh, RoleOps, UserOps, EdgeOps
  <2>. QED BY <2>2, <2>3, BeginStep
<1>2. ASSUME NEW c \in Role, NEW p \in Role, BeginRevoke(r, c, p) PROVE IInv'
  <2>. DEFINE j == [Blank EXCEPT !.op = "revoke", !.pc = "write", !.role = c, !.parent = p]
  <2>1. /\ Shape(j) /\ j.op = "revoke" /\ j.pc = "write" /\ j.role = c /\ j.parent = p
    <3>1. /\ DOMAIN j = DOMAIN Blank /\ j.stale = Blank.stale /\ j.op = "revoke"
          /\ j.pc = "write" /\ j.role = c /\ j.parent = p
      BY DEF Blank
    <3>2. "revoke" \in Op /\ "write" \in PC
      BY DEF Op, PC
    <3>. HIDE DEF j
    <3>. QED BY <3>1, <3>2, BlankShape DEF Shape
  <2>2. Begin(r, j) /\ c # p
    BY <1>2 DEF BeginRevoke
  <2>. HIDE DEF j
  <2>3. Local(j, NoWrite) /\ ~Done(j)
    BY <2>1, <2>2 DEF Local, Place, Writes, Done, Fresh, RoleOps, UserOps, EdgeOps
  <2>. QED BY <2>2, <2>3, BeginStep
<1>3. ASSUME NEW x \in Role, BeginDeleteRole(r, x) PROVE IInv'
  <2>. DEFINE c == Changed(role[x], [status |-> "DISABLED", deleted |-> TRUE])
              j == [Blank EXCEPT !.op = "delRole", !.pc = "holders", !.role = x, !.new = c]
  <2>1. Columns(c)
    BY DEF Changed, Columns
  <2>. HIDE DEF c
  <2>2. /\ Shape(j) /\ j.op = "delRole" /\ j.pc = "holders" /\ j.role = x /\ j.new = c
    <3>1. /\ DOMAIN j = DOMAIN Blank /\ j.stale = Blank.stale /\ j.op = "delRole"
          /\ j.pc = "holders" /\ j.role = x /\ j.new = c
      BY DEF Blank
    <3>2. "delRole" \in Op /\ "holders" \in PC
      BY DEF Op, PC
    <3>. HIDE DEF j
    <3>. QED BY <3>1, <3>2, BlankShape DEF Shape
  <2>3. Begin(r, j)
    BY <1>3 DEF BeginDeleteRole, c
  <2>. HIDE DEF j
  <2>4. Local(j, NoWrite) /\ ~Done(j)
    BY <2>1, <2>2 DEF Local, Place, Writes, Done, Fresh, RoleOps, UserOps, EdgeOps
  <2>. QED BY <2>3, <2>4, BeginStep
<1>4. ASSUME NEW x \in Role, NEW s \in {"ACTIVE", "DISABLED"}, UpdateRole(r, x, s) PROVE IInv'
  <2>. DEFINE c == [status |-> s]
              j == [Blank EXCEPT !.op = "roleStatus", !.pc = "write", !.role = x, !.new = c]
  <2>1. Columns(c) /\ "deleted" \notin DOMAIN c
    BY DEF Columns
  <2>. HIDE DEF c
  <2>2. /\ Shape(j) /\ j.op = "roleStatus" /\ j.pc = "write" /\ j.role = x /\ j.new = c
    <3>1. /\ DOMAIN j = DOMAIN Blank /\ j.stale = Blank.stale /\ j.op = "roleStatus"
          /\ j.pc = "write" /\ j.role = x /\ j.new = c
      BY DEF Blank
    <3>2. "roleStatus" \in Op /\ "write" \in PC
      BY DEF Op, PC
    <3>. HIDE DEF j
    <3>. QED BY <3>1, <3>2, BlankShape DEF Shape
  <2>3. Begin(r, j)
    BY <1>4 DEF UpdateRole, c
  <2>. HIDE DEF j
  <2>4. Local(j, NoWrite) /\ ~Done(j)
    BY <2>1, <2>2 DEF Local, Place, Writes, Done, Fresh, RoleOps, UserOps, EdgeOps
  <2>. QED BY <2>3, <2>4, BeginStep
<1>5. ASSUME NEW u \in User, NEW S \in SUBSET Role, BeginAssign(r, u, S) PROVE IInv'
  <2>. DEFINE j == [Blank EXCEPT !.op = "assign", !.pc = "before", !.user = u, !.roles = S]
  <2>1. /\ Shape(j) /\ j.op = "assign" /\ j.pc = "before" /\ j.user = u /\ j.roles = S
    <3>1. /\ DOMAIN j = DOMAIN Blank /\ j.stale = Blank.stale /\ j.op = "assign"
          /\ j.pc = "before" /\ j.user = u /\ j.roles = S
      BY DEF Blank
    <3>2. "assign" \in Op /\ "before" \in PC
      BY DEF Op, PC
    <3>. HIDE DEF j
    <3>. QED BY <3>1, <3>2, BlankShape DEF Shape
  <2>2. Begin(r, j) /\ \A x \in S : ~role[x].deleted
    BY <1>5 DEF BeginAssign
  <2>. HIDE DEF j
  <2>3. Local(j, NoWrite) /\ ~Done(j)
    BY <2>1, <2>2 DEF Local, Place, Writes, Done, Fresh, RoleOps, UserOps, EdgeOps
  <2>. QED BY <2>2, <2>3, BeginStep
<1>6. ASSUME NEW u \in User, NEW s \in {"ACTIVE", "DISABLED"}, BeginUserStatus(r, u, s)
      PROVE  IInv'
  <2>. DEFINE c == [status |-> s]
              l == IF s = "DISABLED" THEN "who" ELSE "write"
              j == [Blank EXCEPT !.op = "userStatus", !.user = u, !.new = c, !.pc = l]
  <2>1. Columns(c) /\ "deleted" \notin DOMAIN c /\ l \in {"who", "write"}
    BY DEF Columns
  <2>2. Begin(r, j)
    BY <1>6 DEF BeginUserStatus
  <2>. HIDE DEF c, l
  <2>3. /\ Shape(j) /\ j.op = "userStatus" /\ j.pc = l /\ j.user = u /\ j.new = c
    <3>1. /\ DOMAIN j = DOMAIN Blank /\ j.stale = Blank.stale /\ j.op = "userStatus"
          /\ j.pc = l /\ j.user = u /\ j.new = c
      BY DEF Blank
    <3>2. "userStatus" \in Op /\ l \in PC
      BY <2>1 DEF Op, PC
    <3>. HIDE DEF j
    <3>. QED BY <3>1, <3>2, BlankShape DEF Shape
  <2>. HIDE DEF j
  <2>4. Local(j, NoWrite) /\ ~Done(j)
    BY <2>1, <2>3 DEF Local, Place, Writes, Done, Fresh, RoleOps, UserOps, EdgeOps
  <2>. QED BY <2>2, <2>4, BeginStep
<1>7. ASSUME NEW u \in User, BeginDeleteUser(r, u) PROVE IInv'
  <2>. DEFINE c == Changed(user[u], [status |-> "DISABLED", deleted |-> TRUE])
              j == [Blank EXCEPT !.op = "delUser", !.pc = "who", !.user = u, !.new = c]
  <2>1. Columns(c)
    BY DEF Changed, Columns
  <2>. HIDE DEF c
  <2>2. /\ Shape(j) /\ j.op = "delUser" /\ j.pc = "who" /\ j.user = u /\ j.new = c
    <3>1. /\ DOMAIN j = DOMAIN Blank /\ j.stale = Blank.stale /\ j.op = "delUser"
          /\ j.pc = "who" /\ j.user = u /\ j.new = c
      BY DEF Blank
    <3>2. "delUser" \in Op /\ "who" \in PC
      BY DEF Op, PC
    <3>. HIDE DEF j
    <3>. QED BY <3>1, <3>2, BlankShape DEF Shape
  <2>3. Begin(r, j)
    BY <1>7 DEF BeginDeleteUser, c
  <2>. HIDE DEF j
  <2>4. Local(j, NoWrite) /\ ~Done(j)
    BY <2>1, <2>2 DEF Local, Place, Writes, Done, Fresh, RoleOps, UserOps, EdgeOps
  <2>. QED BY <2>3, <2>4, BeginStep
<1>. QED BY <1>1, <1>2, <1>3, <1>4, <1>5, <1>6, <1>7

-------------------------------------------------------------------------------
\* The checks of a request, which change nothing but what it knows.
LEMMA CheckSteps ==
    ASSUME IInv, NEW r \in Req,
           \/ CheckGrant(r) \/ ListChain(r) \/ CountHolders(r) \/ CountReferences(r)
           \/ AskAdmin(r) \/ CountAdmins(r)
    PROVE  IInv'
<1>. DEFINE j(l) == [job[r] EXCEPT !.pc = l]
<1>1. Local(job[r], txn[r]) /\ Locked(r, job[r], txn[r], lock)
  BY DEF IInv
<1>2. \A l \in PC :
         /\ Shape(j(l)) /\ j(l).pc = l /\ j(l).op = job[r].op /\ j(l).role = job[r].role
         /\ j(l).parent = job[r].parent /\ j(l).user = job[r].user
         /\ j(l).roles = job[r].roles /\ j(l).new = job[r].new
         /\ j(l).stale = job[r].stale
  BY <1>1, Moved DEF Local
<1>3. \A l \in {"check", "holders", "refs", "who", "count", "write", "chain", "commit"} : l \in PC
  BY DEF PC
<1>4. CASE CheckGrant(r)
  <2>1. PICK l \in {"chain", "write"} : Require(r, ~Closes(job[r].role, job[r].parent), l)
    BY <1>4 DEF CheckGrant
  <2>2. job[r].op = "grant" /\ job[r].pc = "check" /\ txn[r] = NoWrite
    BY <1>1, <1>4 DEF CheckGrant, At, Local, Place, Writes, Done
  <2>. HIDE DEF j
  <2>3. ~Closes(job[r].role, job[r].parent) => Local(j(l), txn[r])
    BY <1>1, <1>2, <1>3, <2>2
       DEF Local, Place, Writes, Done, Fresh, RoleOps, UserOps, EdgeOps
  <2>. QED BY <1>3, <2>1, <2>2, <2>3, RequireStep DEF j
<1>5. CASE ListChain(r)
  <2>1. Require(r, ~role[job[r].role].deleted, "commit")
    BY <1>5 DEF ListChain
  <2>2. job[r].op \in EdgeOps /\ job[r].pc = "chain"
    BY <1>1, <1>5 DEF ListChain, At, Local, Place
  <2>. HIDE DEF j
  <2>3. Local(j("commit"), txn[r])
    BY <1>1, <1>2, <1>3, <2>2
       DEF Local, Place, Writes, Done, Fresh, RoleOps, UserOps, EdgeOps
  <2>. QED BY <1>1, <1>3, <2>1, <2>2, <2>3, RequireStep DEF j
<1>6. CASE CountHolders(r)
  <2>1. Require(r, NotHeld(job[r].role), "refs")
    BY <1>6 DEF CountHolders
  <2>2. job[r].op = "delRole" /\ job[r].pc = "holders" /\ txn[r] = NoWrite
    BY <1>1, <1>6 DEF CountHolders, At, Local, Place, Writes, Done
  <2>. HIDE DEF j
  <2>3. NotHeld(job[r].role) => Local(j("refs"), txn[r])
    BY <1>1, <1>2, <1>3, <2>2
       DEF Local, Place, Writes, Done, Fresh, RoleOps, UserOps, EdgeOps
  <2>. QED BY <1>3, <2>1, <2>2, <2>3, RequireStep DEF j
<1>7. CASE CountReferences(r)
  <2>1. Require(r, NotReferenced(job[r].role), "write")
    BY <1>7 DEF CountReferences
  <2>2. job[r].op = "delRole" /\ job[r].pc = "refs" /\ txn[r] = NoWrite
    BY <1>1, <1>7 DEF CountReferences, At, Local, Place, Writes, Done
  <2>. HIDE DEF j
  <2>3. NotReferenced(job[r].role) => Local(j("write"), txn[r])
    BY <1>1, <1>2, <1>3, <2>2
       DEF Local, Place, Writes, Done, Fresh, RoleOps, UserOps, EdgeOps
  <2>. QED BY <1>3, <2>1, <2>2, <2>3, RequireStep DEF j
<1>8. CASE AskAdmin(r)
  <2>1. Goto(r, IF IsAdmin(job[r].user) THEN "count" ELSE "write")
    BY <1>8 DEF AskAdmin
  <2>2. job[r].op \in UserOps /\ job[r].pc = "who" /\ txn[r] = NoWrite
    BY <1>1, <1>8 DEF AskAdmin, At, Local, Place, Writes, Done
  <2>. HIDE DEF j
  <2>3. Local(j("count"), txn[r]) /\ (~IsAdmin(job[r].user) => Local(j("write"), txn[r]))
    BY <1>1, <1>2, <1>3, <2>2
       DEF Local, Place, Writes, Done, Fresh, RoleOps, UserOps, EdgeOps
  <2>. QED BY <1>3, <2>1, <2>2, <2>3, GotoStep DEF j
<1>9. CASE CountAdmins(r)
  <2>1. Require(r, NotTheLast(Cardinality(Admins)), "write")
    BY <1>9 DEF CountAdmins
  <2>2. job[r].op \in UserOps /\ job[r].pc = "count" /\ txn[r] = NoWrite
    BY <1>1, <1>9 DEF CountAdmins, At, Local, Place, Writes, Done
  <2>. HIDE DEF j
  <2>3. NotTheLast(Cardinality(Admins)) => Local(j("write"), txn[r])
    BY <1>1, <1>2, <1>3, <2>2
       DEF Local, Place, Writes, Done, Fresh, RoleOps, UserOps, EdgeOps
  <2>. QED BY <1>3, <2>1, <2>2, <2>3, RequireStep DEF j
<1>. QED BY <1>4, <1>5, <1>6, <1>7, <1>8, <1>9

-------------------------------------------------------------------------------
\* The statements that write.
LEMMA WriteSteps ==
    ASSUME IInv, NEW r \in Req,
           InsertEdge(r) \/ DeleteEdge(r) \/ WriteRole(r) \/ ReplaceRoles(r) \/ WriteUser(r)
    PROVE  IInv'
<1>. DEFINE j(l) == [job[r] EXCEPT !.pc = l]
<1>1. Local(job[r], txn[r]) /\ job[r].pc = "write"
  BY DEF IInv, InsertEdge, DeleteEdge, WriteRole, ReplaceRoles, WriteUser, At
<1>2. \A l \in PC :
         /\ Shape(j(l)) /\ j(l).pc = l /\ j(l).op = job[r].op /\ j(l).role = job[r].role
         /\ j(l).parent = job[r].parent /\ j(l).user = job[r].user
         /\ j(l).roles = job[r].roles /\ j(l).new = job[r].new
         /\ j(l).stale = job[r].stale
  BY <1>1, Moved DEF Local
<1>3. "bump" \in PC /\ "commit" \in PC
  BY DEF PC
<1>. HIDE DEF j
<1>4. ASSUME NEW w, job[r].op \notin UserOps,
             \/ job[r].op = "grant" /\ w = [NoWrite EXCEPT !.add = {<<job[r].role, job[r].parent>>}]
             \/ job[r].op = "revoke" /\ \E E \in SUBSET {<<job[r].role, job[r].parent>>} :
                                            w = [NoWrite EXCEPT !.del = E]
             \/ job[r].op \in RoleOps /\ w = [NoWrite EXCEPT !.role = job[r].new]
             \/ job[r].op = "assign"
                /\ w = [NoWrite EXCEPT !.give = {job[r].user} \X (job[r].roles \ job[r].new),
                                       !.take = {job[r].user} \X ToRemove(job[r].new, job[r].roles)]
      PROVE  Local(j("bump"), w)
  <2>1. Shape(j("bump")) /\ Place(j("bump"))
    BY <1>1, <1>2, <1>3, <1>4 DEF Local, Place, RoleOps, UserOps, EdgeOps
  <2>2. Writes(j("bump"), w)
    BY <1>2, <1>3, <1>4 DEF Writes, Done
  <2>3. ~j("bump").stale => Fresh(j("bump"))
    BY <1>1, <1>2, <1>3, <1>4 DEF Local, Fresh, UserOps
  <2>. QED BY <2>1, <2>2, <2>3 DEF Local
<1>5. CASE InsertEdge(r)
  BY <1>3, <1>4, <1>5, WriteStep DEF InsertEdge, UserOps, j
<1>6. CASE DeleteEdge(r)
  <2>. DEFINE e == <<job[r].role, job[r].parent>>
              w == [NoWrite EXCEPT !.del = {e} \intersect edge]
  <2>1. Write(r, e \in edge, w, "bump") /\ job[r].op = "revoke"
    BY <1>6 DEF DeleteEdge
  <2>2. {e} \intersect edge \in SUBSET {<<job[r].role, job[r].parent>>}
    OBVIOUS
  <2>3. Local(j("bump"), w)
    BY <1>4, <2>1, <2>2 DEF UserOps
  <2>. HIDE DEF w, e
  <2>. QED BY <1>3, <2>1, <2>3, WriteStep DEF j
<1>7. CASE WriteRole(r)
  BY <1>3, <1>4, <1>7, WriteStep DEF WriteRole, UserOps, RoleOps, j
<1>8. CASE ReplaceRoles(r)
  <2>. DEFINE add == {job[r].user} \X (job[r].roles \ job[r].new)
              w == [NoWrite EXCEPT !.give = add,
                                   !.take = {job[r].user} \X ToRemove(job[r].new, job[r].roles)]
  <2>1. Write(r, add \intersect holds = {}, w, "bump") /\ job[r].op = "assign"
    BY <1>8 DEF ReplaceRoles
  <2>2. Local(j("bump"), w)
    BY <1>4, <2>1 DEF UserOps
  <2>. HIDE DEF w, add
  <2>. QED BY <1>3, <2>1, <2>2, WriteStep DEF j
<1>9. CASE WriteUser(r)
  <2>. DEFINE w == [NoWrite EXCEPT !.user = job[r].new]
  <2>1. Write(r, TRUE, w, "commit") /\ job[r].op \in UserOps
    BY <1>9 DEF WriteUser, UserOps
  <2>2. ~Permits(w)
    BY DEF Permits, NoWrite
  <2>3. Local(j("commit"), w)
    <3>1. Shape(j("commit")) /\ Place(j("commit"))
      BY <1>1, <1>2, <1>3, <2>1 DEF Local, Place, RoleOps, UserOps, EdgeOps
    <3>2. Writes(j("commit"), w)
      BY <1>2, <1>3, <2>1 DEF Writes, Done
    <3>3. ~j("commit").stale => Fresh(j("commit"))
      BY <1>1, <1>2, <1>3, <2>1 DEF Local, Fresh, UserOps
    <3>. QED BY <3>1, <3>2, <3>3 DEF Local
  <2>. HIDE DEF w
  <2>. QED BY <1>3, <2>1, <2>2, <2>3, WriteStep DEF j
<1>. QED BY <1>5, <1>6, <1>7, <1>8, <1>9

\* The roles a user holds are read; the version row is locked.
LEMMA ReadBeforeStep == ASSUME IInv, NEW r \in Req, ReadBefore(r) PROVE IInv'
<1>. DEFINE j == [job[r] EXCEPT !.pc = "write", !.new = RolesOf(job[r].user)]
<1>1. /\ Local(job[r], txn[r]) /\ job[r].pc = "before" /\ UNCHANGED <<tables, lock, txn>>
      /\ job' = [job EXCEPT ![r] = j] /\ txn' = [txn EXCEPT ![r] = txn[r]]
  BY DEF ReadBefore, At, IInv
<1>2. /\ Shape(j) /\ j.pc = "write" /\ j.op = job[r].op /\ j.role = job[r].role
      /\ j.parent = job[r].parent /\ j.user = job[r].user /\ j.roles = job[r].roles
      /\ j.new = RolesOf(job[r].user) /\ j.stale = job[r].stale
  <2>1. "write" \in PC
    BY DEF PC
  <2>. QED BY <1>1, <2>1 DEF Local, Shape, Fields
<1>. HIDE DEF j
<1>3. Local(j, txn[r])
  <2>1. job[r].op = "assign" /\ txn[r] = NoWrite /\ RolesOf(job[r].user) \subseteq Role
    BY <1>1 DEF Local, Place, Writes, Done, RolesOf
  <2>. QED BY <1>1, <1>2, <2>1
           DEF Local, Place, Writes, Done, Fresh, RoleOps, UserOps, EdgeOps
<1>. QED BY <1>1, <1>2, <1>3, OwnStep DEF Locked, IInv

LEMMA BumpStep == ASSUME IInv, NEW r \in Req, Bump(r) PROVE IInv'
<1>1. PICK l \in {"chain", "commit"} : /\ job' = [job EXCEPT ![r].pc = l]
                                       /\ (l = "chain" <=> job[r].op \in EdgeOps)
  BY DEF Bump, EdgeOps
<1>. DEFINE j == [job[r] EXCEPT !.pc = l]
<1>2. /\ Local(job[r], txn[r]) /\ job[r].pc = "bump" /\ UNCHANGED tables
      /\ lock = None /\ lock' = r
      /\ job' = [job EXCEPT ![r] = j] /\ txn' = [txn EXCEPT ![r] = txn[r]]
  <2>1. job[r].pc = "bump" /\ UNCHANGED <<tables, txn>> /\ lock = None /\ lock' = r
    BY DEF Bump, At, Free
  <2>2. job' = [job EXCEPT ![r] = j]
    BY <1>1 DEF IInv
  <2>3. Local(job[r], txn[r]) /\ txn = [txn EXCEPT ![r] = txn[r]]
    BY DEF IInv
  <2>. QED BY <2>1, <2>2, <2>3
<1>3. /\ Shape(j) /\ j.pc = l /\ j.op = job[r].op /\ j.role = job[r].role
      /\ j.parent = job[r].parent /\ j.user = job[r].user /\ j.roles = job[r].roles
      /\ j.new = job[r].new /\ j.stale = job[r].stale
  <2>1. l \in PC
    BY DEF PC
  <2>. QED BY <1>2, <2>1, Moved DEF Local
<1>. HIDE DEF j
<1>4. Shape(j) /\ Place(j)
  <2>1. Place(job[r])
    BY <1>2 DEF Local
  <2>. QED BY <1>1, <1>2, <1>3, <2>1 DEF Place
<1>5. Writes(j, txn[r])
  BY <1>2, <1>3 DEF Local, Writes, Done
<1>6. ~j.stale => Fresh(j)
  BY <1>2, <1>3 DEF Local, Fresh
<1>. QED BY <1>2, <1>4, <1>5, <1>6, RoleAssumption, OwnStep DEF Local, Locked

-------------------------------------------------------------------------------
\* What a commit does to the tables, by the operation of the request.
Same == UNCHANGED <<role, user, edge, holds>>

RoleSet(x, c) == role' = [y \in Role |-> IF y = x THEN Set(role[y], c) ELSE role[y]]
UserSet(u, c) == user' = [v \in User |-> IF v = u THEN Set(user[v], c) ELSE user[v]]

Effect(j) ==
    \/ j.op \in EdgeOps /\ Same
    \/ j.op = "grant" /\ edge' = edge \union {<<j.role, j.parent>>}
                      /\ UNCHANGED <<role, user, holds>>
    \/ j.op = "revoke" /\ edge' \subseteq edge /\ UNCHANGED <<role, user, holds>>
    \/ j.op \in RoleOps /\ RoleSet(j.role, j.new) /\ UNCHANGED <<user, edge, holds>>
    \/ j.op \in UserOps /\ UserSet(j.user, j.new) /\ UNCHANGED <<role, edge, holds>>
    \/ j.op = "assign"
       /\ holds' = (holds \ ({j.user} \X ToRemove(j.new, j.roles)))
                      \union ({j.user} \X (j.roles \ j.new))
       /\ UNCHANGED <<role, user, edge>>

LEMMA CommitEffect == ASSUME IInv, NEW r \in Req, Commit(r)
                      PROVE  /\ job[r].pc = "commit" /\ Local(job[r], txn[r])
                             /\ Effect(job[r])
                             /\ ~Permits(txn[r]) => UNCHANGED <<role, edge, holds>>
<1>. DEFINE j == job[r]
            w == txn[r]
<1>1. job[r].pc = "commit" /\ Local(j, w) /\ Place(j) /\ Writes(j, w)
  BY DEF Commit, At, IInv, Local
<1>2. /\ RoleSet(j.role, w.role) /\ UserSet(j.user, w.user)
      /\ edge' = (edge \ w.del) \union w.add /\ holds' = (holds \ w.take) \union w.give
  BY DEF Commit, RoleSet, UserSet
<1>. HIDE DEF j, w
<1>3. w.role = <<>> => role' = role
  <2>1. w.role = <<>> => role' = [y \in Role |-> role[y]]
    BY <1>2, SetNothing DEF RoleSet, IInv
  <2>. QED BY <2>1 DEF IInv
<1>4. w.user = <<>> => user' = user
  <2>1. w.user = <<>> => user' = [v \in User |-> user[v]]
    BY <1>2, SetNothing DEF UserSet, IInv
  <2>. QED BY <2>1 DEF IInv
<1>5. Effect(j)
  <2>1. j.pc = "commit"
    BY <1>1 DEF j
  <2>2. CASE j.op \in EdgeOps /\ w = NoWrite
    BY <2>2, <1>2, <1>3, <1>4 DEF NoWrite, Effect, Same
  <2>3. CASE j.op = "grant" /\ w = [NoWrite EXCEPT !.add = {<<j.role, j.parent>>}]
    <3>1. w.role = <<>> /\ w.user = <<>> /\ w.del = {} /\ w.give = {} /\ w.take = {}
          /\ w.add = {<<j.role, j.parent>>}
      BY <2>3 DEF NoWrite
    <3>. QED BY <2>3, <3>1, <1>2, <1>3, <1>4 DEF Effect
  <2>4. CASE j.op = "revoke" /\ \E E \in SUBSET {<<j.role, j.parent>>} :
                                   w = [NoWrite EXCEPT !.del = E]
    <3>1. w.role = <<>> /\ w.user = <<>> /\ w.add = {} /\ w.give = {} /\ w.take = {}
      BY <2>4 DEF NoWrite
    <3>. QED BY <2>4, <3>1, <1>2, <1>3, <1>4 DEF Effect
  <2>5. CASE j.op \in RoleOps /\ w = [NoWrite EXCEPT !.role = j.new]
    <3>1. /\ w.role = j.new /\ w.user = <<>> /\ w.add = {} /\ w.del = {} /\ w.give = {}
          /\ w.take = {}
      BY <2>5 DEF NoWrite
    <3>. QED BY <2>5, <3>1, <1>2, <1>4 DEF Effect
  <2>6. CASE j.op \in UserOps /\ w = [NoWrite EXCEPT !.user = j.new]
    <3>1. /\ w.role = <<>> /\ w.user = j.new /\ w.add = {} /\ w.del = {} /\ w.give = {}
          /\ w.take = {}
      BY <2>6 DEF NoWrite
    <3>. QED BY <2>6, <3>1, <1>2, <1>3 DEF Effect
  <2>7. CASE /\ j.op = "assign"
             /\ w = [NoWrite EXCEPT !.give = {j.user} \X (j.roles \ j.new),
                                    !.take = {j.user} \X ToRemove(j.new, j.roles)]
    <3>1. /\ w.role = <<>> /\ w.user = <<>> /\ w.add = {} /\ w.del = {}
          /\ w.give = {j.user} \X (j.roles \ j.new)
          /\ w.take = {j.user} \X ToRemove(j.new, j.roles)
      BY <2>7 DEF NoWrite
    <3>. QED BY <2>7, <3>1, <1>2, <1>3, <1>4 DEF Effect
  <2>. QED BY <1>1, <2>1, <2>2, <2>3, <2>4, <2>5, <2>6, <2>7 DEF Writes, Done
<1>6. ~Permits(w) => UNCHANGED <<role, edge, holds>>
  <2>. SUFFICES ASSUME ~Permits(w) PROVE UNCHANGED <<role, edge, holds>>
    OBVIOUS
  <2>1. w.role = <<>> /\ w.add = {} /\ w.del = {} /\ w.give = {} /\ w.take = {}
    BY DEF Permits
  <2>. QED BY <2>1, <1>2, <1>3
<1>. QED BY <1>1, <1>5, <1>6 DEF j, w

LEMMA CommitStep == ASSUME IInv, NEW r \in Req, Commit(r) PROVE IInv'
<1>. DEFINE j == job[r]
<1>1. Place(j) /\ Effect(j) /\ j.pc = "commit"
  BY CommitEffect DEF Local
<1>. HIDE DEF j
<1>2. role' \in [Role -> Row] /\ user' \in [User -> Row]
  <2>1. j.op \in RoleOps \union UserOps => Columns(j.new)
    BY <1>1 DEF Place
  <2>2. CASE RoleSet(j.role, j.new) /\ user' = user /\ j.op \in RoleOps
    BY <2>1, <2>2, SetRow DEF RoleSet, IInv
  <2>3. CASE UserSet(j.user, j.new) /\ role' = role /\ j.op \in UserOps
    BY <2>1, <2>3, SetRow DEF UserSet, IInv
  <2>. QED BY <1>1, <2>2, <2>3 DEF Effect, Same, IInv
<1>3. edge' \subseteq Edge
  BY <1>1 DEF Effect, Same, IInv, Place, EdgeOps, Edge
<1>4. holds' \subseteq Held
  <2>1. CASE holds' = holds
    BY <2>1 DEF IInv
  <2>2. CASE /\ j.op = "assign"
             /\ holds' = (holds \ ({j.user} \X ToRemove(j.new, j.roles)))
                            \union ({j.user} \X (j.roles \ j.new))
    <3>1. j.user \in User /\ j.roles \subseteq Role
      BY <1>1, <2>2 DEF Place
    <3>. QED BY <2>2, <3>1 DEF IInv, Held
  <2>. QED BY <1>1, <2>1, <2>2 DEF Effect, Same
<1>5. /\ version' \in Nat /\ lock' \in Req \union {None}
      /\ \A q \in Req \ {r} : lock = q => lock' = q
  BY DEF Commit, Bumped, Unlock, IInv
<1>6. /\ job' = [q \in Req |-> IF q = r \/ At(q, "idle") THEN Blank
                                 ELSE [job[q] EXCEPT !.stale = TRUE]]
      /\ txn' = [txn EXCEPT ![r] = NoWrite]
  BY DEF Commit
<1>7. job' = [q \in Req |-> job'[q]] /\ txn' = [q \in Req |-> txn'[q]]
  BY <1>6 DEF IInv
<1>8. ASSUME NEW q \in Req
      PROVE  Local(job[q], txn[q])' /\ Locked(q, job[q], txn[q], lock)'
  <2>1. CASE q = r \/ At(q, "idle")
    <3>1. job'[q] = Blank /\ txn'[q] = NoWrite
      <4>1. txn'[r] = NoWrite /\ (q # r => txn'[q] = txn[q])
        BY <1>6 DEF IInv
      <4>2. At(q, "idle") => txn[q] = NoWrite
        BY DEF At, IInv, Local, Writes, Done
      <4>. QED BY <2>1, <1>6, <4>1, <4>2
    <3>2. Blank.pc = "idle" /\ Blank.op = "none"
      BY DEF Blank
    <3>. QED BY <3>1, <3>2, BlankShape
         DEF Local, Shape, Place, Writes, Done, Fresh, Locked, RoleOps, UserOps, EdgeOps
  <2>2. CASE ~(q = r \/ At(q, "idle"))
    <3>1. txn'[q] = txn[q] /\ job'[q] = [job[q] EXCEPT !.stale = TRUE]
      BY <2>2, <1>6 DEF IInv
    <3>2. Local(job[q], txn[q]) /\ Locked(q, job[q], txn[q], lock)
      BY DEF IInv
    <3>. DEFINE i == job'[q]
    <3>3. /\ Shape(i) /\ i.stale = TRUE /\ i.pc = job[q].pc /\ i.op = job[q].op
          /\ i.role = job[q].role /\ i.parent = job[q].parent /\ i.user = job[q].user
          /\ i.roles = job[q].roles /\ i.new = job[q].new
      BY <3>1, <3>2 DEF Local, Shape, Fields
    <3>. HIDE DEF i
    <3>4. Place(i)
      BY <3>2, <3>3 DEF Local, Place
    <3>5. Writes(i, txn[q])
      BY <3>2, <3>3 DEF Local, Writes, Done
    <3>6. Locked(q, i, txn[q], lock')
      BY <2>2, <3>2, <3>3, <1>5 DEF Locked
    <3>7. Shape(job[q])'
      BY <3>3 DEF Shape, i
    <3>8. Place(job[q])'
      BY <3>4 DEF Place, Columns, i
    <3>9. Writes(job[q], txn[q])'
      BY <3>1, <3>5 DEF Writes, Done, ToRemove, i
    <3>10. Locked(q, job[q], txn[q], lock)'
      BY <3>1, <3>6 DEF Locked, Permits, i
    <3>. QED BY <3>3, <3>7, <3>8, <3>9, <3>10 DEF Local, i
  <2>. QED BY <2>1, <2>2
<1>. QED BY <1>2, <1>3, <1>4, <1>5, <1>7, <1>8 DEF IInv

LEMMA StepIInv == ASSUME IInv, [Next]_vars PROVE IInv'
<1>1. CASE Next
  <2>1. PICK r \in Req :
           \/ \E c, p \in Role : BeginGrant(r, c, p) \/ BeginRevoke(r, c, p)
           \/ CheckGrant(r) \/ InsertEdge(r) \/ DeleteEdge(r) \/ ListChain(r)
           \/ \E x \in Role : \/ BeginDeleteRole(r, x)
                              \/ \E s \in {"ACTIVE", "DISABLED"} : UpdateRole(r, x, s)
           \/ CountHolders(r) \/ CountReferences(r) \/ WriteRole(r)
           \/ \E u \in User : \/ \E S \in SUBSET Role : BeginAssign(r, u, S)
                              \/ \E s \in {"ACTIVE", "DISABLED"} : BeginUserStatus(r, u, s)
                              \/ BeginDeleteUser(r, u)
           \/ ReadBefore(r) \/ ReplaceRoles(r) \/ Bump(r) \/ AskAdmin(r) \/ CountAdmins(r)
           \/ WriteUser(r) \/ Commit(r)
    BY <1>1 DEF Next
  <2>. QED BY <2>1, BeginSteps, CheckSteps, WriteSteps, ReadBeforeStep, BumpStep, CommitStep
<1>2. CASE UNCHANGED vars
  <2>1. UNCHANGED tables /\ UNCHANGED <<lock, job, txn>>
    BY <1>2 DEF vars, tables
  <2>2. CASE \E r \in Req : TRUE
    <3>1. PICK r \in Req : TRUE
      BY <2>2
    <3>2. job' = [job EXCEPT ![r] = job[r]] /\ txn' = [txn EXCEPT ![r] = txn[r]]
      BY <2>1 DEF IInv
    <3>. QED BY <2>1, <3>2, OwnStep DEF IInv
  <2>3. CASE Req = {}
    BY <2>1, <2>3 DEF IInv, tables
  <2>. QED BY <2>2, <2>3
<1>. QED BY <1>1, <1>2
-------------------------------------------------------------------------------
\* The ancestors of a role in an inheritance E are the least set that contains
\* what the role and the members of the set inherit from.
Closed(E, S, x) == {e[2] : e \in {e \in E : e[1] \in S \union {x}}} \subseteq S

Anc(E, x) == {a \in Role : \A S \in SUBSET Role : Closed(E, S, x) => a \in S}

LEMMA AncestorsAre == \A x : Ancestors(x) = Anc(edge, x) /\ Ancestors(x)' = Anc(edge', x)
BY DEF Ancestors, Anc, Closed

LEMMA AncClosed == ASSUME NEW E \in SUBSET Edge, NEW x
                   PROVE  Closed(E, Anc(E, x), x)
<1>1. ASSUME NEW e \in E, e[1] \in Anc(E, x) \union {x} PROVE e[2] \in Anc(E, x)
  <2>1. e[2] \in Role
    BY DEF Edge
  <2>2. ASSUME NEW S \in SUBSET Role, Closed(E, S, x) PROVE e[2] \in S
    <3>1. Anc(E, x) \subseteq S
      BY <2>2 DEF Anc
    <3>. QED BY <1>1, <2>2, <3>1 DEF Closed
  <2>. QED BY <2>1, <2>2 DEF Anc
<1>. QED BY <1>1 DEF Closed

LEMMA AncLeast == ASSUME NEW E, NEW x, NEW S \in SUBSET Role, Closed(E, S, x)
                  PROVE  Anc(E, x) \subseteq S
BY DEF Anc

LEMMA AncIn == ASSUME NEW E, NEW x PROVE Anc(E, x) \in SUBSET Role
BY DEF Anc

\* The ancestors of an ancestor are ancestors.
LEMMA AncTransitive == ASSUME NEW E \in SUBSET Edge, NEW x, NEW a \in Anc(E, x)
                       PROVE  Anc(E, a) \subseteq Anc(E, x)
<1>1. Closed(E, Anc(E, x), a)
  BY AncClosed DEF Closed
<1>. QED BY <1>1, AncLeast, AncIn

\* Less inheritance, fewer ancestors.
LEMMA AncMonotone == ASSUME NEW E \in SUBSET Edge, NEW F \in SUBSET E, NEW x
                     PROVE  Anc(F, x) \subseteq Anc(E, x)
<1>1. Closed(F, Anc(E, x), x)
  BY AncClosed DEF Closed
<1>. QED BY <1>1, AncLeast, AncIn

\* What one more inheritance adds: the new parent and its ancestors.
LEMMA AncAdd == ASSUME NEW E \in SUBSET Edge, NEW c \in Role, NEW p \in Role, NEW x
                PROVE  /\ x = c \/ c \in Anc(E, x)
                          => Anc(E \union {<<c, p>>}, x) \subseteq Anc(E, x) \union {p} \union Anc(E, p)
                       /\ ~(x = c \/ c \in Anc(E, x))
                          => Anc(E \union {<<c, p>>}, x) \subseteq Anc(E, x)
<1>. DEFINE F == E \union {<<c, p>>}
            A == Anc(E, x)
            B == {p} \union Anc(E, p)
<1>1. /\ \A e \in E : e[1] \in A \union {x} => e[2] \in A
      /\ \A e \in E : e[1] \in B => e[2] \in B
  <2>1. Closed(E, A, x) /\ Closed(E, Anc(E, p), p)
    BY AncClosed
  <2>. QED BY <2>1 DEF Closed
<1>2. A \subseteq Role /\ B \subseteq Role
  BY AncIn
<1>3. p \in B
  OBVIOUS
<1>4. \A e \in F : e \in E \/ (e[1] = c /\ e[2] = p)
  OBVIOUS
<1>5. A = Anc(E, x) /\ A \union B = Anc(E, x) \union {p} \union Anc(E, p)
  OBVIOUS
<1>. HIDE DEF A, B, F
<1>6. ASSUME x = c \/ c \in A PROVE Closed(F, A \union B, x)
  BY <1>1, <1>3, <1>4, <1>6 DEF Closed
<1>7. ASSUME ~(x = c \/ c \in A) PROVE Closed(F, A, x)
  BY <1>1, <1>4, <1>7 DEF Closed
<1>8. x = c \/ c \in A => Anc(F, x) \subseteq A \union B
  BY <1>2, <1>6, AncLeast
<1>9. ~(x = c \/ c \in A) => Anc(F, x) \subseteq A
  BY <1>2, <1>7, AncLeast
<1>. QED BY <1>5, <1>8, <1>9 DEF F

\* The check of grant is the right one.
LEMMA AddKeepsAcyclic ==
    ASSUME NEW E \in SUBSET Edge, \A x \in Role : x \notin Anc(E, x),
           NEW c \in Role, NEW p \in Role, c # p, c \notin Anc(E, p)
    PROVE  \A x \in Role : x \notin Anc(E \union {<<c, p>>}, x)
<1>. SUFFICES ASSUME NEW x \in Role, x \in Anc(E \union {<<c, p>>}, x)
              PROVE  FALSE
  OBVIOUS
<1>1. (x = c \/ c \in Anc(E, x)) /\ (x = p \/ x \in Anc(E, p))
  BY AncAdd
<1>2. CASE x = p
  BY <1>1, <1>2
<1>3. CASE x \in Anc(E, p)
  <2>1. Anc(E, x) \subseteq Anc(E, p)
    BY <1>3, AncTransitive
  <2>. QED BY <1>1, <1>3, <2>1
<1>. QED BY <1>1, <1>2, <1>3

-------------------------------------------------------------------------------
\* A step of a request that is not at its last place, and touches nothing else.
Quiet(q) == /\ UNCHANGED tables /\ job[q].pc # "commit"
            /\ \A r \in Req \ {q} : job'[r] = job[r]

LEMMA QuietIf == ASSUME IInv, NEW q \in Req, NEW j, job' = [job EXCEPT ![q] = j],
                        UNCHANGED tables, job[q].pc # "commit"
                 PROVE  Quiet(q)
BY DEF IInv, Quiet

LEMMA QuietBegin == ASSUME IInv, NEW q \in Req, NEW j, Begin(q, j) PROVE Quiet(q)
BY QuietIf DEF Begin, At

LEMMA QuietGoto == ASSUME IInv, NEW q \in Req, NEW l, Goto(q, l), job[q].pc # "commit"
                   PROVE  Quiet(q)
<1>1. job' = [job EXCEPT ![q] = [job[q] EXCEPT !.pc = l]] /\ UNCHANGED tables
  BY DEF Goto, IInv
<1>. QED BY <1>1, QuietIf

LEMMA QuietRaise == ASSUME IInv, NEW q \in Req, Raise(q), job[q].pc # "commit" PROVE Quiet(q)
BY QuietIf DEF Raise

LEMMA QuietRequire == ASSUME IInv, NEW q \in Req, NEW ok, NEW l, Require(q, ok, l),
                             job[q].pc # "commit"
                      PROVE  Quiet(q)
BY QuietGoto, QuietRaise DEF Require

LEMMA QuietWrite == ASSUME IInv, NEW q \in Req, NEW ok, NEW w, NEW l, Write(q, ok, w, l),
                           job[q].pc # "commit"
                    PROVE  Quiet(q)
<1>1. CASE ok
  <2>1. job' = [job EXCEPT ![q] = [job[q] EXCEPT !.pc = l]] /\ UNCHANGED tables
    BY <1>1 DEF Write, IInv
  <2>. QED BY <2>1, QuietIf
<1>2. CASE ~ok
  BY <1>2, QuietRaise DEF Write
<1>. QED BY <1>1, <1>2

LEMMA QuietNext == ASSUME IInv, Next PROVE \E q \in Req : Quiet(q) \/ Commit(q)
<1>1. PICK q \in Req :
         \/ \E c, p \in Role : BeginGrant(q, c, p) \/ BeginRevoke(q, c, p)
         \/ CheckGrant(q) \/ InsertEdge(q) \/ DeleteEdge(q) \/ ListChain(q)
         \/ \E x \in Role : \/ BeginDeleteRole(q, x)
                            \/ \E s \in {"ACTIVE", "DISABLED"} : UpdateRole(q, x, s)
         \/ CountHolders(q) \/ CountReferences(q) \/ WriteRole(q)
         \/ \E u \in User : \/ \E S \in SUBSET Role : BeginAssign(q, u, S)
                            \/ \E s \in {"ACTIVE", "DISABLED"} : BeginUserStatus(q, u, s)
                            \/ BeginDeleteUser(q, u)
         \/ ReadBefore(q) \/ ReplaceRoles(q) \/ Bump(q) \/ AskAdmin(q) \/ CountAdmins(q)
         \/ WriteUser(q) \/ Commit(q)
  BY DEF Next
<1>. SUFFICES Quiet(q) \/ Commit(q)
  OBVIOUS
<1>2. CASE \/ \E c, p \in Role : BeginGrant(q, c, p) \/ BeginRevoke(q, c, p)
           \/ \E x \in Role : \/ BeginDeleteRole(q, x)
                              \/ \E s \in {"ACTIVE", "DISABLED"} : UpdateRole(q, x, s)
           \/ \E u \in User : \/ \E S \in SUBSET Role : BeginAssign(q, u, S)
                              \/ \E s \in {"ACTIVE", "DISABLED"} : BeginUserStatus(q, u, s)
                              \/ BeginDeleteUser(q, u)
  BY <1>2, QuietBegin DEF BeginGrant, BeginRevoke, BeginDeleteRole, UpdateRole, BeginAssign,
                          BeginUserStatus, BeginDeleteUser
<1>3. CASE CheckGrant(q) \/ ListChain(q) \/ CountHolders(q) \/ CountReferences(q)
           \/ CountAdmins(q)
  <2>1. job[q].pc # "commit"
    BY <1>3 DEF CheckGrant, ListChain, CountHolders, CountReferences, CountAdmins, At
  <2>. QED BY <1>3, <2>1, QuietRequire
           DEF CheckGrant, ListChain, CountHolders, CountReferences, CountAdmins
<1>4. CASE InsertEdge(q) \/ DeleteEdge(q) \/ WriteRole(q) \/ ReplaceRoles(q) \/ WriteUser(q)
  <2>1. job[q].pc # "commit"
    BY <1>4 DEF InsertEdge, DeleteEdge, WriteRole, ReplaceRoles, WriteUser, At
  <2>. QED BY <1>4, <2>1, QuietWrite
           DEF InsertEdge, DeleteEdge, WriteRole, ReplaceRoles, WriteUser
<1>5. CASE AskAdmin(q)
  <2>1. job[q].pc # "commit"
    BY <1>5 DEF AskAdmin, At
  <2>. QED BY <1>5, <2>1, QuietGoto DEF AskAdmin
<1>6. CASE ReadBefore(q)
  BY <1>6 DEF ReadBefore, Quiet, At, IInv
<1>7. CASE Bump(q)
  BY <1>7 DEF Bump, Quiet, At, IInv
<1>. QED BY <1>1, <1>2, <1>3, <1>4, <1>5, <1>6, <1>7

\* The tables change only when a request commits, and a request that leaves its
\* last place commits.
LEMMA OnlyCommit == ASSUME IInv, [Next]_vars
                    PROVE  /\ (\E r \in Req : Commit(r)) \/ UNCHANGED tables
                           /\ \A r \in Req : CommitsAlone(r) => Commit(r)
<1>1. ASSUME NEW q \in Req, Commit(q)
      PROVE  \A r \in Req : CommitsAlone(r) => Commit(r)
  <2>. SUFFICES ASSUME NEW r \in Req, CommitsAlone(r), r # q PROVE FALSE
    BY <1>1
  <2>1. job[r].pc = "commit" /\ job'[r].pc # "commit"
    BY DEF CommitsAlone, At
  <2>2. job'[r] = [job[r] EXCEPT !.stale = TRUE]
    BY <1>1, <2>1 DEF Commit, At
  <2>3. job'[r].pc = job[r].pc
    BY <2>2 DEF IInv, Local, Shape, Fields
  <2>. QED BY <2>1, <2>3
<1>2. ASSUME NEW q \in Req, UNCHANGED tables, job[q].pc # "commit",
             \A r \in Req \ {q} : job'[r] = job[r]
      PROVE  \A r \in Req : CommitsAlone(r) => Commit(r)
  BY <1>2 DEF CommitsAlone, At
<1>3. CASE UNCHANGED vars
  BY <1>3 DEF vars, tables, CommitsAlone, At
<1>4. CASE Next
  BY <1>1, <1>2, <1>4, QuietNext DEF Quiet
<1>. QED BY <1>3, <1>4 DEF vars, tables

-------------------------------------------------------------------------------
\* What an undisturbed request does to the tables, by what it has checked.
LEMMA Undisturbed == ASSUME IInv, [Next]_vars, NEW r \in Req, CommitsAlone(r)
                     PROVE  /\ Commit(r) /\ job[r].pc = "commit"
                            /\ Place(job[r]) /\ Effect(job[r]) /\ Fresh(job[r])
BY OnlyCommit, CommitEffect DEF CommitsAlone, Local

\* Enabling or disabling a role or a user deletes none.
LEMMA StatusKeeps ==
    ASSUME IInv, NEW j, Place(j), Effect(j)
    PROVE  /\ \A x \in Role : ~role[x].deleted /\ ~(j.op = "delRole" /\ x = j.role)
                                => ~role'[x].deleted
           /\ \A u \in User : ~user[u].deleted /\ ~(j.op = "delUser" /\ u = j.user)
                                => ~user'[u].deleted
<1>1. ASSUME NEW x \in Role, ~role[x].deleted, ~(j.op = "delRole" /\ x = j.role)
      PROVE  ~role'[x].deleted
  <2>1. CASE RoleSet(j.role, j.new) /\ j.op \in RoleOps
    <3>1. CASE x = j.role
      <4>1. Columns(j.new) /\ "deleted" \notin DOMAIN j.new
        BY <1>1, <2>1, <3>1 DEF Place, RoleOps
      <4>. QED BY <4>1, <1>1, <2>1, <3>1, SetRow DEF RoleSet, IInv
    <3>2. CASE x # j.role
      BY <1>1, <2>1, <3>2 DEF RoleSet
    <3>. QED BY <3>1, <3>2
  <2>2. CASE role' = role
    BY <1>1, <2>2
  <2>. QED BY <2>1, <2>2 DEF Effect, Same
<1>2. ASSUME NEW u \in User, ~user[u].deleted, ~(j.op = "delUser" /\ u = j.user)
      PROVE  ~user'[u].deleted
  <2>1. CASE UserSet(j.user, j.new) /\ j.op \in UserOps
    <3>1. CASE u = j.user
      <4>1. Columns(j.new) /\ "deleted" \notin DOMAIN j.new
        BY <1>2, <2>1, <3>1 DEF Place, UserOps
      <4>. QED BY <4>1, <1>2, <2>1, <3>1, SetRow DEF UserSet, IInv
    <3>2. CASE u # j.user
      BY <1>2, <2>1, <3>2 DEF UserSet
    <3>. QED BY <3>1, <3>2
  <2>2. CASE user' = user
    BY <1>2, <2>2
  <2>. QED BY <2>1, <2>2 DEF Effect, Same
<1>. QED BY <1>1, <1>2

LEMMA KeepsAcyclic == ASSUME IInv, [Next]_vars, NEW r \in Req, CommitsAlone(r), Acyclic
                      PROVE  Acyclic'
<1>. DEFINE j == job[r]
<1>1. Place(j) /\ Effect(j) /\ Fresh(j) /\ j.pc = "commit"
  BY Undisturbed
<1>2. edge \in SUBSET Edge /\ \A x \in Role : x \notin Anc(edge, x)
  BY AncestorsAre DEF Acyclic, IInv
<1>. HIDE DEF j
<1>3. SUFFICES \A x \in Role : x \notin Anc(edge', x)
  BY AncestorsAre DEF Acyclic
<1>4. CASE edge' \subseteq edge
  BY <1>2, <1>4, AncMonotone
<1>5. CASE j.op = "grant" /\ edge' = edge \union {<<j.role, j.parent>>}
  <2>1. j.role \in Role /\ j.parent \in Role /\ j.role # j.parent
    BY <1>1, <1>5 DEF Place, EdgeOps
  <2>2. j.role \notin Anc(edge, j.parent)
    BY <1>1, <1>5, AncestorsAre DEF Fresh, Closes
  <2>. QED BY <1>2, <1>5, <2>1, <2>2, AddKeepsAcyclic
<1>. QED BY <1>1, <1>4, <1>5 DEF Effect, Same

LEMMA KeepsReferential == ASSUME IInv, [Next]_vars, NEW r \in Req, CommitsAlone(r), Referential
                          PROVE  Referential'
<1>. DEFINE j == job[r]
<1>1. Place(j) /\ Effect(j) /\ Fresh(j) /\ j.pc = "commit"
  BY Undisturbed
<1>. HIDE DEF j
<1>2. ASSUME NEW e \in edge' PROVE ~role'[e[1]].deleted /\ ~role'[e[2]].deleted
  <2>1. CASE e \in edge
    <3>1. e[1] \in Role /\ e[2] \in Role /\ ~role[e[1]].deleted /\ ~role[e[2]].deleted
      BY <2>1 DEF Referential, IInv, Edge
    <3>2. j.op = "delRole" => j.role # e[1] /\ j.role # e[2]
      BY <1>1, <2>1 DEF Fresh, NotReferenced
    <3>. QED BY <1>1, <3>1, <3>2, StatusKeeps
  <2>2. CASE j.op = "grant" /\ e = <<j.role, j.parent>>
    <3>1. j.role \in Role /\ j.parent \in Role
      BY <1>1, <2>2 DEF Place, EdgeOps
    <3>2. ~role[j.role].deleted /\ ~role[j.parent].deleted
      BY <1>1, <2>2 DEF Fresh
    <3>. QED BY <1>1, <2>2, <3>1, <3>2, StatusKeeps
  <2>. QED BY <1>1, <2>1, <2>2 DEF Effect, Same
<1>3. ASSUME NEW h \in holds' PROVE ~role'[h[2]].deleted
  <2>1. CASE h \in holds
    <3>1. h[1] \in User /\ h[2] \in Role /\ h = <<h[1], h[2]>> /\ ~role[h[2]].deleted
      BY <2>1 DEF Referential, IInv, Held
    <3>2. j.op = "delRole" => j.role # h[2]
      BY <1>1, <2>1, <3>1 DEF Fresh, NotHeld, Holders
    <3>. QED BY <1>1, <3>1, <3>2, StatusKeeps
  <2>2. CASE j.op = "assign" /\ h \in {j.user} \X (j.roles \ j.new)
    <3>1. h[2] \in j.roles /\ h[2] \in Role /\ ~role[h[2]].deleted
      BY <1>1, <2>2 DEF Fresh, Place
    <3>. QED BY <1>1, <2>2, <3>1, StatusKeeps
  <2>. QED BY <1>1, <2>1, <2>2 DEF Effect, Same
<1>. QED BY <1>2, <1>3 DEF Referential

LEMMA KeepsAdmin == ASSUME IInv, [Next]_vars, NEW r \in Req, CommitsAlone(r), holds' = holds,
                           Admins # {}
                    PROVE  Admins' # {}
<1>. DEFINE j == job[r]
<1>1. Place(j) /\ Effect(j) /\ Fresh(j) /\ j.pc = "commit"
  BY Undisturbed
<1>. HIDE DEF j
<1>2. PICK u \in Admins : TRUE
  OBVIOUS
<1>3. ~role'[Super].deleted
  <2>1. ~role[Super].deleted /\ Super \in Role /\ <<u, Super>> \in holds /\ u \in User
    BY <1>2, RoleAssumption DEF Admins, Holders
  <2>2. ~(j.op = "delRole" /\ Super = j.role)
    BY <1>1, <2>1 DEF Fresh, NotHeld, Holders
  <2>. QED BY <1>1, <2>1, <2>2, StatusKeeps
<1>4. \E v \in Admins : ~(j.op = "delUser" /\ v = j.user)
  <2>1. CASE j.op = "delUser"
    <3>1. ~IsAdmin(j.user) \/ Cardinality(Admins) > 1
      BY <1>1, <2>1 DEF Fresh, NotTheLast
    <3>2. CASE ~IsAdmin(j.user)
      BY <1>2, <3>2 DEF IsAdmin, Admins, Holders
    <3>3. CASE Cardinality(Admins) > 1
      <4>1. Cardinality({j.user}) = 1
        BY FS_Singleton
      <4>2. Admins # {j.user}
        BY <3>3, <4>1
      <4>. QED BY <1>2, <4>2
    <3>. QED BY <3>1, <3>2, <3>3
  <2>2. CASE j.op # "delUser"
    BY <1>2, <2>2
  <2>. QED BY <2>1, <2>2
<1>5. PICK v \in Admins : ~(j.op = "delUser" /\ v = j.user)
  BY <1>4
<1>6. v \in User /\ <<v, Super>> \in holds' /\ ~user'[v].deleted
  <2>1. v \in User /\ <<v, Super>> \in holds /\ ~user[v].deleted
    BY <1>5 DEF Admins, Holders
  <2>. QED BY <1>1, <1>5, <2>1, StatusKeeps
<1>. QED BY <1>3, <1>6 DEF Admins, Holders

LEMMA ReplacesAll == ASSUME IInv, [Next]_vars, NEW r \in Req, CommitsAlone(r),
                            NEW u \in User, job[r].op = "assign", job[r].user = u
                     PROVE  RolesOf(u)' = job[r].roles
<1>. DEFINE j == job[r]
<1>1. /\ j.op = "assign" /\ j.pc = "commit" /\ j.roles \subseteq Role
      /\ j.new = {x \in Role : <<u, x>> \in holds}
      /\ holds' = (holds \ ({u} \X (j.new \ j.roles))) \union ({u} \X (j.roles \ j.new))
  BY Undisturbed DEF Place, Effect, Fresh, RolesOf, ToRemove, EdgeOps, RoleOps, UserOps
<1>. HIDE DEF j
<1>2. \A x \in Role : <<u, x>> \in holds' <=> x \in j.roles
  BY <1>1
<1>3. RolesOf(u)' = {x \in Role : <<u, x>> \in holds'}
  BY DEF RolesOf
<1>. QED BY <1>1, <1>2, <1>3 DEF j

LEMMA OneVersionEach == ASSUME IInv, [Next]_vars,
                               <<edge, holds, role>> # <<edge, holds, role>>'
                        PROVE  version' = version + 1
<1>1. PICK r \in Req : Commit(r)
  BY OnlyCommit DEF tables
<1>2. Permits(txn[r]) /\ job[r].pc = "commit"
  BY <1>1, CommitEffect
<1>3. lock = r
  BY <1>2 DEF IInv, Locked
<1>. QED BY <1>1, <1>3 DEF Commit, Bumped, IInv

-------------------------------------------------------------------------------
\* Whatever an undisturbed request has checked stays true until it commits, and
\* who is about to commit a change of permissions holds the lock on the version.
THEOREM Invariant == Spec => []IInv
<1>1. Init => IInv
  BY InitIInv
<1>2. IInv /\ [Next]_vars => IInv'
  BY StepIInv
<1>. QED BY <1>1, <1>2, PTL DEF Spec

\* The types, and the lock on the version row is held by whoever is about to
\* commit a change of permissions (PermissionVersionRepository.bump).
THEOREM TypeCorrect == Spec => []TypeOK
<1>1. IInv => TypeOK
  BY DEF IInv, TypeOK, Local, Shape, Locked
<1>. QED BY <1>1, Invariant, PTL

\* However many requests overlap, no two committed changes of roles, of the
\* inheritance or of the roles of users share a version, and none is without one.
THEOREM EachChangeHasItsVersion == Spec => VersionMoves
<1>1. IInv /\ [Next]_vars =>
        [<<edge, holds, role>> # <<edge, holds, role>>' => version' = version + 1]_vars
  BY OneVersionEach
<1>. QED BY <1>1, Invariant, PTL DEF Spec, VersionMoves

\* The checks of grant, of the deletion of a role and of the assignment of roles
\* are enough for a request that no other commit overlaps: neither a cycle nor a
\* reference to a deleted role can come into being.
THEOREM CheckedIsSafe == Spec => ChecksSuffice
<1>1. IInv /\ [Next]_vars =>
        [\A r \in Req : CommitsAlone(r) =>
           (Acyclic => Acyclic') /\ (Referential => Referential')]_vars
  BY KeepsAcyclic, KeepsReferential
<1>. QED BY <1>1, Invariant, PTL DEF Spec, ChecksSuffice

\* assert_not_last_super_admin and the count of the holders of a role leave one
\* undeleted SUPER_ADMIN, for a request that no other commit overlaps.
THEOREM AnAdminStays == Spec => LastAdminStays
<1>1. IInv /\ [Next]_vars =>
        [\A r \in Req : CommitsAlone(r) /\ holds' = holds =>
           (Admins # {} => Admins' # {})]_vars
  BY KeepsAdmin
<1>. QED BY <1>1, Invariant, PTL DEF Spec, LastAdminStays

\* After an undisturbed assignment a user holds the given roles and no other,
\* although replace_user_roles writes only the difference to what it has read.
THEOREM AssignedIsHeld == Spec => ReplaceIsWhole
<1>1. IInv /\ [Next]_vars =>
        [\A r \in Req, u \in User :
           CommitsAlone(r) /\ job[r].op = "assign" /\ job[r].user = u =>
             RolesOf(u)' = job[r].roles]_vars
  BY ReplacesAll
<1>. QED BY <1>1, Invariant, PTL DEF Spec, ReplaceIsWhole
==============================================================================
