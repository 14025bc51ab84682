--------------------------- MODULE PermissionsProofs ---------------------------
(***************************************************************************)
(* What a reader computes while the version stands still is right, every   *)
(* change of what somebody is permitted has a version of its own, and a    *)
(* request that no other commit overtakes leaves no reference to what is   *)
(* deleted: for any number of roles, resources, levels and requests.       *)
(*                                                                         *)
(* As for RolesProofs, what a change has checked stays true until somebody *)
(* else commits (Found), and that somebody marks it as stale.  A reader is *)
(* not marked; what it has read (Reading) stays true as long as the        *)
(* version does, for a commit without one only adds a resource that        *)
(* nothing refers to, or nothing at all.                                   *)
(*                                                                         *)
(* The second part is about RoleClosure: the expansion is exact, for every *)
(* set of roles, every table of inheritance edges and every limit, and it  *)
(* is what the readers of Permissions are given.                           *)
(***************************************************************************)
EXTENDS Permissions, RoleClosure, FiniteSetTheorems, TLAPS

-------------------------------------------------------------------------------
\* What a request remembers, where it is, and what it has written.
Fields == {"op", "pc", "x", "role", "want", "before", "got", "since", "stale"}
Parts  == {"roles", "ids", "codes", "levels", "super", "rows", "menus", "label"}

Shape(j) == /\ DOMAIN j = Fields /\ DOMAIN j.got = Parts
            /\ j.op \in Op /\ j.pc \in PC /\ j.stale \in BOOLEAN

Reader(j) == j.op \in {"contract", "judge"}

\* The changes that need a version.
Bumps(j) == \/ j.op \in {"replace", "delete", "setPages"}
            \/ j.op = "status" /\ DOMAIN j.want # {}

Stage(j) ==
    /\ j.pc = "idle" <=> j.op = "none"
    /\ j.pc = "bump" => Bumps(j)
    /\ j.op = "replace" => /\ j.pc \in {"check", "before", "write", "bump", "commit"}
                           /\ j.role \in Role /\ j.x = None
                           /\ \E t \in Type : j.want \in [OfType(t) -> Levels(t)]
    /\ j.op = "create" => /\ j.pc \in {"over", "write", "commit"} /\ j.x \in Resource
                          /\ DOMAIN j.want = {"status", "deleted", "over"}
                          /\ j.want.status = "ACTIVE" /\ j.want.deleted = FALSE
                          /\ j.want.over \in Resource \union {None}
    /\ j.op = "status" => /\ j.pc \in {"write", "bump", "commit"} /\ j.x \in Resource
                          /\ DOMAIN j.want \subseteq {"status"}
                          /\ "status" \in DOMAIN j.want => j.want.status \in {"ACTIVE", "DISABLED"}
    /\ j.op = "delete" => /\ j.pc \in {"children", "menus", "grants", "write", "bump", "commit"}
                          /\ j.x \in Resource /\ DOMAIN j.want \subseteq {"status", "deleted"}
                          /\ "status" \in DOMAIN j.want => j.want.status = "DISABLED"
                          /\ "deleted" \in DOMAIN j.want => j.want.deleted = TRUE
    /\ j.op = "setPages" => /\ j.pc \in {"check", "before", "write", "bump", "commit"}
                            /\ j.x \in OfType("MENU") /\ j.want \in SUBSET OfType("PAGE")
    /\ j.op = "judge" => j.pc \in {"direct", "expand", "active", "API", "codes", "kept"}
    /\ j.op = "contract" => j.pc \in {"direct", "expand", "active", "codes", "fields", "names", "super",
                                      "version", "rows", "menuPages", "kept"} \union Binary

Writes(j, w) ==
    /\ j.pc \notin {"bump", "commit"} => w = NoWrite
    /\ j.pc \in {"bump", "commit"} =>
         /\ j.op = "replace" => /\ w = [NoWrite EXCEPT !.level = w.level]
                                /\ DOMAIN w.level \subseteq {j.role} \X DOMAIN j.want
                                /\ \A p \in DOMAIN w.level : w.level[p] = j.want[p[2]]
         /\ j.op \in {"create", "delete"} => w = [NoWrite EXCEPT !.res = [y \in {j.x} |-> j.want]]
         /\ j.op = "status" =>
              w = [NoWrite EXCEPT !.res = IF DOMAIN j.want = {} THEN <<>> ELSE [y \in {j.x} |-> j.want]]
         /\ j.op = "setPages" => /\ w = [NoWrite EXCEPT !.add = w.add, !.del = w.del]
                                 /\ w.add \subseteq {j.x} \X j.want

\* What stays true, whoever commits: nothing that was created is ever absent again.
Created(x) == res[x].status # "absent"

Known(j) == /\ j.op = "create" => ~Created(j.x)
            /\ j.op \in {"status", "delete", "setPages"} => Created(j.x)
            /\ j.op = "replace" /\ j.pc # "check" =>
                 \A y \in DOMAIN j.want : j.want[y] > 0 => Created(y)
            /\ j.op = "setPages" /\ j.pc # "check" => \A y \in j.want : Created(y)

\* What a change has found out, as long as nobody else has committed.
Found(j, w) ==
    /\ j.op = "create" /\ j.pc # "over" /\ j.want.over # None => There(j.want.over)
    /\ j.op \in {"delete", "setPages"} => There(j.x)
    /\ j.op = "delete" /\ j.pc # "children" => \A y \in Resource : There(y) => res[y].over # j.x
    /\ j.op = "delete" /\ j.pc \notin {"children", "menus"} =>
         \A e \in pages : j.x \notin {e[1], e[2]}
    /\ j.op = "delete" /\ j.pc \notin {"children", "menus", "grants"} => Ungranted(j.x)
    /\ j.op = "replace" /\ j.pc # "check" =>
         \A y \in DOMAIN j.want : j.want[y] > 0 => Live(y)
    /\ j.op = "replace" /\ j.pc \notin {"check", "before"} =>
         j.before = Current(j.role, DOMAIN j.want)
    /\ j.op = "replace" /\ j.pc \in {"bump", "commit"} =>
         \A y \in DOMAIN j.want : Live(y) /\ j.want[y] # level[<<j.role, y>>]
                                     => <<j.role, y>> \in DOMAIN w.level
    /\ j.op = "setPages" /\ j.pc # "check" => \A y \in j.want : Live(y)

\* The types of resources that a reader has read the grants on, and what it has
\* of the tables, as long as the version stands still.
Asked(j) == CASE j.pc \in {"direct", "expand", "active", "PAGE"} -> {}
              [] j.pc = "MENU"   -> {"PAGE"}
              [] j.pc = "BUTTON" -> {"PAGE", "MENU"}
              [] j.pc = "API"    -> IF j.op = "judge" THEN {} ELSE {"PAGE", "MENU", "BUTTON"}
              [] OTHER           -> IF j.op = "judge" THEN {"API"} ELSE Binary

Direct == roles.holds \intersect roles.active

Early == {"direct", "expand", "active"}

Reading(j) ==
    LET g == j.got
    IN  /\ j.pc = "expand" => g.roles = Direct
        /\ j.pc = "active" => g.roles = Expand(Direct)
        /\ j.pc \notin Early => g.roles = Effective
        /\ g.ids = UNION {Granted(Effective, t) : t \in Asked(j)}
        /\ j.pc \notin Early \union Binary \union {"codes"} => g.codes = g.ids
        /\ j.pc \in {"names", "super", "version", "rows", "menuPages", "kept"} /\ j.op = "contract" =>
             g.levels = FieldLevels(Effective)
        /\ j.pc \in {"version", "rows", "menuPages", "kept"} /\ j.op = "contract" =>
             g.super = (Super \in roles.holds)
        /\ j.pc \in {"menuPages", "kept"} /\ j.op = "contract" =>
             IF g.super THEN g.rows \subseteq RowsFor(g) ELSE g.rows = RowsFor(g)
        /\ j.pc = "kept" /\ j.op = "contract" => g.menus = MenuPages(g.rows)

Local(j, w) == /\ Shape(j) /\ Stage(j) /\ Writes(j, w) /\ Known(j)
               /\ ~Reader(j) /\ ~j.stale => Found(j, w)
               /\ Reader(j) => j.since \in 0..version /\ (j.since = version => Reading(j))

\* Rows there are only of what was created.
Tables == /\ res \in [Resource -> Row] /\ level \in [Pair -> Nat]
          /\ \A p \in Pair : level[p] \in Levels(TypeOf[p[2]]) /\ (level[p] > 0 => Created(p[2]))
          /\ pages \subseteq OfType("MENU") \X OfType("PAGE")
          /\ \A e \in pages : Created(e[1]) /\ Created(e[2])
          /\ roles \in [holds : SUBSET Role, edge : SUBSET (Role \X Role), active : SUBSET Role]

\* The version moves once a request at most.
Counted == /\ version \in Nat /\ IsFiniteSet(Writers)
           /\ version + Cardinality(Writers) <= MaxVersion

\* The lock is theirs who are to commit a change that needs a version.
Locked == /\ lock \in Req \union {None}
          /\ \A r \in Req : lock = r <=> job[r].pc = "commit" /\ Bumps(job[r])

\* Nobody else knows a resource that is being created.
Alone == \A q, r \in Req : q # r /\ job[r].op = "create" => job[q].x # job[r].x

IInv == /\ Tables /\ Counted /\ Locked /\ Alone
        /\ job = [r \in Req |-> job[r]] /\ txn = [r \in Req |-> txn[r]]
        /\ \A r \in Req : Local(job[r], txn[r])

-------------------------------------------------------------------------------
\* An idle request and an empty transaction.
LEMMA NoWriteIs == /\ DOMAIN NoWrite = {"res", "level", "add", "del"}
                   /\ DOMAIN NoWrite.res = {} /\ DOMAIN NoWrite.level = {}
                   /\ NoWrite.add = {} /\ NoWrite.del = {}
BY DEF NoWrite

LEMMA BlankIs == /\ DOMAIN Blank = Fields /\ DOMAIN Blank.got = Parts
                 /\ Blank.op = "none" /\ Blank.pc = "idle" /\ Blank.x = None /\ Blank.stale = FALSE
                 /\ ~Reader(Blank) /\ ~Bumps(Blank)
                 /\ Blank.got.ids = {}
BY DEF Blank, NoneYet, Fields, Parts, Reader, Bumps

LEMMA BlankIsLocal == Local(Blank, NoWrite)
<1>1. Shape(Blank) /\ Stage(Blank) /\ Writes(Blank, NoWrite)
  BY BlankIs DEF Shape, Stage, Writes, Op, PC
<1>2. Known(Blank) /\ Found(Blank, NoWrite)
  BY BlankIs DEF Known, Found
<1>. QED BY <1>1, <1>2, BlankIs DEF Local

LEMMA InitIInv == Init => IInv
<1>. SUFFICES ASSUME Init PROVE IInv
  OBVIOUS
<1>1. \A r \in Req : job[r] = Blank /\ txn[r] = NoWrite
  BY DEF Init
<1>2. Counted
  <2>1. Writers = {}
    BY <1>1, BlankIs DEF Writers, At
  <2>2. IsFiniteSet(Writers) /\ Cardinality(Writers) = 0
    BY <2>1, FS_EmptySet
  <2>. QED BY <2>2, PermissionsAssumption DEF Init, Counted
<1>3. Locked /\ Alone /\ \A r \in Req : Local(job[r], txn[r])
  BY <1>1, BlankIs, BlankIsLocal, PermissionsAssumption DEF Init, Locked, Alone
<1>4. res \in [Resource -> Row]
  <2>1. PICK p \in Made : TypeOf[p] = "PAGE"
    BY PermissionsAssumption
  <2>2. (CHOOSE q \in Made : TypeOf[q] = "PAGE") \in Resource
    BY <2>1, PermissionsAssumption
  <2>. QED BY <2>2 DEF Init, Row
<1>5. /\ level \in [Pair -> Nat] /\ pages = {}
      /\ \A p \in Pair : level[p] = 0 /\ level[p] \in Levels(TypeOf[p[2]])
  BY PermissionsAssumption DEF Init, Levels
<1>6. roles \in [holds : SUBSET Role, edge : SUBSET (Role \X Role), active : SUBSET Role]
  BY DEF Init
<1>. QED BY <1>2, <1>3, <1>4, <1>5, <1>6 DEF IInv, Tables, Init

-------------------------------------------------------------------------------
\* While the tables stay, so does everything that is read off them.
LEMMA TablesStay ==
    UNCHANGED tables =>
      /\ (Tables => Tables')
      /\ \A j, w : Local(j, w)' <=> Local(j, w)
<1>. SUFFICES ASSUME UNCHANGED <<res, level, pages, roles, version>>
              PROVE  /\ (Tables => Tables')
                     /\ \A j, w : Local(j, w)' <=> Local(j, w)
  BY DEF tables
<1>1. Tables => Tables'
  BY DEF Tables, Created
<1>2. /\ \A x : Live(x)' <=> Live(x)
      /\ \A x : There(x)' <=> There(x)
      /\ \A x : Created(x)' <=> Created(x)
      /\ \A x : Ungranted(x)' <=> Ungranted(x)
      /\ \A S : Expand(S)' = Expand(S)
      /\ \A S : MenuPages(S)' = MenuPages(S)
  BY DEF Live, There, Created, Ungranted, Expand, MenuPages
<1>3. \A c, t : Current(c, t)' = Current(c, t)
  BY <1>2 DEF Current
<1>4. \A R, t : Granted(R, t)' = Granted(R, t)
  BY <1>2 DEF Granted
<1>5. \A R : FieldLevels(R)' = FieldLevels(R)
  BY <1>4 DEF FieldLevels, LevelOf
<1>6. \A g : RowsFor(g)' = RowsFor(g)
  BY <1>2 DEF RowsFor
<1>7. Direct' = Direct /\ Effective' = Effective
  BY <1>2 DEF Direct, Effective
<1>8. \A j, w : (Shape(j) /\ Stage(j) /\ Writes(j, w) /\ Known(j))'
                  <=> (Shape(j) /\ Stage(j) /\ Writes(j, w) /\ Known(j))
  BY <1>2 DEF Shape, Stage, Writes, Known, Bumps
<1>9. \A j, w : Found(j, w)' <=> Found(j, w)
  BY <1>2, <1>3 DEF Found
<1>10. \A j : Reading(j)' <=> Reading(j)
  BY <1>2, <1>4, <1>5, <1>6, <1>7 DEF Reading, Asked
<1>. QED BY <1>1, <1>8, <1>9, <1>10 DEF Local, Reader

-------------------------------------------------------------------------------
\* Steps of one request that leave the tables.
LEMMA OneMoves ==
    ASSUME IInv, NEW r \in Req, NEW j, NEW w, job' = [job EXCEPT ![r] = j],
           txn' = [txn EXCEPT ![r] = w], UNCHANGED tables, Local(j, w), Counted', Locked', Alone'
    PROVE  IInv'
<1>1. /\ job'[r] = j /\ txn'[r] = w /\ DOMAIN job' = Req /\ DOMAIN txn' = Req
      /\ \A q \in Req \ {r} : job'[q] = job[q] /\ txn'[q] = txn[q]
      /\ job' = [q \in Req |-> job'[q]] /\ txn' = [q \in Req |-> txn'[q]]
  BY DEF IInv
<1>2. Tables'
  BY TablesStay DEF IInv
<1>3. \A q \in Req : Local(job[q], txn[q])'
  <2>1. \A i, v : Local(i, v)' <=> Local(i, v)
    BY TablesStay
  <2>2. \A q \in Req : Local(job'[q], txn'[q])
    BY <1>1 DEF IInv
  <2>3. \A q \in Req : Local(job[q], txn[q])' <=> Local(job'[q], txn'[q])
    BY <2>1, TablesStay
  <2>. QED BY <2>2, <2>3
<1>. QED BY <1>1, <1>2, <1>3 DEF IInv

\* One that goes on.
LEMMA OneGoesOn ==
    ASSUME IInv, NEW r \in Req, NEW j, job' = [job EXCEPT ![r] = j], UNCHANGED <<version, lock>>,
           job[r].pc # "idle", j.pc # "idle", j.op = job[r].op, j.x = job[r].x,
           j.pc = "commit" /\ Bumps(j) <=> job[r].pc = "commit" /\ Bumps(job[r])
    PROVE  Counted' /\ Locked' /\ Alone'
<1>1. /\ DOMAIN job = Req /\ job'[r] = j /\ \A q \in Req \ {r} : job'[q] = job[q]
      /\ Counted /\ Locked /\ Alone
  BY DEF IInv
<1>2. Writers' = Writers
  BY <1>1 DEF Writers, At, Reads
<1>3. Counted'
  BY <1>1, <1>2 DEF Counted
<1>4. Locked'
  <2>1. \A q \in Req : lock' = q <=> job'[q].pc = "commit" /\ Bumps(job'[q])
    BY <1>1 DEF Locked
  <2>. QED BY <1>1, <2>1 DEF Locked, Bumps
<1>5. Alone'
  BY <1>1 DEF Alone
<1>. QED BY <1>3, <1>4, <1>5

\* One that ends.
LEMMA CountDrops == ASSUME IInv, NEW r \in Req, Writers' = Writers \ {r},
                           version' = version \/ (r \in Writers /\ version' = version + 1)
                    PROVE  Counted'
<1>1. IsFiniteSet(Writers) /\ version \in Nat /\ version + Cardinality(Writers) <= MaxVersion
  BY DEF IInv, Counted
<1>2. CASE r \in Writers
  <2>1. /\ IsFiniteSet(Writers') /\ Cardinality(Writers') = Cardinality(Writers) - 1
        /\ Cardinality(Writers) \in Nat /\ MaxVersion \in Nat
    BY <1>1, <1>2, FS_RemoveElement, FS_CardinalityType, PermissionsAssumption
  <2>. QED BY <1>1, <2>1 DEF Counted
<1>3. CASE r \notin Writers
  <2>1. Writers' = Writers /\ version' = version
    BY <1>3
  <2>. QED BY <1>1, <2>1 DEF Counted
<1>. QED BY <1>2, <1>3

LEMMA RaiseStep == ASSUME IInv, NEW r \in Req, Raise(r) PROVE IInv'
<1>1. /\ job' = [job EXCEPT ![r] = Blank] /\ txn' = [txn EXCEPT ![r] = NoWrite]
      /\ lock' = (IF lock = r THEN None ELSE lock) /\ UNCHANGED tables /\ UNCHANGED version
  BY DEF Raise, Unlock, tables
<1>2. /\ DOMAIN job = Req /\ job'[r] = Blank /\ \A q \in Req \ {r} : job'[q] = job[q]
      /\ Locked /\ Alone /\ None \notin Req \union Resource
  BY <1>1, PermissionsAssumption DEF IInv
<1>3. Counted'
  <2>1. Writers' = Writers \ {r}
    BY <1>2, BlankIs DEF Writers, At, Reads
  <2>. QED BY <1>1, <2>1, CountDrops
<1>4. Locked'
  <2>1. /\ lock' \in Req \union {None}
        /\ \A q \in Req : lock' = q <=> job'[q].pc = "commit" /\ Bumps(job'[q])
    BY <1>1, <1>2, BlankIs DEF Locked
  <2>. QED BY <2>1 DEF Locked, Bumps
<1>5. Alone'
  <2>1. \A q \in Req : job[q].op = "create" => job[q].x \in Resource
    BY DEF IInv, Local, Stage
  <2>. QED BY <1>2, <2>1, BlankIs DEF Alone
<1>. QED BY <1>1, <1>3, <1>4, <1>5, BlankIsLocal, OneMoves

\* k is j at another place.
Moved(j, l, k) == /\ Shape(k) /\ k.pc = l /\ k.op = j.op /\ k.x = j.x /\ k.role = j.role
                  /\ k.want = j.want /\ k.before = j.before /\ k.got = j.got
                  /\ k.since = j.since /\ k.stale = j.stale

LEMMA PcOf == ASSUME NEW j, Shape(j), NEW l \in PC
              PROVE  Moved(j, l, [j EXCEPT !.pc = l])
<1>. DEFINE k == [j EXCEPT !.pc = l]
<1>1. /\ DOMAIN k = Fields /\ k.pc = l /\ k.op = j.op /\ k.x = j.x /\ k.role = j.role
      /\ k.want = j.want /\ k.before = j.before /\ k.got = j.got
      /\ k.since = j.since /\ k.stale = j.stale
  BY DEF Shape, Fields
<1>. HIDE DEF k
<1>2. Shape(k)
  BY <1>1 DEF Shape
<1>. QED BY <1>1, <1>2 DEF k, Moved

LEMMA WriteStep ==
    ASSUME IInv, NEW r \in Req, NEW l \in PC \ {"idle"}, ~Reader(job[r]),
           job[r].pc \notin {"idle", "commit"}, NEW w, job' = [job EXCEPT ![r].pc = l],
           txn' = [txn EXCEPT ![r] = w], UNCHANGED <<tables, lock>>,
           l = "commit" => ~Bumps(job[r]),
           \A k : Moved(job[r], l, k) =>
                     Stage(k) /\ Writes(k, w) /\ Known(k) /\ (~k.stale => Found(k, w))
    PROVE  IInv'
<1>. DEFINE j == [job[r] EXCEPT !.pc = l]
<1>1. Shape(job[r]) /\ Stage(job[r]) /\ DOMAIN job = Req
  BY DEF IInv, Local
<1>2. job' = [job EXCEPT ![r] = j]
  BY <1>1
<1>3. Moved(job[r], l, j)
  BY <1>1, PcOf
<1>. HIDE DEF j
<1>4. Stage(j) /\ Writes(j, w) /\ Known(j) /\ (~j.stale => Found(j, w))
  BY <1>3
<1>5. Local(j, w)
  BY <1>3, <1>4 DEF Local, Moved, Reader
<1>6. /\ j.pc = l /\ j.op = job[r].op /\ j.x = job[r].x /\ (Bumps(j) <=> Bumps(job[r]))
      /\ UNCHANGED tables /\ UNCHANGED <<version, lock>>
  BY <1>3 DEF Moved, Bumps, tables
<1>7. Counted' /\ Locked' /\ Alone'
  BY <1>2, <1>6, OneGoesOn
<1>. QED BY <1>2, <1>5, <1>6, <1>7, OneMoves

\* A statement that may fail.
LEMMA StatementStep ==
    ASSUME IInv, NEW r \in Req, NEW l \in PC \ {"idle"}, ~Reader(job[r]),
           job[r].pc \notin {"idle", "commit"}, NEW ok \in BOOLEAN, NEW w, Write(r, ok, w, l),
           l = "commit" => ~Bumps(job[r]),
           \A k : Moved(job[r], l, k) /\ ok =>
                     Stage(k) /\ Writes(k, w) /\ Known(k) /\ (~k.stale => Found(k, w))
    PROVE  IInv'
<1>1. CASE ok
  <2>1. /\ txn' = [txn EXCEPT ![r] = w] /\ job' = [job EXCEPT ![r].pc = l]
        /\ UNCHANGED <<tables, lock>>
    BY <1>1 DEF Write
  <2>. QED BY <1>1, <2>1, WriteStep
<1>2. CASE ~ok
  BY <1>2, RaiseStep DEF Write
<1>. QED BY <1>1, <1>2

LEMMA SameWrite == ASSUME IInv, NEW r \in Req, job[r].pc \notin {"bump", "commit"}, txn' = txn
                   PROVE  txn' = [txn EXCEPT ![r] = NoWrite]
<1>1. txn[r] = NoWrite /\ DOMAIN txn = Req
  BY DEF IInv, Local, Writes
<1>2. \A q \in DOMAIN txn : [txn EXCEPT ![r] = NoWrite][q] = txn[q]
  BY <1>1
<1>3. txn = [q \in Req |-> txn[q]]
  BY DEF IInv
<1>. QED BY <1>1, <1>2, <1>3

\* A check.
LEMMA RequireStep ==
    ASSUME IInv, NEW r \in Req, NEW l \in PC \ {"idle", "bump", "commit"}, ~Reader(job[r]),
           job[r].pc \notin {"idle", "bump", "commit"}, NEW ok \in BOOLEAN, Require(r, ok, l),
           \A k : Moved(job[r], l, k) /\ ok =>
                     Stage(k) /\ Known(k) /\ (~k.stale => Found(k, NoWrite))
    PROVE  IInv'
<1>1. CASE ok
  <2>1. job' = [job EXCEPT ![r].pc = l] /\ UNCHANGED <<tables, lock>> /\ txn' = txn
    BY <1>1 DEF Require, Goto
  <2>2. txn' = [txn EXCEPT ![r] = NoWrite]
    BY <2>1, SameWrite
  <2>3. ASSUME NEW k, Moved(job[r], l, k)
        PROVE  Stage(k) /\ Writes(k, NoWrite) /\ Known(k) /\ (~k.stale => Found(k, NoWrite))
    BY <1>1, <2>3 DEF Writes, Moved
  <2>. QED BY <2>1, <2>2, <2>3, WriteStep
<1>2. CASE ~ok
  BY <1>2, RaiseStep DEF Require
<1>. QED BY <1>1, <1>2

\* What a request finds out, it notes.
LEMMA NoteStep ==
    ASSUME IInv, NEW r \in Req, job[r].pc \notin {"idle", "bump", "commit"}, NEW j,
           j.pc \notin {"idle", "bump", "commit"}, job' = [job EXCEPT ![r] = j],
           UNCHANGED <<tables, lock, txn>>, j.op = job[r].op, j.x = job[r].x, Local(j, NoWrite)
    PROVE  IInv'
<1>1. UNCHANGED tables /\ UNCHANGED <<version, lock>> /\ txn' = [txn EXCEPT ![r] = NoWrite]
  BY SameWrite DEF tables
<1>2. Counted' /\ Locked' /\ Alone'
  BY <1>1, OneGoesOn
<1>. QED BY <1>1, <1>2, OneMoves

-------------------------------------------------------------------------------
\* Step by step.  The checks:
LEMMA CheckAssignableStep == ASSUME IInv, NEW r \in Req, CheckAssignable(r) PROVE IInv'
<1>. DEFINE ok == \A x \in DOMAIN job[r].want : job[r].want[x] > 0 => Live(x)
<1>1. /\ job[r].op = "replace" /\ job[r].pc = "check" /\ Local(job[r], txn[r])
      /\ Require(r, ok, "before") /\ ok \in BOOLEAN
      /\ ok => \A x \in DOMAIN job[r].want : job[r].want[x] > 0 => Live(x)
  BY DEF CheckAssignable, At, IInv
<1>. HIDE DEF ok
<1>2. ASSUME NEW k, Moved(job[r], "before", k), ok
      PROVE  Stage(k) /\ Known(k) /\ (~k.stale => Found(k, NoWrite))
  <2>1. Stage(k)
    BY <1>1, <1>2 DEF Local, Stage, Moved, Bumps
  <2>2. Known(k)
    BY <1>1, <1>2 DEF Known, Moved, Live, Created
  <2>3. Found(k, NoWrite)
    BY <1>1, <1>2 DEF Found, Moved
  <2>. QED BY <2>1, <2>2, <2>3
<1>. QED BY <1>1, <1>2, RequireStep DEF PC, Reader

LEMMA CheckOverStep == ASSUME IInv, NEW r \in Req, CheckOver(r) PROVE IInv'
<1>. DEFINE p == job[r].want.over
            ok == There(p) /\ TypeOf[p] = Above[TypeOf[job[r].x]]
<1>1. /\ job[r].pc = "over" /\ Local(job[r], txn[r])
      /\ Require(r, ok, "write") /\ ok \in BOOLEAN /\ (ok => There(job[r].want.over))
  BY DEF CheckOver, At, IInv
<1>2. job[r].op = "create"
  BY <1>1 DEF Local, Shape, Stage, Op, Binary
<1>. HIDE DEF ok
<1>3. ASSUME NEW k, Moved(job[r], "write", k), ok
      PROVE  Stage(k) /\ Known(k) /\ (~k.stale => Found(k, NoWrite))
  <2>1. Stage(k)
    BY <1>1, <1>2, <1>3 DEF Local, Stage, Moved, Bumps
  <2>2. Known(k)
    BY <1>1, <1>2, <1>3 DEF Local, Known, Moved
  <2>3. Found(k, NoWrite)
    BY <1>1, <1>2, <1>3 DEF Found, Moved
  <2>. QED BY <2>1, <2>2, <2>3
<1>. QED BY <1>1, <1>2, <1>3, RequireStep DEF PC, Reader

\* The three counts of delete.
LEMMA CountStep ==
    ASSUME IInv, NEW r \in Req, NEW ok \in BOOLEAN, NEW l \in {"menus", "grants", "write"},
           Require(r, ok, l), job[r].pc = CASE l = "menus"  -> "children"
                                            [] l = "grants" -> "menus"
                                            [] OTHER        -> "grants",
           job[r].op = "delete",
           ok => CASE l = "menus"  -> \A y \in Resource : There(y) => res[y].over # job[r].x
                   [] l = "grants" -> \A e \in pages : job[r].x \notin {e[1], e[2]}
                   [] OTHER        -> Ungranted(job[r].x)
    PROVE  IInv'
<1>1. Local(job[r], txn[r])
  BY DEF IInv
<1>2. ASSUME NEW k, Moved(job[r], l, k), ok
      PROVE  Stage(k) /\ Known(k) /\ (~k.stale => Found(k, NoWrite))
  <2>1. Stage(k)
    BY <1>1, <1>2 DEF Local, Stage, Moved, Bumps
  <2>2. Known(k)
    BY <1>1, <1>2 DEF Local, Known, Moved
  <2>3. ASSUME ~k.stale PROVE Found(k, NoWrite)
    <3>1. Found(job[r], txn[r])
      BY <1>1, <1>2, <2>3 DEF Local, Moved, Reader
    <3>. QED BY <1>2, <3>1 DEF Found, Moved
  <2>. QED BY <2>1, <2>2, <2>3
<1>3. job[r].pc \notin {"idle", "bump", "commit"} /\ ~Reader(job[r])
  BY DEF Reader
<1>4. l \in PC \ {"idle", "bump", "commit"}
  BY DEF PC
<1>. QED BY <1>2, <1>3, <1>4, RequireStep

LEMMA DeleteCounts == ASSUME IInv, NEW r \in Req, job[r].pc \in {"children", "menus", "grants"}
                      PROVE  job[r].op = "delete"
BY DEF IInv, Local, Shape, Stage, Op, Binary

LEMMA CountChildrenStep == ASSUME IInv, NEW r \in Req, CountChildren(r) PROVE IInv'
<1>. DEFINE ok == \A x \in Resource : There(x) => res[x].over # job[r].x
<1>1. job[r].pc = "children" /\ Require(r, ok, "menus") /\ ok \in BOOLEAN
      /\ (ok => \A y \in Resource : There(y) => res[y].over # job[r].x)
  BY DEF CountChildren, At
<1>. HIDE DEF ok
<1>. QED BY <1>1, DeleteCounts, CountStep

LEMMA CountMenuPagesStep == ASSUME IInv, NEW r \in Req, CountMenuPages(r) PROVE IInv'
<1>. DEFINE ok == \A e \in pages : job[r].x \notin {e[1], e[2]}
<1>1. job[r].pc = "menus" /\ Require(r, ok, "grants") /\ ok \in BOOLEAN
      /\ (ok => \A e \in pages : job[r].x \notin {e[1], e[2]})
  BY DEF CountMenuPages, At
<1>. HIDE DEF ok
<1>. QED BY <1>1, DeleteCounts, CountStep

LEMMA CountGrantsStep == ASSUME IInv, NEW r \in Req, CountGrants(r) PROVE IInv'
<1>. DEFINE ok == Ungranted(job[r].x)
<1>1. job[r].pc = "grants" /\ Require(r, ok, "write") /\ ok \in BOOLEAN
      /\ (ok => Ungranted(job[r].x))
  BY DEF CountGrants, At, Ungranted
<1>. HIDE DEF ok
<1>. QED BY <1>1, DeleteCounts, CountStep

LEMMA CheckPagesStep == ASSUME IInv, NEW r \in Req, CheckPages(r) PROVE IInv'
<1>. DEFINE ok == \A p \in job[r].want : Live(p)
<1>1. /\ job[r].op = "setPages" /\ job[r].pc = "check" /\ Local(job[r], txn[r])
      /\ Require(r, ok, "before") /\ ok \in BOOLEAN /\ (ok => \A p \in job[r].want : Live(p))
  BY DEF CheckPages, At, IInv
<1>. HIDE DEF ok
<1>2. ASSUME NEW k, Moved(job[r], "before", k), ok
      PROVE  Stage(k) /\ Known(k) /\ (~k.stale => Found(k, NoWrite))
  <2>1. Stage(k)
    BY <1>1, <1>2 DEF Local, Stage, Moved, Bumps
  <2>2. Known(k)
    BY <1>1, <1>2 DEF Local, Known, Moved, Live, Created
  <2>3. ASSUME ~k.stale PROVE Found(k, NoWrite)
    <3>1. Found(job[r], txn[r])
      BY <1>1, <1>2, <2>3 DEF Local, Moved, Reader
    <3>. QED BY <1>1, <1>2, <3>1 DEF Found, Moved
  <2>. QED BY <2>1, <2>2, <2>3
<1>. QED BY <1>1, <1>2, RequireStep DEF PC, Reader

\* What a replacement reads before it writes.
LEMMA BeforeStep ==
    ASSUME IInv, NEW r \in Req, NEW b, job[r].pc = "before", job[r].op \in {"replace", "setPages"},
           job' = [job EXCEPT ![r].pc = "write", ![r].before = b], UNCHANGED <<tables, lock, txn>>,
           job[r].op = "replace" => b = Current(job[r].role, DOMAIN job[r].want)
    PROVE  IInv'
<1>. DEFINE i == job[r]
            j == [i EXCEPT !.pc = "write", !.before = b]
<1>1. Local(i, txn[r]) /\ DOMAIN job = Req
  BY DEF IInv
<1>2. job' = [job EXCEPT ![r] = j]
  BY <1>1
<1>3. /\ DOMAIN j = Fields /\ j.pc = "write" /\ j.op = i.op /\ j.x = i.x /\ j.role = i.role
      /\ j.want = i.want /\ j.before = b /\ j.got = i.got /\ j.since = i.since
      /\ j.stale = i.stale
  BY <1>1 DEF Local, Shape, Fields
<1>. HIDE DEF i, j
<1>4. i.pc = "before" /\ i.op \in {"replace", "setPages"}
  BY DEF i
<1>5. Shape(j) /\ Stage(j) /\ Writes(j, NoWrite) /\ Known(j)
  BY <1>1, <1>3, <1>4 DEF Local, Shape, Stage, Writes, Known, PC, Bumps
<1>6. ASSUME ~j.stale PROVE Found(j, NoWrite)
  <2>1. Found(i, txn[r])
    BY <1>1, <1>3, <1>4, <1>6 DEF Local, Reader
  <2>2. j.op = "replace" => j.before = Current(j.role, DOMAIN j.want)
    BY <1>3 DEF i
  <2>. QED BY <1>3, <1>4, <2>1, <2>2 DEF Found
<1>7. Local(j, NoWrite)
  BY <1>3, <1>4, <1>5, <1>6 DEF Local, Reader
<1>. QED BY <1>2, <1>3, <1>7, NoteStep DEF i

LEMMA ReadGrantsStep == ASSUME IInv, NEW r \in Req, ReadGrants(r) PROVE IInv'
BY BeforeStep DEF ReadGrants, At

LEMMA ReadPagesStep == ASSUME IInv, NEW r \in Req, ReadPages(r) PROVE IInv'
BY BeforeStep DEF ReadPages, At

\* The statements that write:
LEMMA InsertStep == ASSUME IInv, NEW r \in Req, Insert(r) PROVE IInv'
<1>. DEFINE w == [NoWrite EXCEPT !.res = [y \in {job[r].x} |-> job[r].want]]
<1>1. /\ job[r].op = "create" /\ job[r].pc = "write" /\ Local(job[r], txn[r])
      /\ Write(r, TRUE, w, "commit")
  BY DEF Insert, At, IInv
<1>2. ASSUME NEW k, Moved(job[r], "commit", k)
      PROVE  Stage(k) /\ Writes(k, w) /\ Known(k) /\ (~k.stale => Found(k, w))
  <2>1. Stage(k)
    BY <1>1, <1>2 DEF Local, Stage, Moved, Bumps
  <2>2. Writes(k, w)
    BY <1>1, <1>2 DEF Writes, Moved
  <2>. HIDE DEF w
  <2>3. Known(k)
    BY <1>1, <1>2 DEF Local, Known, Moved
  <2>4. ASSUME ~k.stale PROVE Found(k, w)
    <3>1. Found(job[r], txn[r])
      BY <1>1, <1>2, <2>4 DEF Local, Moved, Reader
    <3>. QED BY <1>1, <1>2, <3>1 DEF Found, Moved
  <2>. QED BY <2>1, <2>2, <2>3, <2>4
<1>. HIDE DEF w
<1>. QED BY <1>1, <1>2, StatementStep DEF PC, Reader, Bumps

LEMMA UpdateStatusStep == ASSUME IInv, NEW r \in Req, UpdateStatus(r) PROVE IInv'
<1>. DEFINE w == [NoWrite EXCEPT !.res = IF DOMAIN job[r].want = {} THEN <<>>
                                          ELSE [y \in {job[r].x} |-> job[r].want]]
            l == IF Moves(job[r].want) THEN "bump" ELSE "commit"
<1>1. /\ job[r].op = "status" /\ job[r].pc = "write" /\ Local(job[r], txn[r])
      /\ Write(r, TRUE, w, l)
  BY DEF UpdateStatus, At, IInv
<1>2. l \in {"bump", "commit"} /\ (l = "bump" <=> Bumps(job[r]))
  BY <1>1 DEF Moves, Bumps
<1>. HIDE DEF l
<1>3. ASSUME NEW k, Moved(job[r], l, k)
      PROVE  Stage(k) /\ Writes(k, w) /\ Known(k) /\ (~k.stale => Found(k, w))
  <2>1. Stage(k)
    BY <1>1, <1>2, <1>3 DEF Local, Stage, Moved, Bumps
  <2>2. Writes(k, w)
    BY <1>1, <1>2, <1>3 DEF Writes, Moved
  <2>. HIDE DEF w
  <2>3. Known(k) /\ Found(k, w)
    BY <1>1, <1>3 DEF Local, Known, Found, Moved
  <2>. QED BY <2>1, <2>2, <2>3
<1>4. l \in PC \ {"idle"} /\ (l = "commit" => ~Bumps(job[r]))
  BY <1>2 DEF PC
<1>. HIDE DEF w
<1>. QED BY <1>1, <1>3, <1>4, StatementStep DEF Reader

LEMMA DeleteResourceStep == ASSUME IInv, NEW r \in Req, DeleteResource(r) PROVE IInv'
<1>. DEFINE w == [NoWrite EXCEPT !.res = [y \in {job[r].x} |-> job[r].want]]
<1>1. /\ job[r].op = "delete" /\ job[r].pc = "write" /\ Local(job[r], txn[r])
      /\ Write(r, TRUE, w, "bump")
  BY DEF DeleteResource, At, IInv
<1>2. ASSUME NEW k, Moved(job[r], "bump", k)
      PROVE  Stage(k) /\ Writes(k, w) /\ Known(k) /\ (~k.stale => Found(k, w))
  <2>1. Stage(k)
    BY <1>1, <1>2 DEF Local, Stage, Moved, Bumps
  <2>2. Writes(k, w)
    BY <1>1, <1>2 DEF Writes, Moved
  <2>. HIDE DEF w
  <2>3. Known(k)
    BY <1>1, <1>2 DEF Local, Known, Moved
  <2>4. ASSUME ~k.stale PROVE Found(k, w)
    <3>1. Found(job[r], txn[r])
      BY <1>1, <1>2, <2>4 DEF Local, Moved, Reader
    <3>. QED BY <1>1, <1>2, <3>1 DEF Found, Moved
  <2>. QED BY <2>1, <2>2, <2>3, <2>4
<1>. HIDE DEF w
<1>. QED BY <1>1, <1>2, StatementStep DEF PC, Reader

LEMMA WriteGrantsStep == ASSUME IInv, NEW r \in Req, WriteGrants(r) PROVE IInv'
<1>. DEFINE i     == job[r]
            diff  == Differing(i.before, i.want)
            added == {x \in diff : i.before[x] = 0}
            moved == {x \in diff \ added : level[<<i.role, x>>] > 0}
            rows1 == [p \in {i.role} \X (added \union moved) |-> i.want[p[2]]]
            w     == [NoWrite EXCEPT !.level = rows1]
            ok    == \A x \in added : level[<<i.role, x>>] = 0
<1>1. /\ i.op = "replace" /\ i.pc = "write" /\ Local(i, txn[r])
      /\ Write(r, ok, w, "bump") /\ ok \in BOOLEAN
  BY DEF WriteGrants, At, IInv
<1>. HIDE DEF ok, i
<1>2. /\ diff = {x \in DOMAIN i.want : i.want[x] # i.before[x]}
      /\ added \union moved \subseteq DOMAIN i.want
  BY DEF Differing
<1>3. /\ w = [NoWrite EXCEPT !.level = w.level] /\ w.level = rows1
      /\ DOMAIN rows1 = {i.role} \X (added \union moved)
      /\ \A p \in DOMAIN rows1 : rows1[p] = i.want[p[2]]
  BY DEF NoWrite
<1>. HIDE DEF w
<1>4. ASSUME NEW k, Moved(i, "bump", k)
      PROVE  Stage(k) /\ Writes(k, w) /\ Known(k) /\ (~k.stale => Found(k, w))
  <2>1. Stage(k)
    BY <1>1, <1>4 DEF Local, Stage, Moved, Bumps
  <2>2. Writes(k, w)
    <3>1. DOMAIN w.level \subseteq {k.role} \X DOMAIN k.want
      BY <1>2, <1>3, <1>4 DEF Moved
    <3>2. \A p \in DOMAIN w.level : w.level[p] = k.want[p[2]]
      BY <1>3, <1>4 DEF Moved
    <3>. HIDE DEF rows1
    <3>. QED BY <1>1, <1>3, <1>4, <3>1, <3>2 DEF Writes, Moved
  <2>3. Known(k)
    BY <1>1, <1>4 DEF Local, Known, Moved
  <2>4. ASSUME ~k.stale PROVE Found(k, w)
    <3>1. Found(i, txn[r])
      BY <1>1, <1>4, <2>4 DEF Local, Moved, Reader
    <3>2. /\ \A y \in DOMAIN i.want : i.want[y] > 0 => Live(y)
          /\ i.before = Current(i.role, DOMAIN i.want)
      BY <1>1, <3>1 DEF Found
    <3>3. ASSUME NEW y \in DOMAIN i.want, Live(y), i.want[y] # level[<<i.role, y>>]
          PROVE  <<i.role, y>> \in DOMAIN w.level
      <4>1. i.before[y] = level[<<i.role, y>>]
        BY <3>2, <3>3 DEF Current
      <4>2. level[<<i.role, y>>] \in Nat
        <5>1. i.role \in Role /\ y \in Resource
          BY <1>1, <3>3 DEF Local, Stage, OfType
        <5>. QED BY <5>1 DEF IInv, Tables, Pair
      <4>3. y \in added \union moved
        BY <1>2, <3>3, <4>1, <4>2
      <4>. QED BY <1>3, <4>3
    <3>. HIDE DEF rows1
    <3>. QED BY <1>1, <1>4, <3>2, <3>3 DEF Found, Moved
  <2>. QED BY <2>1, <2>2, <2>3, <2>4
<1>. QED BY <1>1, <1>4, StatementStep DEF PC, Reader, i

LEMMA WritePagesStep == ASSUME IInv, NEW r \in Req, WritePages(r) PROVE IInv'
<1>. DEFINE i   == job[r]
            add == {i.x} \X (i.want \ i.before)
            del == ({i.x} \X (i.before \ i.want)) \intersect pages
            w   == [NoWrite EXCEPT !.add = add, !.del = del]
            ok  == add \intersect pages = {}
<1>1. /\ i.op = "setPages" /\ i.pc = "write" /\ Local(i, txn[r])
      /\ Write(r, ok, w, "bump") /\ ok \in BOOLEAN
  BY DEF WritePages, At, IInv
<1>. HIDE DEF ok, i
<1>2. /\ w = [NoWrite EXCEPT !.add = w.add, !.del = w.del]
      /\ w.add \subseteq {i.x} \X i.want
  BY DEF NoWrite
<1>. HIDE DEF w
<1>3. ASSUME NEW k, Moved(i, "bump", k)
      PROVE  Stage(k) /\ Writes(k, w) /\ Known(k) /\ (~k.stale => Found(k, w))
  <2>1. Stage(k)
    BY <1>1, <1>3 DEF Local, Stage, Moved, Bumps
  <2>2. Writes(k, w)
    BY <1>1, <1>2, <1>3 DEF Writes, Moved
  <2>3. Known(k)
    BY <1>1, <1>3 DEF Local, Known, Moved
  <2>4. ASSUME ~k.stale PROVE Found(k, w)
    <3>1. Found(i, txn[r])
      BY <1>1, <1>3, <2>4 DEF Local, Moved, Reader
    <3>. QED BY <1>1, <1>3, <3>1 DEF Found, Moved
  <2>. QED BY <2>1, <2>2, <2>3, <2>4
<1>. QED BY <1>1, <1>3, StatementStep DEF PC, Reader, i

LEMMA BumpStep == ASSUME IInv, NEW r \in Req, Bump(r) PROVE IInv'
<1>. DEFINE j == [job[r] EXCEPT !.pc = "commit"]
            w == txn[r]
<1>1. /\ job[r].pc = "bump" /\ lock = None /\ lock' = r /\ UNCHANGED tables /\ UNCHANGED version
      /\ Local(job[r], w) /\ DOMAIN job = Req /\ DOMAIN txn = Req /\ txn' = txn
      /\ job' = [job EXCEPT ![r].pc = "commit"] /\ Locked /\ None \notin Req
  BY PermissionsAssumption DEF Bump, At, Free, IInv, tables
<1>2. job' = [job EXCEPT ![r] = j] /\ txn' = [txn EXCEPT ![r] = w]
  <2>1. txn = [q \in Req |-> txn[q]]
    BY DEF IInv
  <2>. QED BY <1>1, <2>1
<1>3. Moved(job[r], "commit", j)
  BY <1>1, PcOf DEF Local, PC
<1>. HIDE DEF j, w
<1>4. Bumps(job[r]) /\ Bumps(j) /\ ~Reader(j) /\ ~Reader(job[r])
  BY <1>1, <1>3 DEF Local, Stage, Moved, Bumps, Reader
<1>5. Local(j, w)
  <2>1. Shape(j) /\ Stage(j) /\ Writes(j, w)
    BY <1>1, <1>3, <1>4 DEF Local, Moved, Stage, Writes, Bumps
  <2>2. Known(j)
    BY <1>1, <1>3 DEF Local, Known, Moved
  <2>3. ASSUME ~j.stale PROVE Found(j, w)
    <3>1. Found(job[r], w)
      BY <1>1, <1>3, <1>4, <2>3 DEF Local, Moved
    <3>. QED BY <1>1, <1>3, <3>1 DEF Found, Moved
  <2>. QED BY <1>4, <2>1, <2>2, <2>3 DEF Local
<1>6. /\ job'[r] = j /\ \A q \in Req \ {r} : job'[q] = job[q]
      /\ j.pc = "commit" /\ j.op = job[r].op /\ j.x = job[r].x
  BY <1>1, <1>2, <1>3 DEF Moved
<1>7. Counted'
  <2>1. Writers' = Writers
    BY <1>1, <1>6 DEF Writers, At, Reads
  <2>. QED BY <1>1, <2>1 DEF IInv, Counted
<1>8. Locked'
  <2>1. \A q \in Req : lock' = q <=> job'[q].pc = "commit" /\ Bumps(job'[q])
    BY <1>1, <1>4, <1>6 DEF Locked
  <2>. QED BY <1>1, <2>1 DEF Locked, Bumps
<1>9. Alone'
  BY <1>6 DEF IInv, Alone
<1>. QED BY <1>1, <1>2, <1>5, <1>7, <1>8, <1>9, OneMoves

-------------------------------------------------------------------------------
\* A request begins.
LEMMA BeginStep == ASSUME IInv, NEW r \in Req, NEW j, Begin(r, j), Local(j, NoWrite),
                          j.pc \notin {"idle", "bump", "commit"}, Alone'
                   PROVE  IInv'
<1>1. /\ job[r].pc = "idle" /\ job' = [job EXCEPT ![r] = j] /\ UNCHANGED tables
      /\ UNCHANGED <<version, lock, txn>>
      /\ Reader(j) \/ version + Cardinality(Writers) < MaxVersion
      /\ DOMAIN job = Req /\ Locked /\ Counted /\ Local(job[r], txn[r])
  BY DEF Begin, At, IInv, tables, Reader
<1>2. job'[r] = j /\ \A q \in Req \ {r} : job'[q] = job[q]
  BY <1>1
<1>3. Counted'
  <2>1. r \notin Writers
    BY <1>1 DEF Writers, At
  <2>2. CASE Reader(j)
    <3>1. Writers' = Writers
      BY <1>2, <2>1, <2>2 DEF Writers, At, Reads, Reader
    <3>. QED BY <1>1, <3>1 DEF Counted
  <2>3. CASE ~Reader(j)
    <3>1. Writers' = Writers \union {r}
      BY <1>2, <2>1, <2>3 DEF Writers, At, Reads, Reader
    <3>2. /\ IsFiniteSet(Writers') /\ Cardinality(Writers') = Cardinality(Writers) + 1
          /\ Cardinality(Writers) \in Nat /\ MaxVersion \in Nat
      BY <1>1, <2>1, <3>1, FS_AddElement, FS_CardinalityType, PermissionsAssumption DEF Counted
    <3>. QED BY <1>1, <2>3, <3>2 DEF Counted
  <2>. QED BY <2>2, <2>3
<1>4. Locked'
  <2>1. \A q \in Req : lock' = q <=> job'[q].pc = "commit" /\ Bumps(job'[q])
    BY <1>1, <1>2 DEF Locked
  <2>. QED BY <1>1, <2>1 DEF Locked, Bumps
<1>5. txn' = [txn EXCEPT ![r] = NoWrite]
  BY <1>1, SameWrite
<1>. QED BY <1>1, <1>3, <1>4, <1>5, OneMoves

\* Of what there is nobody is the creator.
LEMMA BeginAlone == ASSUME IInv, NEW r \in Req, NEW j, job' = [job EXCEPT ![r] = j],
                           j.op # "create", j.x = None \/ Created(j.x)
                    PROVE  Alone'
<1>1. /\ job'[r] = j /\ \A q \in Req \ {r} : job'[q] = job[q]
      /\ Alone /\ None \notin Resource
  BY PermissionsAssumption DEF IInv
<1>2. \A q \in Req : job[q].op = "create" => ~Created(job[q].x) /\ job[q].x \in Resource
  BY DEF IInv, Local, Known, Stage
<1>. QED BY <1>1, <1>2 DEF Alone

\* j is a new request.
New1(j, op, l) == /\ DOMAIN j = Fields /\ DOMAIN j.got = Parts /\ j.op = op /\ j.pc = l
                  /\ j.stale = FALSE /\ j.got.ids = {}

LEMMA BeginReplaceStep ==
    ASSUME IInv, NEW r \in Req, NEW c \in Role, NEW t \in {TypeOf[x] : x \in Resource},
           NEW want \in [OfType(t) -> Levels(t)], BeginReplace(r, c, t, want)
    PROVE  IInv'
<1>. DEFINE l == IF \A x \in OfType(t) : want[x] = 0 THEN "before" ELSE "check"
            j == [Blank EXCEPT !.op = "replace", !.role = c, !.want = want, !.pc = l]
<1>1. Begin(r, j)
  BY DEF BeginReplace
<1>2. l \in {"before", "check"} /\ (l = "before" => \A x \in DOMAIN want : ~(want[x] > 0))
  <2>1. l = "before" => \A x \in DOMAIN want : want[x] = 0
    OBVIOUS
  <2>. QED BY <2>1
<1>. HIDE DEF l
<1>3. New1(j, "replace", l) /\ j.role = c /\ j.want = want /\ j.x = None
  BY BlankIs DEF New1, Fields
<1>. HIDE DEF j
<1>4. t \in Type
  BY PermissionsAssumption
<1>5. Shape(j) /\ Stage(j) /\ Writes(j, NoWrite)
  <2>1. \E u \in Type : j.want \in [OfType(u) -> Levels(u)]
    BY <1>3, <1>4
  <2>2. Shape(j) /\ Writes(j, NoWrite)
    BY <1>2, <1>3 DEF New1, Shape, Writes, Op, PC
  <2>. QED BY <1>2, <1>3, <2>1, <2>2 DEF New1, Stage
<1>6. Known(j) /\ Found(j, NoWrite)
  BY <1>2, <1>3 DEF New1, Known, Found
<1>7. Local(j, NoWrite) /\ Alone'
  BY <1>1, <1>3, <1>5, <1>6, BeginAlone DEF Begin, Local, New1, Reader
<1>. QED BY <1>1, <1>2, <1>3, <1>7, BeginStep DEF New1

LEMMA BeginCreateStep ==
    ASSUME IInv, NEW r \in Req, NEW x \in Resource, NEW p \in Resource \union {None},
           BeginCreate(r, x, p)
    PROVE  IInv'
<1>. DEFINE l == IF p = None THEN "write" ELSE "over"
            v == [status |-> "ACTIVE", deleted |-> FALSE, over |-> p]
            j == [Blank EXCEPT !.op = "create", !.x = x, !.want = v, !.pc = l]
<1>1. Begin(r, j) /\ ~Created(x) /\ \A q \in Req : job[q].x # x
  BY DEF BeginCreate, Created
<1>2. l \in {"write", "over"} /\ (l = "write" => p = None)
  OBVIOUS
<1>. HIDE DEF l
<1>3. New1(j, "create", l) /\ j.want = v /\ j.x = x
  BY BlankIs DEF New1, Fields
<1>. HIDE DEF j
<1>4. DOMAIN v = {"status", "deleted", "over"} /\ v.status = "ACTIVE" /\ v.deleted = FALSE /\ v.over = p
  OBVIOUS
<1>. HIDE DEF v
<1>5. Shape(j) /\ Stage(j) /\ Writes(j, NoWrite)
  BY <1>2, <1>3, <1>4 DEF New1, Shape, Stage, Writes, Op, PC
<1>6. Known(j) /\ Found(j, NoWrite)
  BY <1>1, <1>2, <1>3, <1>4 DEF New1, Known, Found
<1>7. Local(j, NoWrite)
  BY <1>3, <1>5, <1>6 DEF Local, New1, Reader
<1>8. Alone'
  <2>1. /\ job'[r] = j /\ \A q \in Req \ {r} : job'[q] = job[q] /\ job[q].x # x
    BY <1>1 DEF IInv, Begin
  <2>. QED BY <1>3, <2>1 DEF IInv, Alone
<1>. QED BY <1>1, <1>2, <1>3, <1>7, <1>8, BeginStep DEF New1

LEMMA ChangedIs == ASSUME NEW old, NEW new
                   PROVE  /\ DOMAIN Changed(old, new) \subseteq DOMAIN new
                          /\ \A c \in DOMAIN Changed(old, new) : Changed(old, new)[c] = new[c]
BY DEF Changed

LEMMA BeginStatusStep ==
    ASSUME IInv, NEW r \in Req, NEW x \in Resource, NEW s \in {"ACTIVE", "DISABLED"},
           BeginStatus(r, x, s)
    PROVE  IInv'
<1>. DEFINE v == Changed(res[x], [status |-> s])
            j == [Blank EXCEPT !.op = "status", !.pc = "write", !.x = x, !.want = v]
<1>1. Begin(r, j) /\ There(x) /\ Created(x)
  BY DEF BeginStatus, There, Created
<1>2. DOMAIN v \subseteq {"status"} /\ ("status" \in DOMAIN v => v["status"] = s)
  BY ChangedIs
<1>. HIDE DEF v
<1>3. New1(j, "status", "write") /\ j.want = v /\ j.x = x
  BY BlankIs DEF New1, Fields
<1>. HIDE DEF j
<1>5. Shape(j) /\ Stage(j) /\ Writes(j, NoWrite)
  BY <1>2, <1>3 DEF New1, Shape, Stage, Writes, Op, PC
<1>6. Known(j) /\ Found(j, NoWrite)
  BY <1>1, <1>3 DEF New1, Known, Found
<1>7. Local(j, NoWrite) /\ Alone'
  BY <1>1, <1>3, <1>5, <1>6, BeginAlone DEF Begin, Local, New1, Reader
<1>. QED BY <1>1, <1>3, <1>7, BeginStep DEF New1

LEMMA BeginDeleteStep ==
    ASSUME IInv, NEW r \in Req, NEW x \in Resource, BeginDelete(r, x)
    PROVE  IInv'
<1>. DEFINE v == Changed(res[x], [status |-> "DISABLED", deleted |-> TRUE])
            j == [Blank EXCEPT !.op = "delete", !.pc = "children", !.x = x, !.want = v]
<1>1. Begin(r, j) /\ There(x) /\ Created(x)
  BY DEF BeginDelete, There, Created
<1>2. /\ DOMAIN v \subseteq {"status", "deleted"}
      /\ "status" \in DOMAIN v => v["status"] = "DISABLED"
      /\ "deleted" \in DOMAIN v => v["deleted"] = TRUE
  BY ChangedIs
<1>. HIDE DEF v
<1>3. New1(j, "delete", "children") /\ j.want = v /\ j.x = x
  BY BlankIs DEF New1, Fields
<1>. HIDE DEF j
<1>5. Shape(j) /\ Stage(j) /\ Writes(j, NoWrite)
  BY <1>2, <1>3 DEF New1, Shape, Stage, Writes, Op, PC
<1>6. Known(j) /\ Found(j, NoWrite)
  BY <1>1, <1>3 DEF New1, Known, Found
<1>7. Local(j, NoWrite) /\ Alone'
  BY <1>1, <1>3, <1>5, <1>6, BeginAlone DEF Begin, Local, New1, Reader
<1>. QED BY <1>1, <1>3, <1>7, BeginStep DEF New1

LEMMA BeginSetPagesStep ==
    ASSUME IInv, NEW r \in Req, NEW m \in OfType("MENU"), NEW S \in SUBSET OfType("PAGE"),
           BeginSetPages(r, m, S)
    PROVE  IInv'
<1>. DEFINE l == IF S = {} THEN "before" ELSE "check"
            j == [Blank EXCEPT !.op = "setPages", !.x = m, !.want = S, !.pc = l]
<1>1. Begin(r, j) /\ There(m) /\ Created(m)
  BY DEF BeginSetPages, There, Created
<1>2. l \in {"before", "check"} /\ (l = "before" => S = {})
  OBVIOUS
<1>. HIDE DEF l
<1>3. New1(j, "setPages", l) /\ j.want = S /\ j.x = m
  BY BlankIs DEF New1, Fields
<1>. HIDE DEF j
<1>5. Shape(j) /\ Stage(j) /\ Writes(j, NoWrite)
  BY <1>2, <1>3 DEF New1, Shape, Stage, Writes, Op, PC
<1>6. Known(j) /\ Found(j, NoWrite)
  BY <1>1, <1>2, <1>3 DEF New1, Known, Found
<1>7. Local(j, NoWrite) /\ Alone'
  BY <1>1, <1>3, <1>5, <1>6, BeginAlone DEF Begin, Local, New1, Reader
<1>. QED BY <1>1, <1>2, <1>3, <1>7, BeginStep DEF New1

LEMMA BeginReadStep ==
    ASSUME IInv, NEW r \in Req, NEW op \in {"contract", "judge"}, BeginRead(r, op)
    PROVE  IInv'
<1>. DEFINE j == [Blank EXCEPT !.op = op, !.pc = "direct", !.since = version]
<1>1. Begin(r, j)
  BY DEF BeginRead
<1>3. New1(j, op, "direct") /\ j.since = version /\ j.x = None
  BY BlankIs DEF New1, Fields
<1>. HIDE DEF j
<1>5. Shape(j) /\ Stage(j) /\ Writes(j, NoWrite)
  BY <1>3 DEF New1, Shape, Stage, Writes, Op, PC
<1>6. Known(j)
  BY <1>3 DEF New1, Known
<1>7. Reading(j)
  <2>1. Asked(j) = {}
    BY <1>3 DEF New1, Asked
  <2>2. UNION {Granted(Effective, t) : t \in Asked(j)} = {}
    BY <2>1
  <2>. QED BY <1>3, <2>2 DEF New1, Reading, Early
<1>8. j.since \in 0..version
  BY <1>3 DEF IInv, Counted
<1>9. Local(j, NoWrite) /\ Alone'
  BY <1>1, <1>3, <1>5, <1>6, <1>7, <1>8, BeginAlone DEF Begin, Local, New1, Reader
<1>. QED BY <1>1, <1>3, <1>9, BeginStep DEF New1

-------------------------------------------------------------------------------
\* A reader goes on.
LEMMA ReaderAt ==
    ASSUME IInv, NEW r \in Req
    PROVE  /\ job[r].pc \in {"direct", "expand", "active", "codes", "fields", "names", "super",
                             "version", "rows", "menuPages", "kept"} \union Binary => Reader(job[r])
           /\ job[r].pc \in {"fields", "names", "super", "version", "rows", "menuPages"}
                              \union (Binary \ {"API"}) => job[r].op = "contract"
BY DEF IInv, Local, Shape, Stage, Op, Binary, Reader

LEMMA TakeStep ==
    ASSUME IInv, NEW r \in Req, NEW l \in PC \ {"idle", "bump", "commit"}, Reader(job[r]),
           NEW g, DOMAIN g = Parts, Take(r, l, g),
           \A k : k.op = job[r].op /\ k.pc = l /\ k.got = g =>
                     Stage(k) /\ (Reading(job[r]) => Reading(k))
    PROVE  IInv'
<1>. DEFINE i == job[r]
            j == [i EXCEPT !.pc = l, !.got = g]
<1>1. /\ Local(i, txn[r]) /\ DOMAIN job = Req /\ UNCHANGED <<tables, lock, txn>>
      /\ job' = [job EXCEPT ![r] = j] /\ i.pc \notin {"idle", "bump", "commit"}
  <2>1. Local(i, txn[r]) /\ DOMAIN job = Req
    BY DEF IInv
  <2>2. i.pc \notin {"idle", "bump", "commit"}
    BY <2>1 DEF Local, Stage, Reader, Binary
  <2>. QED BY <2>1, <2>2 DEF Take
<1>2. /\ DOMAIN j = Fields /\ j.pc = l /\ j.op = i.op /\ j.x = i.x /\ j.got = g
      /\ j.since = i.since /\ j.stale = i.stale
  BY <1>1 DEF Local, Shape, Fields
<1>. HIDE DEF j
<1>3. Stage(j) /\ (Reading(i) => Reading(j))
  BY <1>2
<1>4. Shape(j) /\ Writes(j, NoWrite) /\ Known(j)
  BY <1>1, <1>2 DEF Local, Shape, Writes, Known, Reader
<1>5. Local(j, NoWrite)
  BY <1>1, <1>2, <1>3, <1>4 DEF Local, Reader
<1>. QED BY <1>1, <1>2, <1>5, NoteStep

\* h is g but for one part.
Same(g, h, p) == DOMAIN h = Parts /\ \A q \in Parts \ {p} : h[q] = g[q]

LEMMA GotIs == ASSUME IInv, NEW r \in Req PROVE DOMAIN Got(r) = Parts
BY DEF IInv, Local, Shape, Got

LEMMA ReadDirectStep == ASSUME IInv, NEW r \in Req, ReadDirect(r) PROVE IInv'
<1>. DEFINE i == job[r]
            g == [Got(r) EXCEPT !.roles = roles.holds \intersect roles.active]
<1>1. i.pc = "direct" /\ Take(r, "expand", g)
  BY DEF ReadDirect, At
<1>2. Same(i.got, g, "roles") /\ g.roles = Direct
  BY GotIs DEF Same, Parts, Got, Direct
<1>. HIDE DEF g
<1>3. ASSUME NEW k, k.op = i.op, k.pc = "expand", k.got = g
      PROVE  Stage(k) /\ (Reading(i) => Reading(k))
  <2>1. Stage(k)
    BY <1>1, <1>3, ReaderAt DEF Reader, Stage
  <2>2. Asked(k) = {} /\ Asked(i) = {} /\ g.ids = i.got.ids
    BY <1>1, <1>2, <1>3 DEF Asked, Same, Parts
  <2>. QED BY <1>2, <1>3, <2>1, <2>2 DEF Reading, Early
<1>. QED BY <1>1, <1>2, <1>3, ReaderAt, TakeStep DEF PC, Same

LEMMA ReadInheritedStep == ASSUME IInv, NEW r \in Req, ReadInherited(r) PROVE IInv'
<1>. DEFINE i == job[r]
            g == [Got(r) EXCEPT !.roles = Expand(@)]
<1>1. i.pc = "expand" /\ Take(r, "active", g)
  BY DEF ReadInherited, At
<1>2. Same(i.got, g, "roles") /\ g.roles = Expand(i.got.roles)
  BY GotIs DEF Same, Parts, Got
<1>. HIDE DEF g
<1>3. ASSUME NEW k, k.op = i.op, k.pc = "active", k.got = g
      PROVE  Stage(k) /\ (Reading(i) => Reading(k))
  <2>1. Stage(k)
    BY <1>1, <1>3, ReaderAt DEF Reader, Stage
  <2>2. Asked(k) = {} /\ Asked(i) = {} /\ g.ids = i.got.ids
    BY <1>1, <1>2, <1>3 DEF Asked, Same, Parts
  <2>. QED BY <1>1, <1>2, <1>3, <2>1, <2>2 DEF Reading, Early
<1>. QED BY <1>1, <1>2, <1>3, ReaderAt, TakeStep DEF PC, Same

LEMMA ReadActiveStep == ASSUME IInv, NEW r \in Req, ReadActive(r) PROVE IInv'
<1>. DEFINE i == job[r]
            g == [Got(r) EXCEPT !.roles = @ \intersect roles.active]
            l == IF i.op = "judge" THEN "API" ELSE "PAGE"
<1>1. i.pc = "active" /\ Take(r, l, g)
  BY DEF ReadActive, At
<1>2. Same(i.got, g, "roles") /\ g.roles = i.got.roles \intersect roles.active
  BY GotIs DEF Same, Parts, Got
<1>. HIDE DEF g
<1>3. ASSUME NEW k, k.op = i.op, k.pc = l, k.got = g
      PROVE  Stage(k) /\ (Reading(i) => Reading(k))
  <2>1. Stage(k)
    BY <1>1, <1>3, ReaderAt DEF Reader, Stage, Binary
  <2>2. Asked(k) = {} /\ Asked(i) = {} /\ g.ids = i.got.ids
    BY <1>1, <1>2, <1>3 DEF Asked, Same, Parts
  <2>3. Reading(i) => g.roles = Effective
    BY <1>1, <1>2 DEF Reading, Effective, Direct
  <2>. QED BY <1>1, <1>3, <2>1, <2>2, <2>3 DEF Reading, Early, Binary
<1>4. l \in PC \ {"idle", "bump", "commit"}
  BY DEF PC, Binary
<1>. HIDE DEF l
<1>. QED BY <1>1, <1>2, <1>3, <1>4, ReaderAt, TakeStep DEF Same

LEMMA ReadGrantedStep == ASSUME IInv, NEW r \in Req, NEW t \in Binary, ReadGranted(r, t) PROVE IInv'
<1>. DEFINE i == job[r]
            new == Granted(Got(r).roles, t)
            g == [Got(r) EXCEPT !.ids = @ \union new]
            l == After[t]
<1>1. i.pc = t /\ Take(r, l, g)
  BY DEF ReadGranted, At
<1>2. Same(i.got, g, "ids") /\ g.ids = i.got.ids \union Granted(i.got.roles, t)
  BY GotIs DEF Same, Parts, Got
<1>3. t \in {"PAGE", "MENU", "BUTTON", "API"} /\ l \in {"MENU", "BUTTON", "API", "codes"}
      /\ (t = "PAGE" <=> l = "MENU") /\ (t = "MENU" <=> l = "BUTTON")
      /\ (t = "BUTTON" <=> l = "API") /\ (t = "API" <=> l = "codes")
  BY DEF Binary, After
<1>. HIDE DEF g, l
<1>4. Reader(i) /\ (t # "API" => i.op = "contract")
  BY <1>1, <1>3, ReaderAt DEF Binary
<1>5. ASSUME NEW k, k.op = i.op, k.pc = l, k.got = g
      PROVE  Stage(k) /\ (Reading(i) => Reading(k))
  <2>1. Stage(k)
    BY <1>3, <1>4, <1>5 DEF Reader, Stage, Binary
  <2>2. Asked(k) = Asked(i) \union {t}
    <3>1. CASE t = "PAGE"
      BY <1>1, <1>3, <1>4, <1>5, <3>1 DEF Asked
    <3>2. CASE t = "MENU"
      BY <1>1, <1>3, <1>4, <1>5, <3>2 DEF Asked
    <3>3. CASE t = "BUTTON"
      BY <1>1, <1>3, <1>4, <1>5, <3>3 DEF Asked
    <3>4. CASE t = "API"
      BY <1>1, <1>3, <1>4, <1>5, <3>4 DEF Asked, Reader, Binary
    <3>. QED BY <1>3, <3>1, <3>2, <3>3, <3>4
  <2>3. ASSUME Reading(i) PROVE Reading(k)
    <3>1. g.roles = Effective /\ i.got.roles = Effective /\ g.roles = i.got.roles
      BY <1>1, <1>2, <1>3, <2>3 DEF Reading, Early, Same, Parts
    <3>2. g.ids = UNION {Granted(Effective, u) : u \in Asked(k)}
      <4>1. i.got.ids = UNION {Granted(Effective, u) : u \in Asked(i)}
        BY <2>3 DEF Reading
      <4>. QED BY <1>2, <2>2, <3>1, <4>1
    <3>. QED BY <1>3, <1>5, <3>1, <3>2 DEF Reading, Early, Binary
  <2>. QED BY <2>1, <2>3
<1>6. l \in PC \ {"idle", "bump", "commit"}
  BY <1>3 DEF PC, Binary
<1>. QED BY <1>1, <1>2, <1>4, <1>5, <1>6, TakeStep DEF Same

\* What was granted is live.
LEMMA GrantedIsLive == \A R, t : \A x \in Granted(R, t) : Live(x) /\ x \in Resource
BY DEF Granted, OfType

LEMMA ReadCodesStep == ASSUME IInv, NEW r \in Req, ReadCodes(r) PROVE IInv'
<1>. DEFINE i == job[r]
            g == [Got(r) EXCEPT !.codes = {x \in Got(r).ids : Live(x)}]
            l == IF i.op = "judge" THEN "kept" ELSE "fields"
<1>1. i.pc = "codes" /\ Take(r, l, g) /\ l \in {"kept", "fields"} /\ (l = "kept" <=> i.op = "judge")
  BY DEF ReadCodes, At
<1>2. Same(i.got, g, "codes") /\ g.codes = {x \in i.got.ids : Live(x)}
  BY GotIs DEF Same, Parts, Got
<1>. HIDE DEF g, l
<1>3. Reader(i)
  BY <1>1, ReaderAt
<1>4. ASSUME NEW k, k.op = i.op, k.pc = l, k.got = g
      PROVE  Stage(k) /\ (Reading(i) => Reading(k))
  <2>1. Stage(k)
    BY <1>1, <1>3, <1>4 DEF Reader, Stage
  <2>2. Asked(k) = Asked(i)
    BY <1>1, <1>3, <1>4 DEF Asked, Reader
  <2>3. ASSUME Reading(i) PROVE Reading(k)
    <3>1. /\ i.got.ids = UNION {Granted(Effective, u) : u \in Asked(i)}
          /\ i.got.roles = Effective /\ g.ids = i.got.ids /\ g.roles = i.got.roles
      BY <1>1, <1>2, <2>3 DEF Reading, Early, Same, Parts
    <3>2. g.codes = g.ids
      BY <1>2, <3>1, GrantedIsLive
    <3>. QED BY <1>1, <1>4, <2>2, <3>1, <3>2 DEF Reading, Early, Binary
  <2>. QED BY <2>1, <2>3
<1>5. l \in PC \ {"idle", "bump", "commit"}
  BY <1>1 DEF PC
<1>. QED BY <1>1, <1>2, <1>3, <1>4, <1>5, TakeStep DEF Same

\* A statement of the contract after its codes.
LEMMA ContractStep ==
    ASSUME IInv, NEW r \in Req, NEW l \in {"names", "super", "version", "rows", "menuPages", "kept"},
           job[r].pc = CASE l = "names"     -> "fields"
                         [] l = "super"     -> "names"
                         [] l = "version"   -> "super"
                         [] l = "rows"      -> "version"
                         [] l = "menuPages" -> "rows"
                         [] OTHER           -> "menuPages",
           NEW g, Take(r, l, g), NEW p \in {"levels", "super", "label", "rows", "menus"},
           Same(Got(r), g, p),
           p = CASE l \in {"names", "super"} -> "levels" [] l = "version" -> "super"
                 [] l = "rows" -> "label" [] l = "menuPages" -> "rows" [] OTHER -> "menus",
           Reading(job[r]) =>
             CASE l \in {"names", "super"} -> g.levels = FieldLevels(Effective)
               [] l = "version"   -> g.super = (Super \in roles.holds)
               [] l = "menuPages" -> g.rows = RowsFor(Got(r))
               [] l = "kept"      -> g.menus = MenuPages(g.rows)
               [] OTHER           -> TRUE
    PROVE  IInv'
<1>. DEFINE i == job[r]
<1>1. i.op = "contract" /\ Reader(i)
  BY ReaderAt DEF Reader
<1>2. DOMAIN g = Parts /\ \A q \in Parts \ {p} : g[q] = i.got[q]
  BY DEF Same, Got
<1>3. /\ g.roles = i.got.roles /\ g.ids = i.got.ids /\ g.codes = i.got.codes
      /\ p # "levels" => g.levels = i.got.levels
      /\ p # "super" => g.super = i.got.super
      /\ p # "rows" => g.rows = i.got.rows
  BY <1>2 DEF Parts
<1>4. ASSUME NEW k, k.op = i.op, k.pc = l, k.got = g
      PROVE  Stage(k) /\ (Reading(i) => Reading(k))
  <2>1. Stage(k)
    BY <1>1, <1>4 DEF Stage
  <2>2. Asked(k) = Binary /\ Asked(i) = Binary
    BY <1>1, <1>4 DEF Asked
  <2>3. p # "super" => RowsFor(g) = RowsFor(i.got)
    BY <1>3 DEF RowsFor
  <2>4. ASSUME Reading(i) PROVE Reading(k)
    <3>1. /\ i.got.roles = Effective /\ i.got.ids = UNION {Granted(Effective, u) : u \in Asked(i)}
          /\ i.got.codes = i.got.ids
      BY <2>4 DEF Reading, Early, Binary
    <3>2. l # "names" => g.levels = FieldLevels(Effective)
      BY <1>1, <1>3, <2>4 DEF Reading
    <3>3. l \in {"rows", "menuPages", "kept"} => g.super = (Super \in roles.holds)
      BY <1>1, <1>3, <2>4 DEF Reading
    <3>4. l \in {"menuPages", "kept"} => IF g.super THEN g.rows \subseteq RowsFor(g) ELSE g.rows = RowsFor(g)
      <4>1. CASE l = "menuPages"
        BY <1>3, <2>3, <2>4, <4>1 DEF Got
      <4>2. CASE l = "kept"
        BY <1>1, <1>3, <2>3, <2>4, <4>2 DEF Reading
      <4>. QED BY <4>1, <4>2
    <3>5. l = "names" => g.levels = FieldLevels(Effective)
      BY <2>4
    <3>6. l = "version" => g.super = (Super \in roles.holds)
      BY <2>4
    <3>7. l = "kept" => g.menus = MenuPages(g.rows)
      BY <2>4
    <3>. QED BY <1>1, <1>3, <1>4, <2>2, <3>1, <3>2, <3>3, <3>4, <3>5, <3>6, <3>7
             DEF Reading, Early, Binary
  <2>. QED BY <2>1, <2>4
<1>5. l \in PC \ {"idle", "bump", "commit"}
  BY DEF PC
<1>. QED BY <1>1, <1>2, <1>4, <1>5, TakeStep

LEMMA ReadFieldsStep == ASSUME IInv, NEW r \in Req, ReadFields(r) PROVE IInv'
<1>. DEFINE g == [Got(r) EXCEPT !.levels = FieldLevels(Got(r).roles)]
<1>1. job[r].pc = "fields" /\ Take(r, "names", g)
  BY DEF ReadFields, At
<1>2. Same(Got(r), g, "levels") /\ g.levels = FieldLevels(Got(r).roles)
  BY GotIs DEF Same, Parts
<1>. HIDE DEF g
<1>3. Reading(job[r]) => g.levels = FieldLevels(Effective)
  BY <1>1, <1>2 DEF Reading, Early, Got
<1>. QED BY <1>1, <1>2, <1>3, ContractStep

LEMMA ReadFieldNamesStep == ASSUME IInv, NEW r \in Req, ReadFieldNames(r) PROVE IInv'
<1>. DEFINE l == Got(r).levels
            kept == [f \in {f \in DOMAIN l : Live(f)} |-> l[f]]
            g == [Got(r) EXCEPT !.levels = kept]
<1>1. job[r].pc = "names" /\ Take(r, "super", g)
  BY DEF ReadFieldNames, At
<1>2. Same(Got(r), g, "levels") /\ g.levels = kept
  BY GotIs DEF Same, Parts
<1>. HIDE DEF g
<1>3. job[r].op = "contract"
  BY <1>1, ReaderAt
<1>4. ASSUME Reading(job[r]) PROVE g.levels = FieldLevels(Effective)
  <2>1. l = FieldLevels(Effective)
    BY <1>1, <1>3, <1>4 DEF Reading, Got
  <2>2. l = [f \in Granted(Effective, "FIELD") |-> LevelOf(Effective, f)]
    BY <2>1 DEF FieldLevels
  <2>. HIDE DEF l
  <2>3. {f \in DOMAIN l : Live(f)} = Granted(Effective, "FIELD")
    BY <2>2, GrantedIsLive
  <2>4. kept = l
    BY <2>2, <2>3
  <2>. QED BY <1>2, <2>1, <2>4
<1>. QED BY <1>1, <1>2, <1>4, ContractStep

LEMMA ReadSuperStep == ASSUME IInv, NEW r \in Req, ReadSuper(r) PROVE IInv'
<1>. DEFINE g == [Got(r) EXCEPT !.super = Super \in roles.holds]
<1>1. job[r].pc = "super" /\ Take(r, "version", g)
  BY DEF ReadSuper, At
<1>2. Same(Got(r), g, "super") /\ g.super = (Super \in roles.holds)
  BY GotIs DEF Same, Parts
<1>. HIDE DEF g
<1>. QED BY <1>1, <1>2, ContractStep

LEMMA ReadVersionStep == ASSUME IInv, NEW r \in Req, ReadVersion(r) PROVE IInv'
<1>. DEFINE g == [Got(r) EXCEPT !.label = version]
<1>1. job[r].pc = "version" /\ Take(r, "rows", g)
  BY DEF ReadVersion, At
<1>2. Same(Got(r), g, "label")
  BY GotIs DEF Same, Parts
<1>. HIDE DEF g
<1>. QED BY <1>1, <1>2, ContractStep

LEMMA ReadRowsStep == ASSUME IInv, NEW r \in Req, ReadRows(r) PROVE IInv'
<1>. DEFINE g == [Got(r) EXCEPT !.rows = RowsFor(Got(r))]
<1>1. job[r].pc = "rows" /\ Take(r, "menuPages", g)
  BY DEF ReadRows, At
<1>2. Same(Got(r), g, "rows") /\ g.rows = RowsFor(Got(r))
  BY GotIs DEF Same, Parts
<1>. HIDE DEF g
<1>. QED BY <1>1, <1>2, ContractStep

LEMMA ReadMenuPagesStep == ASSUME IInv, NEW r \in Req, ReadMenuPages(r) PROVE IInv'
<1>. DEFINE g == [Got(r) EXCEPT !.menus = MenuPages(Got(r).rows)]
<1>1. job[r].pc = "menuPages" /\ Take(r, "kept", g)
  BY DEF ReadMenuPages, At
<1>2. Same(Got(r), g, "menus") /\ g.menus = MenuPages(Got(r).rows)
  BY GotIs DEF Same, Parts
<1>. HIDE DEF g
<1>3. g.rows = Got(r).rows
  BY <1>2 DEF Same, Parts
<1>. QED BY <1>1, <1>2, <1>3, ContractStep


LEMMA ForgetStep == ASSUME IInv, NEW r \in Req, Forget(r) PROVE IInv'
BY RaiseStep DEF Forget

-------------------------------------------------------------------------------
\* What a row is after an UPDATE.
LEMMA RowSet ==
    ASSUME NEW row \in Row, NEW w,
           "status" \in DOMAIN w => w["status"] \in {"ACTIVE", "DISABLED"},
           "deleted" \in DOMAIN w => w["deleted"] \in BOOLEAN,
           "over" \in DOMAIN w => w["over"] \in Resource \union {None}
    PROVE  /\ Set(row, w) \in Row
           /\ Set(row, w).status = IF "status" \in DOMAIN w THEN w["status"] ELSE row.status
           /\ Set(row, w).deleted = IF "deleted" \in DOMAIN w THEN w["deleted"] ELSE row.deleted
           /\ Set(row, w).over = IF "over" \in DOMAIN w THEN w["over"] ELSE row.over
<1>1. DOMAIN row = {"status", "deleted", "over"}
  BY DEF Row
<1>2. Set(row, w) = [status  |-> IF "status" \in DOMAIN w THEN w["status"] ELSE row.status,
                     deleted |-> IF "deleted" \in DOMAIN w THEN w["deleted"] ELSE row.deleted,
                     over    |-> IF "over" \in DOMAIN w THEN w["over"] ELSE row.over]
  BY <1>1 DEF Set
<1>. QED BY <1>2 DEF Row

ResOps == {"create", "status", "delete"}

\* The request whose transaction is committed.
LEMMA Committer ==
    ASSUME IInv, NEW r \in Req, job[r].pc = "commit"
    PROVE  /\ Local(job[r], txn[r]) /\ ~Reader(job[r])
           /\ job[r].op \in ResOps \union {"replace", "setPages"}
           /\ lock = r <=> Bumps(job[r])
           /\ job[r].op \in ResOps => job[r].x \in Resource
<1>1. Local(job[r], txn[r]) /\ Locked
  BY DEF IInv
<1>2. job[r].op \in Op /\ job[r].op # "none"
  BY <1>1 DEF Local, Shape, Stage
<1>3. ~Reader(job[r])
  BY <1>1 DEF Local, Stage, Reader, Binary
<1>. QED BY <1>1, <1>2, <1>3 DEF Op, Reader, ResOps, Locked, Local, Stage

LEMMA SetNothing == ASSUME NEW row \in Row, NEW w, DOMAIN w = {} PROVE Set(row, w) = row
<1>1. row = [c \in DOMAIN row |-> row[c]]
  BY DEF Row
<1>2. Set(row, w) = [c \in DOMAIN row |-> row[c]]
  BY DEF Set
<1>. QED BY <1>1, <1>2

\* What each kind of commit leaves, and what it changes.
LEMMA CommitIs ==
    ASSUME IInv, NEW r \in Req, Commit(r)
    PROVE  /\ job[r].op \notin ResOps => res' = res
           /\ job[r].op # "replace" => level' = level
           /\ job[r].op # "setPages" => pages' = pages
           /\ roles' = roles
           /\ job[r].op \in ResOps =>
                /\ \A x \in Resource \ {job[r].x} : res'[x] = res[x]
                /\ res'[job[r].x] = Set(res[job[r].x], job[r].want)
           /\ job[r].op = "replace" => \A p \in Pair :
                level'[p] = IF p \in DOMAIN txn[r].level THEN job[r].want[p[2]] ELSE level[p]
           /\ DOMAIN res' = Resource /\ DOMAIN level' = Pair
           /\ res' = [x \in Resource |-> res'[x]] /\ level' = [p \in Pair |-> level'[p]]
<1>. DEFINE j == job[r]
            w == txn[r]
<1>1. /\ j.pc = "commit" /\ roles' = roles
      /\ res'   = [x \in Resource |-> IF x \in DOMAIN w.res THEN Set(res[x], w.res[x]) ELSE res[x]]
      /\ level' = Set(level, w.level) /\ pages' = (pages \ w.del) \union w.add
  BY DEF Commit, At
<1>2. /\ res = [x \in Resource |-> res[x]] /\ level = [p \in Pair |-> level[p]]
      /\ DOMAIN res = Resource /\ DOMAIN level = Pair
      /\ \A x \in Resource : res[x] \in Row
  BY DEF IInv, Tables
<1>3. /\ j.op \in ResOps \union {"replace", "setPages"} /\ Writes(j, w)
      /\ j.op \in ResOps => j.x \in Resource
  BY <1>1, Committer DEF Local
<1>4. level' = [p \in Pair |-> IF p \in DOMAIN w.level THEN w.level[p] ELSE level[p]]
  BY <1>1, <1>2 DEF Set
<1>5. CASE j.op = "replace"
  <2>1. w = [NoWrite EXCEPT !.level = w.level] /\ \A p \in DOMAIN w.level : w.level[p] = j.want[p[2]]
    BY <1>1, <1>3, <1>5 DEF Writes
  <2>2. DOMAIN w.res = {} /\ w.add = {} /\ w.del = {}
    BY <2>1, NoWriteIs
  <2>3. res' = res /\ pages' = pages
    BY <1>1, <1>2, <2>2
  <2>. QED BY <1>1, <1>2, <1>4, <1>5, <2>1, <2>3 DEF ResOps
<1>6. CASE j.op = "setPages"
  <2>1. w = [NoWrite EXCEPT !.add = w.add, !.del = w.del]
    BY <1>1, <1>3, <1>6 DEF Writes
  <2>2. DOMAIN w.res = {} /\ DOMAIN w.level = {}
    BY <2>1, NoWriteIs
  <2>3. res' = res /\ level' = level
    BY <1>1, <1>2, <1>4, <2>2
  <2>. QED BY <1>1, <1>2, <1>6, <2>3 DEF ResOps
<1>7. CASE j.op \in ResOps
  <2>1. \/ w = [NoWrite EXCEPT !.res = [y \in {j.x} |-> j.want]]
        \/ w = [NoWrite EXCEPT !.res = <<>>] /\ DOMAIN j.want = {}
    BY <1>1, <1>3, <1>7 DEF Writes, ResOps
  <2>2. /\ DOMAIN w.level = {} /\ w.add = {} /\ w.del = {}
        /\ \/ w.res = [y \in {j.x} |-> j.want]
           \/ w.res = <<>> /\ DOMAIN j.want = {}
    <3>1. CASE w = [NoWrite EXCEPT !.res = [y \in {j.x} |-> j.want]]
      BY <3>1, NoWriteIs
    <3>2. CASE w = [NoWrite EXCEPT !.res = <<>>] /\ DOMAIN j.want = {}
      BY <3>2, NoWriteIs
    <3>. QED BY <2>1, <3>1, <3>2
  <2>3. level' = level /\ pages' = pages
    BY <1>1, <1>2, <1>4, <2>2
  <2>4. /\ \A x \in Resource \ {j.x} : res'[x] = res[x]
        /\ res'[j.x] = Set(res[j.x], j.want)
    <3>1. CASE w.res = [y \in {j.x} |-> j.want]
      <4>1. DOMAIN w.res = {j.x} /\ w.res[j.x] = j.want
        BY <3>1
      <4>. QED BY <1>1, <1>3, <1>7, <4>1
    <3>2. CASE w.res = <<>> /\ DOMAIN j.want = {}
      <4>1. \A x \in Resource : res'[x] = res[x]
        BY <1>1, <3>2
      <4>2. Set(res[j.x], j.want) = res[j.x]
        BY <1>2, <1>3, <1>7, <3>2, SetNothing
      <4>. QED BY <1>3, <1>7, <4>1, <4>2
    <3>. QED BY <2>2, <3>1, <3>2
  <2>. QED BY <1>1, <1>2, <1>7, <2>3, <2>4 DEF ResOps
<1>. QED BY <1>3, <1>5, <1>6, <1>7

\* The row that a commit changes.
LEMMA RowIs ==
    ASSUME IInv, NEW r \in Req, Commit(r), job[r].op \in ResOps
    PROVE  LET x == job[r].x
               w == job[r].want
           IN  /\ x \in Resource /\ res'[x] \in Row
               /\ res'[x].status = IF "status" \in DOMAIN w THEN w["status"] ELSE res[x].status
               /\ res'[x].deleted = IF "deleted" \in DOMAIN w THEN w["deleted"] ELSE res[x].deleted
               /\ res'[x].over = IF "over" \in DOMAIN w THEN w["over"] ELSE res[x].over
               /\ "status" \in DOMAIN w => w["status"] \in {"ACTIVE", "DISABLED"}
               /\ DOMAIN w = {} => res'[x] = res[x]
<1>. DEFINE x == job[r].x
            w == job[r].want
<1>1. job[r].pc = "commit"
  BY DEF Commit, At
<1>2. x \in Resource /\ Stage(job[r]) /\ res'[x] = Set(res[x], w) /\ res[x] \in Row
  BY <1>1, Committer, CommitIs DEF Local, IInv, Tables
<1>3. /\ "status" \in DOMAIN w => w["status"] \in {"ACTIVE", "DISABLED"}
      /\ "deleted" \in DOMAIN w => w["deleted"] \in BOOLEAN
      /\ "over" \in DOMAIN w => w["over"] \in Resource \union {None}
  BY <1>2 DEF Stage, ResOps
<1>4. DOMAIN w = {} => Set(res[x], w) = res[x]
  BY <1>2, SetNothing
<1>. HIDE DEF x, w
<1>5. /\ Set(res[x], w) \in Row
      /\ Set(res[x], w).status = IF "status" \in DOMAIN w THEN w["status"] ELSE res[x].status
      /\ Set(res[x], w).deleted = IF "deleted" \in DOMAIN w THEN w["deleted"] ELSE res[x].deleted
      /\ Set(res[x], w).over = IF "over" \in DOMAIN w THEN w["over"] ELSE res[x].over
  BY <1>2, <1>3, RowSet
<1>. QED BY <1>2, <1>3, <1>4, <1>5 DEF x, w

\* What is there is never absent again, and the tables keep their types.
LEMMA CommitKeeps ==
    ASSUME IInv, NEW r \in Req, Commit(r)
    PROVE  \A x \in Resource : Created(x) => Created(x)'
<1>1. CASE job[r].op \in ResOps
  BY <1>1, CommitIs, RowIs DEF Created
<1>2. CASE job[r].op \notin ResOps
  BY <1>2, CommitIs DEF Created
<1>. QED BY <1>1, <1>2

LEMMA CommitTables == ASSUME IInv, NEW r \in Req, Commit(r) PROVE Tables'
<1>. DEFINE j == job[r]
<1>1. /\ j.pc = "commit" /\ Tables /\ Local(j, txn[r]) /\ roles' = roles
      /\ j.op \in ResOps \union {"replace", "setPages"}
  BY Committer, CommitIs DEF Commit, At, IInv
<1>2. \A x \in Resource : Created(x) => Created(x)'
  BY CommitKeeps
<1>3. res' \in [Resource -> Row]
  <2>1. \A x \in Resource : res'[x] \in Row
    <3>1. CASE j.op \in ResOps
      BY <1>1, <3>1, CommitIs, RowIs DEF Tables
    <3>2. CASE j.op \notin ResOps
      BY <1>1, <3>2, CommitIs DEF Tables
    <3>. QED BY <3>1, <3>2
  <2>. QED BY <2>1, CommitIs
<1>4. /\ level' \in [Pair -> Nat]
      /\ \A p \in Pair : level'[p] \in Levels(TypeOf[p[2]]) /\ (level'[p] > 0 => Created(p[2])')
  <2>1. \A p \in Pair : p[2] \in Resource
    BY DEF Pair
  <2>2. CASE j.op = "replace"
    <3>1. PICK t \in Type : j.want \in [OfType(t) -> Levels(t)]
      BY <1>1, <2>2 DEF Local, Stage
    <3>2. \A p \in DOMAIN txn[r].level : p[2] \in OfType(t)
      BY <1>1, <2>2, <3>1 DEF Local, Writes
    <3>3. \A y \in OfType(t) : TypeOf[y] = t /\ y \in Resource
                               /\ j.want[y] \in Levels(t) /\ (j.want[y] > 0 => Created(y))
      BY <1>1, <2>2, <3>1 DEF Local, Known, OfType
    <3>4. \A p \in Pair : level'[p] \in Levels(TypeOf[p[2]]) /\ (level'[p] > 0 => Created(p[2])')
      <4>. SUFFICES ASSUME NEW p \in Pair
                    PROVE  level'[p] \in Levels(TypeOf[p[2]]) /\ (level'[p] > 0 => Created(p[2])')
        OBVIOUS
      <4>1. CASE p \in DOMAIN txn[r].level
        BY <1>2, <2>1, <2>2, <3>2, <3>3, <4>1, CommitIs
      <4>2. CASE p \notin DOMAIN txn[r].level
        BY <1>1, <1>2, <2>1, <2>2, <4>2, CommitIs DEF Tables
      <4>. QED BY <4>1, <4>2
    <3>5. \A p \in Pair : level'[p] \in Nat
      BY <3>4, PermissionsAssumption DEF Levels
    <3>. QED BY <3>4, <3>5, CommitIs
  <2>3. CASE j.op # "replace"
    BY <1>1, <1>2, <2>1, <2>3, CommitIs DEF Tables
  <2>. QED BY <2>2, <2>3
<1>5. /\ pages' \subseteq OfType("MENU") \X OfType("PAGE")
      /\ \A e \in pages' : Created(e[1])' /\ Created(e[2])'
  <2>1. \A e \in pages : e[1] \in Resource /\ e[2] \in Resource
    BY <1>1 DEF Tables, OfType
  <2>2. CASE j.op = "setPages"
    <3>1. /\ pages' = (pages \ txn[r].del) \union txn[r].add
          /\ txn[r].add \subseteq {j.x} \X j.want /\ j.x \in OfType("MENU")
          /\ j.want \subseteq OfType("PAGE") /\ Created(j.x) /\ \A y \in j.want : Created(y)
      BY <1>1, <2>2 DEF Commit, Local, Writes, Stage, Known
    <3>2. \A e \in txn[r].add : e[1] = j.x /\ e[2] \in j.want
      BY <3>1
    <3>3. \A e \in txn[r].add : e \in OfType("MENU") \X OfType("PAGE")
      BY <3>1
    <3>4. pages' \subseteq OfType("MENU") \X OfType("PAGE")
      BY <1>1, <3>1, <3>3 DEF Tables
    <3>5. \A e \in pages' : Created(e[1]) /\ Created(e[2]) /\ e[1] \in Resource /\ e[2] \in Resource
      BY <1>1, <2>1, <3>1, <3>2 DEF Tables, OfType
    <3>. QED BY <1>2, <3>4, <3>5
  <2>3. CASE j.op # "setPages"
    BY <1>1, <1>2, <2>1, <2>3, CommitIs DEF Tables
  <2>. QED BY <2>2, <2>3
<1>. QED BY <1>1, <1>3, <1>4, <1>5 DEF Tables

-------------------------------------------------------------------------------
\* A commit without a version only adds a resource.
LEMMA QuietCommit ==
    ASSUME IInv, NEW r \in Req, Commit(r), lock # r
    PROVE  /\ level' = level /\ pages' = pages /\ roles' = roles
           /\ \A x \in Resource : Created(x) => res'[x] = res[x]
<1>1. ~Bumps(job[r]) /\ Local(job[r], txn[r]) /\ job[r].op \in ResOps \union {"replace", "setPages"}
  BY Committer DEF Commit, At
<1>2. job[r].op = "create" \/ (job[r].op = "status" /\ DOMAIN job[r].want = {})
  BY <1>1 DEF Bumps, ResOps
<1>3. /\ level' = level /\ pages' = pages /\ roles' = roles
      /\ \A x \in Resource \ {job[r].x} : res'[x] = res[x]
  BY <1>2, CommitIs DEF ResOps
<1>4. CASE job[r].op = "create"
  BY <1>1, <1>3, <1>4 DEF Local, Known
<1>5. CASE job[r].op = "status" /\ DOMAIN job[r].want = {}
  BY <1>3, <1>5, RowIs DEF ResOps
<1>. QED BY <1>2, <1>3, <1>4, <1>5

\* Nobody has been granted what is not there.
LEMMA GrantedStays ==
    ASSUME Tables, UNCHANGED <<level, pages, roles>>,
           \A x \in Resource : Created(x) => res'[x] = res[x]
    PROVE  /\ \A t : \A R \in SUBSET Role : Granted(R, t)' = Granted(R, t)
           /\ \A S : Expand(S)' = Expand(S)
           /\ Direct' = Direct /\ Effective' = Effective /\ Effective \subseteq Role
           /\ FieldLevels(Effective)' = FieldLevels(Effective)
           /\ \A S : MenuPages(S)' = MenuPages(S)
           /\ \A g : RowsFor(g) \subseteq RowsFor(g)'
           /\ \A g : ~g.super /\ (\A x \in g.ids : x \in Resource => Created(x))
                       => RowsFor(g)' = RowsFor(g)
<1>1. \A x \in Resource : Live(x) => Created(x)
  BY DEF Live, Created
<1>2. \A x \in Resource : Created(x) => (Live(x)' <=> Live(x))
  BY DEF Live
<1>3. ASSUME NEW R \in SUBSET Role, NEW t PROVE Granted(R, t)' = Granted(R, t)
  <2>1. \A x \in OfType(t) : \A c \in R : <<c, x>> \in Pair /\ x \in Resource
    BY DEF OfType, Pair
  <2>2. \A x \in OfType(t) : \A c \in R : level[<<c, x>>] > 0 => Created(x)
    BY <2>1 DEF Tables
  <2>. QED BY <1>1, <1>2, <2>1, <2>2 DEF Granted, OfType
<1>4. \A S : Expand(S)' = Expand(S) /\ MenuPages(S)' = MenuPages(S)
  BY DEF Expand, MenuPages
<1>5. Direct' = Direct /\ Effective' = Effective /\ Effective \subseteq Role
  BY <1>4 DEF Direct, Effective, Expand
<1>6. FieldLevels(Effective)' = FieldLevels(Effective)
  <2>1. Granted(Effective, "FIELD")' = Granted(Effective, "FIELD")
    BY <1>3, <1>5
  <2>. QED BY <1>5, <2>1 DEF FieldLevels, LevelOf
<1>7. \A g : RowsFor(g) \subseteq RowsFor(g)'
  BY <1>1, <1>2 DEF RowsFor
<1>8. ASSUME NEW g, ~g.super, \A x \in g.ids : x \in Resource => Created(x)
      PROVE  RowsFor(g)' = RowsFor(g)
  BY <1>2, <1>8 DEF RowsFor
<1>. QED BY <1>3, <1>4, <1>5, <1>6, <1>7, <1>8

LEMMA ReadingStays ==
    ASSUME Tables, UNCHANGED <<level, pages, roles>>,
           \A x \in Resource : Created(x) => res'[x] = res[x],
           NEW j, Reading(j)
    PROVE  Reading(j)'
<1>. DEFINE g == j.got
<1>1. /\ Direct' = Direct /\ Expand(Direct)' = Expand(Direct) /\ Effective' = Effective
      /\ FieldLevels(Effective)' = FieldLevels(Effective) /\ Effective \subseteq Role
      /\ MenuPages(g.rows)' = MenuPages(g.rows)
  BY GrantedStays
<1>2. UNION {Granted(Effective, t) : t \in Asked(j)}' = UNION {Granted(Effective, t) : t \in Asked(j)}
  <2>1. \A t : Granted(Effective, t)' = Granted(Effective, t)
    BY <1>1, GrantedStays
  <2>2. Asked(j)' = Asked(j)
    BY DEF Asked
  <2>. QED BY <2>1, <2>2
<1>3. g.ids = UNION {Granted(Effective, t) : t \in Asked(j)}
  BY DEF Reading
<1>4. \A x \in g.ids : x \in Resource => Created(x)
  BY <1>3, GrantedIsLive DEF Live, Created
<1>5. IF g.super THEN RowsFor(g) \subseteq RowsFor(g)' ELSE RowsFor(g)' = RowsFor(g)
  BY <1>4, GrantedStays
<1>. HIDE DEF g
<1>6. /\ j.pc = "expand" => g.roles = Direct'
      /\ j.pc = "active" => g.roles = Expand(Direct)'
      /\ j.pc \notin Early => g.roles = Effective'
      /\ j.pc \notin Early \union Binary \union {"codes"} => g.codes = g.ids
      /\ j.pc \in {"names", "super", "version", "rows", "menuPages", "kept"} /\ j.op = "contract" =>
             g.levels = FieldLevels(Effective)'
      /\ j.pc \in {"version", "rows", "menuPages", "kept"} /\ j.op = "contract" =>
             g.super = (Super \in roles'.holds)
      /\ j.pc = "kept" /\ j.op = "contract" => g.menus = MenuPages(g.rows)'
  BY <1>1 DEF Reading, g
<1>7. j.pc \in {"menuPages", "kept"} /\ j.op = "contract" =>
             IF g.super THEN g.rows \subseteq RowsFor(g)' ELSE g.rows = RowsFor(g)'
  BY <1>5 DEF Reading, g
<1>8. g.ids = UNION {Granted(Effective, t) : t \in Asked(j)}'
  BY <1>2, <1>3
<1>. QED BY <1>6, <1>7, <1>8 DEF Reading, g

\* k is j, but that somebody has committed.
Overtaken(j, k, w) == /\ Shape(k) /\ Stage(k) /\ Writes(k, w) /\ k.stale = TRUE
                      /\ k.op = j.op /\ k.pc = j.pc /\ k.x = j.x /\ k.want = j.want

LEMMA StaleIs == ASSUME NEW j, NEW w, Local(j, w)
                 PROVE  Overtaken(j, [j EXCEPT !.stale = TRUE], w)
<1>. DEFINE k == [j EXCEPT !.stale = TRUE]
<1>1. Shape(j) /\ Stage(j) /\ Writes(j, w)
  BY DEF Local
<1>2. /\ DOMAIN k = Fields /\ k.pc = j.pc /\ k.op = j.op /\ k.x = j.x /\ k.role = j.role
      /\ k.want = j.want /\ k.before = j.before /\ k.got = j.got
      /\ k.since = j.since /\ k.stale = TRUE
  BY <1>1 DEF Shape, Fields
<1>. HIDE DEF k
<1>3. Shape(k)
  BY <1>1, <1>2 DEF Shape
<1>4. Stage(k)
  BY <1>1, <1>2 DEF Stage, Bumps
<1>5. Writes(k, w)
  BY <1>1, <1>2 DEF Writes
<1>. QED BY <1>2, <1>3, <1>4, <1>5 DEF k, Overtaken

\* An idle request knows nothing that could change.
LEMMA BlankIsLocalToo == Local(Blank, NoWrite)'
<1>1. (Known(Blank) /\ Found(Blank, NoWrite))'
  BY BlankIs DEF Known, Found
<1>. QED BY <1>1, BlankIsLocal, BlankIs DEF Local

\* What the others know once somebody has committed: i is what one of them was
\* and k what it is.
LEMMA OthersAfterCommit ==
    ASSUME IInv, NEW r \in Req, Commit(r), NEW q \in Req \ {r},
           NEW i, i = job[q], NEW k, k = job'[q], NEW v, v = txn[q]
    PROVE  /\ Local(k, v)' /\ v = txn'[q]
           /\ \/ k.pc = i.pc /\ k.op = i.op /\ k.x = i.x
              \/ k = Blank /\ i.pc = "kept"
           /\ Bumps(k) <=> Bumps(i)
<1>1. /\ k = IF i.pc = "kept" /\ lock = r THEN Blank
             ELSE IF q \in Writers THEN [i EXCEPT !.stale = TRUE] ELSE i
      /\ v = txn'[q] /\ Local(i, v) /\ version \in Nat
      /\ version' = version + (IF lock = r THEN 1 ELSE 0)
  BY DEF Commit, At, IInv, Counted
<1>2. Shape(i) /\ Stage(i) /\ Writes(i, v) /\ Known(i)
  BY <1>1 DEF Local
<1>3. Known(i)'
  <2>1. \A x \in Resource : Created(x) => Created(x)'
    BY CommitKeeps
  <2>2. i.op = "create" => i.x \in Resource /\ ~Created(i.x)
    BY <1>2 DEF Stage, Known
  <2>3. i.op = "create" => ~Created(i.x)'
    <3>1. CASE job[r].op = "create"
      <4>1. i.op = "create" => i.x # job[r].x
        BY <3>1 DEF IInv, Alone
      <4>. QED BY <2>2, <3>1, <4>1, CommitIs DEF Created, ResOps
    <3>2. CASE job[r].op \in ResOps /\ job[r].op # "create"
      <4>1. Created(job[r].x)
        BY <3>2, Committer DEF Local, Known, ResOps, Commit, At
      <4>. QED BY <2>2, <3>2, <4>1, CommitIs DEF Created
    <3>3. CASE job[r].op \notin ResOps
      BY <2>2, <3>3, CommitIs DEF Created
    <3>. QED BY <3>1, <3>2, <3>3
  <2>4. /\ i.op \in {"status", "delete", "setPages"} => i.x \in Resource
        /\ i.op = "setPages" => i.want \subseteq Resource
        /\ i.op = "replace" => DOMAIN i.want \subseteq Resource
    BY <1>2 DEF Stage, OfType
  <2>5. i.op \in {"status", "delete", "setPages"} => Created(i.x)'
    BY <1>2, <2>1, <2>4 DEF Known
  <2>6. i.op = "replace" /\ i.pc # "check" =>
          \A y \in DOMAIN i.want : i.want[y] > 0 => Created(y)'
    BY <1>2, <2>1, <2>4 DEF Known
  <2>7. i.op = "setPages" /\ i.pc # "check" => \A y \in i.want : Created(y)'
    BY <1>2, <2>1, <2>4 DEF Known
  <2>. QED BY <2>3, <2>5, <2>6, <2>7 DEF Known
<1>4. CASE i.pc = "kept" /\ lock = r
  <2>1. k = Blank /\ v = NoWrite
    BY <1>1, <1>2, <1>4 DEF Writes
  <2>2. ~Bumps(i)
    BY <1>2, <1>4 DEF Stage, Bumps
  <2>3. Local(k, v)'
    BY <2>1, BlankIsLocalToo
  <2>. QED BY <1>1, <1>4, <2>1, <2>2, <2>3, BlankIs
<1>5. CASE ~(i.pc = "kept" /\ lock = r) /\ q \in Writers
  <2>1. /\ Shape(k) /\ Stage(k) /\ Writes(k, v) /\ k.stale = TRUE
        /\ k.op = i.op /\ k.pc = i.pc /\ k.x = i.x /\ k.want = i.want
    <3>1. k = [i EXCEPT !.stale = TRUE]
      BY <1>1, <1>5
    <3>2. Local(i, v)
      BY <1>1
    <3>3. Overtaken(i, k, v)
      BY <3>1, <3>2, StaleIs
    <3>. QED BY <3>3 DEF Overtaken
  <2>2. Known(k)'
    BY <1>3, <2>1 DEF Known
  <2>3. ~Reader(k)
    BY <1>5, <2>1 DEF Writers, Reads, Reader
  <2>4. Local(k, v)'
    BY <2>1, <2>2, <2>3 DEF Local
  <2>. QED BY <1>1, <2>1, <2>4 DEF Bumps
<1>6. CASE ~(i.pc = "kept" /\ lock = r) /\ q \notin Writers
  <2>1. k = i /\ (i.pc = "idle" \/ Reader(i))
    BY <1>1, <1>6 DEF Writers, At, Reads, Reader
  <2>2. ASSUME Reader(i)
        PROVE  i.since \in 0..version' /\ (i.since = version' => Reading(i)')
    <3>1. i.since \in 0..version /\ (i.since = version => Reading(i))
      BY <1>1, <2>2 DEF Local
    <3>2. CASE lock = r
      <4>1. version' = version + 1
        BY <1>1, <3>2
      <4>. QED BY <1>1, <3>1, <4>1
    <3>3. CASE lock # r
      <4>1. version' = version
        BY <1>1, <3>3
      <4>2. Reading(i) => Reading(i)'
        BY <3>3, QuietCommit, ReadingStays DEF IInv
      <4>. QED BY <3>1, <4>1, <4>2
    <3>. QED BY <3>2, <3>3
  <2>3. ~Reader(i) => Found(i, v)'
    BY <1>2, <2>1 DEF Stage, Found
  <2>4. Local(i, v)'
    BY <1>2, <1>3, <2>2, <2>3 DEF Local
  <2>. QED BY <1>1, <2>1, <2>4
<1>. QED BY <1>4, <1>5, <1>6

LEMMA CommitStep == ASSUME IInv, NEW r \in Req, Commit(r) PROVE IInv'
<1>1. /\ job[r].pc = "commit" /\ lock' = (IF lock = r THEN None ELSE lock)
      /\ job' = [q \in Req |-> job'[q]] /\ job'[r] = Blank
      /\ txn' = [txn EXCEPT ![r] = NoWrite] /\ DOMAIN txn = Req
      /\ version' = version + (IF lock = r THEN 1 ELSE 0)
      /\ None \notin Req \union Resource
  BY PermissionsAssumption DEF Commit, At, Unlock, IInv
<1>2. /\ txn' = [q \in Req |-> txn'[q]] /\ txn'[r] = NoWrite
      /\ \A q \in Req \ {r} : txn'[q] = txn[q]
  BY <1>1
<1>3. \A q \in Req : Local(job[q], txn[q])'
  <2>1. Local(Blank, NoWrite)'
    BY BlankIsLocalToo
  <2>2. \A q \in Req \ {r} : Local(job[q], txn[q])'
    <3>. SUFFICES ASSUME NEW q \in Req \ {r} PROVE Local(job[q], txn[q])'
      OBVIOUS
    <3>1. \A k, v : k = job'[q] /\ v = txn'[q] => Local(k, v)'
      BY <1>2, OthersAfterCommit
    <3>. QED BY <3>1
  <2>3. Local(job[r], txn[r])'
    BY <1>1, <1>2, <2>1
  <2>. QED BY <2>2, <2>3
<1>4. ASSUME NEW q \in Req \ {r}
      PROVE  /\ \/ job'[q].pc = job[q].pc /\ job'[q].op = job[q].op /\ job'[q].x = job[q].x
                \/ job'[q] = Blank /\ job[q].pc = "kept"
             /\ Bumps(job'[q]) <=> Bumps(job[q])
  BY OthersAfterCommit
<1>5. Counted'
  <2>1. r \in Writers
    BY <1>1, Committer DEF Writers, At, Reads, Reader
  <2>2. ASSUME NEW q \in Req \ {r} PROVE q \in Writers' <=> q \in Writers
    <3>1. CASE job'[q].pc = job[q].pc /\ job'[q].op = job[q].op
      BY <3>1 DEF Writers, At, Reads
    <3>2. CASE job'[q] = Blank /\ job[q].pc = "kept"
      <4>1. Local(job[q], txn[q])
        BY DEF IInv
      <4>2. job[q].op \in {"contract", "judge"}
        BY <3>2, <4>1 DEF Local, Shape, Stage, Op
      <4>. QED BY <3>2, <4>2, BlankIs DEF Writers, At, Reads
    <3>. QED BY <1>4, <3>1, <3>2
  <2>3. r \notin Writers'
    BY <1>1, BlankIs DEF Writers, At
  <2>4. Writers \subseteq Req /\ Writers' \subseteq Req
    BY DEF Writers
  <2>5. Writers' = Writers \ {r}
    BY <2>2, <2>3, <2>4
  <2>6. version' = version \/ version' = version + 1
    BY <1>1 DEF IInv, Counted
  <2>. QED BY <2>1, <2>5, <2>6, CountDrops
<1>6. Locked'
  <2>1. Locked
    BY DEF IInv
  <2>2. \A q \in Req \ {r} : (job'[q].pc = "commit" /\ Bumps(job'[q]))
                               <=> (job[q].pc = "commit" /\ Bumps(job[q]))
    BY <1>4, BlankIs
  <2>3. ~Bumps(job'[r]) /\ lock' # r /\ lock' \in Req \union {None}
    BY <1>1, <2>1, BlankIs DEF Locked
  <2>4. \A q \in Req \ {r} : lock' = q <=> lock = q
    BY <1>1
  <2>5. \A q \in Req : lock' = q <=> job'[q].pc = "commit" /\ Bumps(job'[q])
    BY <2>1, <2>2, <2>3, <2>4 DEF Locked
  <2>. QED BY <2>3, <2>5 DEF Locked, Bumps
<1>7. Alone'
  <2>1. \A q \in Req : job[q].op = "create" => job[q].x \in Resource
    BY DEF IInv, Local, Stage
  <2>. QED BY <1>1, <1>4, <2>1, BlankIs DEF IInv, Alone
<1>. QED BY <1>1, <1>2, <1>3, <1>5, <1>6, <1>7, CommitTables DEF IInv

-------------------------------------------------------------------------------
\* A role of the user moves, and the version with it.
LEMMA FlipIs == ASSUME NEW S, NEW U, U \subseteq S, NEW x \in S PROVE Flip(U, x) \subseteq S
BY DEF Flip

LEMMA RolesMoveStep == ASSUME IInv, RolesMove PROVE IInv'
<1>1. /\ lock = None /\ version' = version + 1 /\ UNCHANGED <<res, level, pages, lock, txn>>
      /\ job' = [q \in Req |-> IF job[q].pc = "kept" THEN Blank ELSE job[q]]
      /\ version + Cardinality(Writers) < MaxVersion
  BY DEF RolesMove, At
<1>2. roles' \in [holds : SUBSET Role, edge : SUBSET (Role \X Role), active : SUBSET Role]
  <2>1. roles \in [holds : SUBSET Role, edge : SUBSET (Role \X Role), active : SUBSET Role]
    BY DEF IInv, Tables
  <2>2. PICK c \in Role :
          \/ roles' = [roles EXCEPT !.holds = Flip(@, c)]
          \/ roles' = [roles EXCEPT !.active = Flip(@, c)]
          \/ \E d \in Role \ {c} : roles' = [roles EXCEPT !.edge = Flip(@, <<c, d>>)]
    BY DEF RolesMove
  <2>3. CASE roles' = [roles EXCEPT !.holds = Flip(@, c)]
    <3>1. Flip(roles.holds, c) \in SUBSET Role
      BY <2>1, FlipIs
    <3>. QED BY <2>1, <2>3, <3>1
  <2>4. CASE roles' = [roles EXCEPT !.active = Flip(@, c)]
    <3>1. Flip(roles.active, c) \in SUBSET Role
      BY <2>1, FlipIs
    <3>. QED BY <2>1, <2>4, <3>1
  <2>5. CASE \E d \in Role \ {c} : roles' = [roles EXCEPT !.edge = Flip(@, <<c, d>>)]
    <3>1. PICK d \in Role : roles' = [roles EXCEPT !.edge = Flip(@, <<c, d>>)]
      BY <2>5
    <3>2. Flip(roles.edge, <<c, d>>) \in SUBSET (Role \X Role)
      <4>1. roles.edge \subseteq Role \X Role /\ <<c, d>> \in Role \X Role
        BY <2>1
      <4>. QED BY <4>1, FlipIs
    <3>. QED BY <2>1, <3>1, <3>2
  <2>. QED BY <2>2, <2>3, <2>4, <2>5
<1>3. Tables'
  BY <1>1, <1>2 DEF IInv, Tables, Created
<1>4. ASSUME NEW q \in Req
      PROVE  /\ \/ job'[q].pc = job[q].pc /\ job'[q].op = job[q].op /\ job'[q].x = job[q].x
                \/ job'[q] = Blank /\ job[q].pc = "kept" /\ job[q].op \in {"contract", "judge"}
             /\ Bumps(job'[q]) <=> Bumps(job[q])
             /\ Local(job[q], txn[q])'
  <2>1. Local(job[q], txn[q]) /\ version \in Nat
    BY DEF IInv, Counted
  <2>2. CASE job[q].pc = "kept"
    <3>1. job'[q] = Blank /\ txn[q] = NoWrite /\ job[q].op \in {"contract", "judge"}
      BY <1>1, <2>1, <2>2 DEF Local, Writes, Shape, Stage, Op
    <3>2. Local(Blank, NoWrite)'
      BY BlankIsLocalToo
    <3>. QED BY <1>1, <2>2, <3>1, <3>2, BlankIs DEF Bumps
  <2>3. CASE job[q].pc # "kept"
    <3>1. job'[q] = job[q] /\ txn'[q] = txn[q]
      BY <1>1, <2>3
    <3>2. /\ \A x : Live(x)' <=> Live(x)
          /\ \A x : There(x)' <=> There(x)
          /\ \A x : Created(x)' <=> Created(x)
          /\ \A x : Ungranted(x)' <=> Ungranted(x)
          /\ \A c, t : Current(c, t)' = Current(c, t)
      BY <1>1 DEF Live, There, Created, Ungranted, Current
    <3>3. /\ \A j, w : Found(j, w)' <=> Found(j, w)
          /\ \A j : Known(j)' <=> Known(j)
      BY <1>1, <3>2 DEF Found, Known
    <3>4. Reader(job[q]) => job[q].since \in 0..version' /\ job[q].since # version'
      BY <1>1, <2>1 DEF Local
    <3>5. Local(job[q], txn[q])'
      BY <2>1, <3>1, <3>3, <3>4 DEF Local
    <3>. QED BY <3>1, <3>5
  <2>. QED BY <2>2, <2>3
<1>5. Counted'
  <2>1. Writers' = Writers
    <3>1. ASSUME NEW q \in Req PROVE q \in Writers' <=> q \in Writers
      BY <1>4, BlankIs DEF Writers, At, Reads
    <3>. QED BY <3>1 DEF Writers
  <2>2. Cardinality(Writers) \in Nat /\ MaxVersion \in Nat
    BY FS_CardinalityType, PermissionsAssumption DEF IInv, Counted
  <2>. QED BY <1>1, <2>1, <2>2 DEF IInv, Counted
<1>6. Locked'
  <2>1. \A q \in Req : (job'[q].pc = "commit" /\ Bumps(job'[q]))
                         <=> (job[q].pc = "commit" /\ Bumps(job[q]))
    BY <1>4, BlankIs
  <2>2. \A q \in Req : lock' = q <=> job'[q].pc = "commit" /\ Bumps(job'[q])
    BY <1>1, <2>1 DEF IInv, Locked
  <2>. QED BY <1>1, <2>2 DEF IInv, Locked, Bumps
<1>7. Alone'
  <2>1. \A q \in Req : job[q].op = "create" => job[q].x \in Resource
    BY DEF IInv, Local, Stage
  <2>. QED BY <1>4, <2>1, BlankIs, PermissionsAssumption DEF IInv, Alone
<1>. QED BY <1>1, <1>3, <1>4, <1>5, <1>6, <1>7 DEF IInv

-------------------------------------------------------------------------------
\* Every step keeps the invariant.
LEMMA StutterStep == ASSUME IInv, UNCHANGED vars PROVE IInv'
<1>1. UNCHANGED tables /\ UNCHANGED <<version, lock, job, txn>>
  BY DEF vars, tables
<1>2. Tables'
  BY <1>1, TablesStay DEF IInv
<1>3. Counted' /\ Locked' /\ Alone'
  <2>1. Writers' = Writers
    BY <1>1 DEF Writers, At, Reads
  <2>2. \A r \in Req : Bumps(job[r])' <=> Bumps(job[r])
    BY <1>1 DEF Bumps
  <2>. QED BY <1>1, <2>1, <2>2 DEF IInv, Counted, Locked, Alone
<1>4. \A q \in Req : Local(job[q], txn[q])'
  <2>1. \A i, v : Local(i, v)' <=> Local(i, v)
    BY <1>1, TablesStay
  <2>2. \A q \in Req : Local(job[q], txn[q])
    BY DEF IInv
  <2>. QED BY <1>1, <2>1, <2>2
<1>. QED BY <1>1, <1>2, <1>3, <1>4 DEF IInv

\* The steps of a request.
OneStep(r) ==
    \/ \E c \in Role, t \in {TypeOf[x] : x \in Resource} :
         \E want \in [OfType(t) -> Levels(t)] : BeginReplace(r, c, t, want)
    \/ CheckAssignable(r) \/ ReadGrants(r) \/ WriteGrants(r)
    \/ \E x \in Resource, p \in Resource \union {None} : BeginCreate(r, x, p)
    \/ CheckOver(r) \/ Insert(r)
    \/ \E x \in Resource : \/ \E s \in {"ACTIVE", "DISABLED"} : BeginStatus(r, x, s)
                           \/ BeginDelete(r, x)
    \/ UpdateStatus(r) \/ CountChildren(r) \/ CountMenuPages(r) \/ CountGrants(r)
    \/ DeleteResource(r)
    \/ \E m \in OfType("MENU"), S \in SUBSET OfType("PAGE") : BeginSetPages(r, m, S)
    \/ CheckPages(r) \/ ReadPages(r) \/ WritePages(r)
    \/ Bump(r) \/ Commit(r)
    \/ \E op \in {"contract", "judge"} : BeginRead(r, op)
    \/ ReadDirect(r) \/ ReadInherited(r) \/ ReadActive(r)
    \/ \E t \in Binary : ReadGranted(r, t)
    \/ ReadCodes(r) \/ ReadFields(r) \/ ReadFieldNames(r) \/ ReadSuper(r)
    \/ ReadVersion(r) \/ ReadRows(r) \/ ReadMenuPages(r) \/ Forget(r)

LEMMA NextIs == Next <=> RolesMove \/ \E r \in Req : OneStep(r)
BY Zenon DEF Next, OneStep

LEMMA RequestStep == ASSUME IInv, NEW r \in Req, OneStep(r) PROVE IInv'
<1>1. ASSUME NEW c \in Role, NEW t \in {TypeOf[x] : x \in Resource},
             NEW want \in [OfType(t) -> Levels(t)], BeginReplace(r, c, t, want)
      PROVE  IInv'
  BY <1>1, BeginReplaceStep
<1>2. ASSUME NEW x \in Resource, NEW p \in Resource \union {None}, BeginCreate(r, x, p) PROVE IInv'
  BY <1>2, BeginCreateStep
<1>3. ASSUME NEW x \in Resource, NEW s \in {"ACTIVE", "DISABLED"}, BeginStatus(r, x, s) PROVE IInv'
  BY <1>3, BeginStatusStep
<1>4. ASSUME NEW x \in Resource, BeginDelete(r, x) PROVE IInv'
  BY <1>4, BeginDeleteStep
<1>5. ASSUME NEW m \in OfType("MENU"), NEW S \in SUBSET OfType("PAGE"), BeginSetPages(r, m, S)
      PROVE  IInv'
  BY <1>5, BeginSetPagesStep
<1>6. ASSUME NEW op \in {"contract", "judge"}, BeginRead(r, op) PROVE IInv'
  BY <1>6, BeginReadStep
<1>7. ASSUME NEW t \in Binary, ReadGranted(r, t) PROVE IInv'
  BY <1>7, ReadGrantedStep
<1>8. CheckAssignable(r) \/ ReadGrants(r) \/ WriteGrants(r) \/ CheckOver(r) \/ Insert(r) => IInv'
  BY CheckAssignableStep, ReadGrantsStep, WriteGrantsStep, CheckOverStep, InsertStep
<1>9. UpdateStatus(r) \/ CountChildren(r) \/ CountMenuPages(r) \/ CountGrants(r)
        \/ DeleteResource(r) => IInv'
  BY UpdateStatusStep, CountChildrenStep, CountMenuPagesStep, CountGrantsStep, DeleteResourceStep
<1>10. CheckPages(r) \/ ReadPages(r) \/ WritePages(r) \/ Bump(r) \/ Commit(r) \/ Forget(r) => IInv'
  BY CheckPagesStep, ReadPagesStep, WritePagesStep, BumpStep, CommitStep, ForgetStep
<1>11. ReadDirect(r) \/ ReadInherited(r) \/ ReadActive(r) \/ ReadCodes(r) \/ ReadFields(r)
         \/ ReadFieldNames(r) => IInv'
  BY ReadDirectStep, ReadInheritedStep, ReadActiveStep, ReadCodesStep, ReadFieldsStep,
     ReadFieldNamesStep
<1>12. ReadSuper(r) \/ ReadVersion(r) \/ ReadRows(r) \/ ReadMenuPages(r) => IInv'
  BY ReadSuperStep, ReadVersionStep, ReadRowsStep, ReadMenuPagesStep
<1>. QED BY <1>1, <1>2, <1>3, <1>4, <1>5, <1>6, <1>7, <1>8, <1>9, <1>10, <1>11, <1>12, Zenon DEF OneStep

LEMMA StepIInv == IInv /\ [Next]_vars => IInv'
BY StutterStep, RolesMoveStep, RequestStep, NextIs

\* What a change has found out fits the tables until another commits, what a
\* reader has read fits them until the version moves, and the version moves once
\* for a change that needs it and holds its row.
THEOREM Invariant == Spec => []IInv
BY InitIInv, StepIInv, PTL DEF Spec

-------------------------------------------------------------------------------
\* The types that the runs check.
LEMMA TypesHold == IInv => TypeOK
<1>. SUFFICES ASSUME IInv PROVE TypeOK
  OBVIOUS
<1>1. version \in 0..MaxVersion
  <2>1. version \in Nat /\ version + Cardinality(Writers) <= MaxVersion
        /\ Cardinality(Writers) \in Nat /\ MaxVersion \in Nat
    BY FS_CardinalityType, PermissionsAssumption DEF IInv, Counted
  <2>. QED BY <2>1
<1>2. ASSUME NEW r \in Req
      PROVE  /\ job[r].op \in Op /\ job[r].pc \in PC
             /\ job[r].pc = "commit" /\ job[r].op # "create" /\ txn[r] # NoWrite => lock = r
  <2>1. Local(job[r], txn[r])
    BY DEF IInv
  <2>2. ASSUME job[r].pc = "commit", job[r].op # "create", ~Bumps(job[r]) PROVE txn[r] = NoWrite
    <3>1. job[r].op = "status" /\ DOMAIN job[r].want = {}
      BY <2>2, Committer DEF Bumps, ResOps
    <3>2. txn[r] = [NoWrite EXCEPT !.res = <<>>]
      BY <2>1, <2>2, <3>1 DEF Local, Writes
    <3>. QED BY <3>2 DEF NoWrite
  <2>3. job[r].pc = "commit" => (lock = r <=> Bumps(job[r]))
    BY Committer
  <2>. QED BY <2>1, <2>2, <2>3 DEF Local, Shape
<1>3. \A p \in Pair : level[p] \in Levels(TypeOf[p[2]]) /\ (level[p] > 0 => res[p[2]].status # "absent")
  BY DEF IInv, Tables, Created
<1>. QED BY <1>1, <1>2, <1>3 DEF TypeOK, IInv, Tables, Locked

\* A reader that is finished has read everything.
LEMMA KeptVouches == IInv => UndisturbedVouches
<1>. SUFFICES ASSUME IInv, NEW r \in Req, job[r].pc = "kept", job[r].since = version
              PROVE  LET g == Got(r)
                     IN  IF job[r].op = "judge" THEN Admits(g)
                         ELSE Shows(g) /\ IF g.super THEN g.rows \subseteq RowsFor(g)
                                                     ELSE g.rows = RowsFor(g)
  BY DEF UndisturbedVouches, At
<1>. DEFINE g == Got(r)
<1>1. Local(job[r], txn[r]) /\ Reader(job[r])
  BY ReaderAt DEF IInv
<1>2. Reading(job[r]) /\ job[r].op \in {"judge", "contract"}
  BY <1>1 DEF Local, Reader
<1>3. CASE job[r].op = "judge"
  <2>1. Asked(job[r]) = {"API"}
    BY <1>3 DEF Asked
  <2>2. g.ids = UNION {Granted(Effective, t) : t \in {"API"}} /\ g.codes = g.ids
    BY <1>2, <2>1 DEF Reading, Got, Early, Binary
  <2>3. g.codes = Granted(Effective, "API")
    BY <2>2
  <2>. QED BY <1>3, <2>3 DEF Admits
<1>4. CASE job[r].op = "contract"
  <2>1. Asked(job[r]) = Binary
    BY <1>4 DEF Asked
  <2>2. /\ g.ids = UNION {Granted(Effective, t) : t \in Binary} /\ g.codes = g.ids
        /\ g.levels = FieldLevels(Effective) /\ g.super = (Super \in roles.holds)
        /\ IF g.super THEN g.rows \subseteq RowsFor(g) ELSE g.rows = RowsFor(g)
        /\ g.menus = MenuPages(g.rows)
    BY <1>2, <1>4, <2>1 DEF Reading, Got, Early, Binary
  <2>3. MenuPages(g.rows) = {e \in pages : {e[1], e[2]} \subseteq g.rows}
    BY DEF MenuPages
  <2>. QED BY <1>4, <2>2, <2>3 DEF Shows
<1>. QED BY <1>2, <1>3, <1>4

\* What a reader has computed while the version stood still is right: the codes
\* a request is admitted by, the levels of its fields, and the whole contract.
THEOREM UndisturbedReadsHold == Spec => []ReadInv
<1>1. IInv => ReadInv
  BY TypesHold, KeptVouches DEF ReadInv
<1>. QED BY <1>1, Invariant, PTL

-------------------------------------------------------------------------------
\* Only a commit writes, and a request that is to commit does nothing else.
Stands(r) == /\ UNCHANGED tables /\ job[r].pc # "commit"
             /\ \A q \in Req \ {r} : job'[q] = job[q]

LEMMA OnlyCommitWrites == ASSUME IInv, NEW r \in Req, OneStep(r), ~Commit(r) PROVE Stands(r)
<1>1. DOMAIN job = Req
  BY DEF IInv
<1>2. ASSUME NEW l, Goto(r, l) \/ Raise(r)
      PROVE  UNCHANGED tables /\ \A q \in Req \ {r} : job'[q] = job[q]
  BY <1>1, <1>2 DEF Goto, Raise
<1>3. ASSUME NEW l, NEW ok, Require(r, ok, l)
      PROVE  UNCHANGED tables /\ \A q \in Req \ {r} : job'[q] = job[q]
  BY <1>2, <1>3 DEF Require
<1>4. ASSUME NEW l, NEW ok, NEW w, Write(r, ok, w, l)
      PROVE  UNCHANGED tables /\ \A q \in Req \ {r} : job'[q] = job[q]
  BY <1>1, <1>2, <1>4 DEF Write
<1>5. ASSUME NEW j, Begin(r, j) PROVE Stands(r)
  BY <1>1, <1>5 DEF Begin, At, Stands
<1>6. ASSUME NEW l, NEW g, Take(r, l, g)
      PROVE  UNCHANGED tables /\ \A q \in Req \ {r} : job'[q] = job[q]
  BY <1>1, <1>6 DEF Take
<1>7. ASSUME CheckAssignable(r) \/ CheckOver(r) \/ CountChildren(r) \/ CountMenuPages(r)
               \/ CountGrants(r) \/ CheckPages(r)
      PROVE  Stands(r)
  <2>1. job[r].pc # "commit" /\ \E ok, l : Require(r, ok, l)
    BY <1>7 DEF CheckAssignable, CheckOver, CountChildren, CountMenuPages, CountGrants, CheckPages, At
  <2>. QED BY <1>3, <2>1 DEF Stands
<1>8. ASSUME WriteGrants(r) \/ Insert(r) \/ UpdateStatus(r) \/ DeleteResource(r) \/ WritePages(r)
      PROVE  Stands(r)
  <2>1. job[r].pc # "commit" /\ \E ok, w, l : Write(r, ok, w, l)
    BY <1>8 DEF WriteGrants, Insert, UpdateStatus, DeleteResource, WritePages, At
  <2>. QED BY <1>4, <2>1 DEF Stands
<1>9. ASSUME ReadGrants(r) \/ ReadPages(r) \/ Bump(r) PROVE Stands(r)
  BY <1>1, <1>9 DEF ReadGrants, ReadPages, Bump, At, Stands
<1>10. ASSUME Forget(r) PROVE Stands(r)
  BY <1>2, <1>10 DEF Forget, At, Stands
<1>11. ASSUME ReadDirect(r) \/ ReadInherited(r) \/ ReadActive(r) \/ ReadCodes(r) \/ ReadFields(r)
                \/ ReadFieldNames(r) \/ ReadSuper(r) \/ ReadVersion(r) \/ ReadRows(r)
                \/ ReadMenuPages(r) \/ \E t \in Binary : ReadGranted(r, t)
      PROVE  Stands(r)
  <2>1. \E l, g : Take(r, l, g)
    BY <1>11 DEF ReadDirect, ReadInherited, ReadActive, ReadCodes, ReadFields, ReadFieldNames,
                 ReadSuper, ReadVersion, ReadRows, ReadMenuPages, ReadGranted
  <2>2. job[r].pc # "commit"
    BY <1>11 DEF ReadDirect, ReadInherited, ReadActive, ReadCodes, ReadFields, ReadFieldNames,
                 ReadSuper, ReadVersion, ReadRows, ReadMenuPages, ReadGranted, At, Binary
  <2>. QED BY <1>6, <2>1, <2>2 DEF Stands
<1>12. ASSUME NEW c, NEW t, NEW want, BeginReplace(r, c, t, want) PROVE Stands(r)
  BY <1>5, <1>12 DEF BeginReplace
<1>13. ASSUME NEW x, NEW p, BeginCreate(r, x, p) PROVE Stands(r)
  BY <1>5, <1>13 DEF BeginCreate
<1>14. ASSUME NEW x, BeginDelete(r, x) \/ \E s : BeginStatus(r, x, s) PROVE Stands(r)
  BY <1>5, <1>14 DEF BeginDelete, BeginStatus
<1>15. ASSUME NEW m, NEW S, BeginSetPages(r, m, S) PROVE Stands(r)
  BY <1>5, <1>15 DEF BeginSetPages
<1>16. ASSUME NEW op, BeginRead(r, op) PROVE Stands(r)
  BY <1>5, <1>16 DEF BeginRead
<1>. QED BY <1>7, <1>8, <1>9, <1>10, <1>11, <1>12, <1>13, <1>14, <1>15, <1>16, Zenon DEF OneStep

LEMMA OnlyCommit == ASSUME IInv, Next, NEW r \in Req, job[r].pc = "commit", job'[r].pc # "commit"
                    PROVE  Commit(r)
<1>1. ~RolesMove
  BY DEF RolesMove, At
<1>2. PICK q \in Req : OneStep(q)
  BY <1>1, NextIs
<1>3. Commit(q)
  BY <1>2, OnlyCommitWrites DEF Stands
<1>4. q = r
  <2>1. ASSUME q # r PROVE FALSE
    <3>1. job'[r].pc = job[r].pc \/ job[r].pc = "kept"
      BY <1>3, <2>1, OthersAfterCommit
    <3>. QED BY <3>1
  <2>. QED BY <2>1
<1>. QED BY <1>3, <1>4

-------------------------------------------------------------------------------
\* A commit without a version changes nothing that is permitted.
LEMMA QuietPermits == ASSUME IInv, NEW r \in Req, Commit(r), lock # r PROVE Permitted' = Permitted
<1>1. /\ UNCHANGED <<level, pages, roles>> /\ Tables
      /\ \A x \in Resource : Created(x) => res'[x] = res[x]
  BY QuietCommit DEF IInv
<1>2. \A x \in Resource : Created(x) => (Live(x)' <=> Live(x))
  BY <1>1 DEF Live
<1>3. \A p \in Pair : (IF Live(p[2])' THEN level'[p] ELSE 0) = (IF Live(p[2]) THEN level[p] ELSE 0)
  <2>. SUFFICES ASSUME NEW p \in Pair
                PROVE  (IF Live(p[2])' THEN level'[p] ELSE 0) = (IF Live(p[2]) THEN level[p] ELSE 0)
    OBVIOUS
  <2>1. p[2] \in Resource /\ level[p] \in Nat /\ level'[p] = level[p]
    BY <1>1 DEF Pair, Tables
  <2>2. CASE level[p] = 0
    BY <2>1, <2>2
  <2>3. CASE level[p] > 0
    BY <1>1, <1>2, <2>1, <2>3 DEF Tables
  <2>. QED BY <2>1, <2>2, <2>3
<1>4. {e \in pages' : Live(e[1])' /\ Live(e[2])'} = {e \in pages : Live(e[1]) /\ Live(e[2])}
  <2>1. \A e \in pages : Created(e[1]) /\ Created(e[2]) /\ e[1] \in Resource /\ e[2] \in Resource
    BY <1>1 DEF Tables, OfType
  <2>. QED BY <1>1, <1>2, <2>1
<1>. QED BY <1>1, <1>3, <1>4 DEF Permitted

\* Every commit that changes what somebody is permitted has a version of its own.
THEOREM EveryChangeIsVersioned == Spec => VersionMoves
<1>1. IInv /\ [Next]_vars => [Permitted # Permitted' => version' = version + 1]_<<res, level, pages, roles>>
  <2>. SUFFICES ASSUME IInv, Next, Permitted # Permitted' PROVE version' = version + 1
    BY DEF vars
  <2>1. CASE RolesMove
    BY <2>1 DEF RolesMove
  <2>2. ASSUME NEW r \in Req, OneStep(r) PROVE version' = version + 1
    <3>1. CASE Commit(r)
      <4>1. lock = r
        BY <3>1, QuietPermits
      <4>. QED BY <3>1, <4>1 DEF Commit
    <3>2. CASE ~Commit(r)
      <4>1. UNCHANGED <<res, level, pages, roles>>
        BY <2>2, <3>2, OnlyCommitWrites DEF Stands, tables
      <4>2. Permitted' = Permitted
        BY <4>1 DEF Permitted, Live
      <4>. QED BY <4>2
    <3>. QED BY <3>1, <3>2
  <2>. QED BY <2>1, <2>2, NextIs
<1>. QED BY <1>1, Invariant, PTL DEF Spec, VersionMoves

-------------------------------------------------------------------------------
\* References, before and after an undisturbed commit of a request on x.
Under == \A y \in Resource : There(y) /\ res[y].over # None => There(res[y].over)

LEMMA ReferencesStay == ASSUME IInv, NEW r \in Req, Commit(r), ~job[r].stale, Referential,
                               NEW x, x = job[r].x
                        PROVE  Referential'
<1>. DEFINE j == job[r]
            w == txn[r]
<1>1. /\ j.pc = "commit" /\ Tables /\ Stage(j) /\ Writes(j, w) /\ Known(j) /\ Found(j, w)
      /\ j.op \in ResOps \union {"replace", "setPages"}
  BY Committer DEF Commit, At, Local, IInv
<1>2. /\ \A p \in Pair : p[1] \in Role /\ p[2] \in Resource /\ p = <<p[1], p[2]>>
      /\ \A e \in pages : e[1] \in Resource /\ e[2] \in Resource /\ Created(e[1]) /\ Created(e[2])
      /\ \A p \in Pair : level[p] > 0 => Created(p[2])
      /\ \A y \in Resource : res[y].over \in Resource \union {None}
      /\ \A y \in Resource : There(y) => Created(y)
      /\ \A y \in Resource : Live(y) => ~res[y].deleted
      /\ None \notin Resource
  BY <1>1, PermissionsAssumption DEF Tables, Pair, OfType, Row, There, Created, Live
<1>3. CASE j.op = "replace"
  <2>1. res' = res /\ pages' = pages
    BY <1>3, CommitIs DEF ResOps
  <2>2. \A p \in Pair : level'[p] = IF p \in DOMAIN w.level THEN j.want[p[2]] ELSE level[p]
    BY <1>3, CommitIs
  <2>3. \A p \in DOMAIN w.level : p[2] \in DOMAIN j.want
    BY <1>1, <1>3 DEF Writes
  <2>4. \A y \in DOMAIN j.want : j.want[y] > 0 => Live(y)
    BY <1>1, <1>3 DEF Found
  <2>5. \A p \in Pair : level'[p] > 0 => ~res[p[2]].deleted
    BY <1>2, <2>2, <2>3, <2>4 DEF Referential
  <2>. QED BY <2>1, <2>5 DEF Referential, There
<1>4. CASE j.op = "setPages"
  <2>1. res' = res /\ level' = level /\ pages' = (pages \ w.del) \union w.add
    BY <1>4, CommitIs DEF ResOps, Commit
  <2>2. w.add \subseteq {x} \X j.want /\ There(x) /\ \A y \in j.want : Live(y)
    BY <1>1, <1>4 DEF Writes, Found
  <2>3. \A e \in w.add : ~res[e[1]].deleted /\ ~res[e[2]].deleted
    BY <2>2 DEF There, Live
  <2>4. \A e \in pages' : ~res[e[1]].deleted /\ ~res[e[2]].deleted
    BY <2>1, <2>3 DEF Referential
  <2>. QED BY <2>1, <2>4 DEF Referential, There
<1>5. CASE j.op \in ResOps
  <2>1. level' = level /\ pages' = pages /\ \A y \in Resource \ {x} : res'[y] = res[y]
    BY <1>5, CommitIs DEF ResOps
  <2>2. /\ x \in Resource
        /\ res'[x].status = IF "status" \in DOMAIN j.want THEN j.want["status"] ELSE res[x].status
        /\ res'[x].deleted = IF "deleted" \in DOMAIN j.want THEN j.want["deleted"] ELSE res[x].deleted
        /\ res'[x].over = IF "over" \in DOMAIN j.want THEN j.want["over"] ELSE res[x].over
        /\ "status" \in DOMAIN j.want => j.want["status"] \in {"ACTIVE", "DISABLED"}
    BY <1>5, RowIs
  <2>3. \A y \in Resource \ {x} : There(y)' <=> There(y)
    BY <2>1 DEF There
  <2>4. CASE j.op = "create"
    <3>1. /\ ~Created(x) /\ j.want["over"] \in Resource \union {None}
          /\ j.want["over"] # None => There(j.want["over"])
          /\ res'[x].over = j.want["over"]
      BY <1>1, <2>2, <2>4 DEF Known, Stage, Found
    <3>2. Under'
      <4>. SUFFICES ASSUME NEW y \in Resource, There(y)', NEW z, z = res'[y].over, z # None
                    PROVE  There(z)'
        BY DEF Under
      <4>1. There(z) /\ z \in Resource
        BY <1>2, <2>1, <2>3, <3>1 DEF Referential
      <4>. QED BY <1>2, <2>3, <3>1, <4>1
    <3>3. \A p \in Pair : level'[p] > 0 => ~res'[p[2]].deleted
      BY <1>2, <2>1, <3>1 DEF Referential
    <3>4. \A e \in pages' : ~res'[e[1]].deleted /\ ~res'[e[2]].deleted
      BY <1>2, <2>1, <3>1 DEF Referential
    <3>. QED BY <3>2, <3>3, <3>4 DEF Referential, Under
  <2>5. CASE j.op = "status"
    <3>1. Created(x) /\ res'[x].deleted = res[x].deleted /\ res'[x].over = res[x].over
      BY <1>1, <2>2, <2>5 DEF Known, Stage
    <3>2. There(x)' <=> There(x)
      BY <2>2, <3>1 DEF There, Created
    <3>3. \A y \in Resource : /\ There(y)' <=> There(y)
                              /\ res'[y].deleted = res[y].deleted /\ res'[y].over = res[y].over
      BY <2>1, <2>3, <3>1, <3>2
    <3>4. Under'
      <4>. SUFFICES ASSUME NEW y \in Resource, There(y)', NEW z, z = res'[y].over, z # None
                    PROVE  There(z)'
        BY DEF Under
      <4>. QED BY <1>2, <3>3 DEF Referential
    <3>. QED BY <1>2, <2>1, <3>3, <3>4 DEF Referential, Under
  <2>6. CASE j.op = "delete"
    <3>1. /\ There(x) /\ res'[x].over = res[x].over
          /\ \A y \in Resource : There(y) => res[y].over # x
          /\ \A e \in pages : x \notin {e[1], e[2]}
          /\ \A c \in Role : level[<<c, x>>] = 0
      BY <1>1, <2>2, <2>6 DEF Found, Stage, Ungranted
    <3>2. Under'
      <4>. SUFFICES ASSUME NEW y \in Resource, There(y)', NEW z, z = res'[y].over, z # None
                    PROVE  There(z)'
        BY DEF Under
      <4>1. There(y) /\ z = res[y].over
        BY <2>1, <2>3, <3>1
      <4>2. There(z) /\ z \in Resource /\ z # x
        BY <1>2, <3>1, <4>1 DEF Referential
      <4>. QED BY <2>3, <4>2
    <3>3. \A p \in Pair : level'[p] > 0 => ~res'[p[2]].deleted
      <4>. SUFFICES ASSUME NEW p \in Pair, level[p] > 0 PROVE ~res'[p[2]].deleted
        BY <2>1
      <4>1. p[2] # x
        <5>1. ASSUME p[2] = x PROVE FALSE
          <6>1. p = <<p[1], x>> /\ p[1] \in Role
            BY <1>2, <5>1
          <6>2. level[p] = 0
            BY <3>1, <6>1
          <6>. QED BY <6>2
        <5>. QED BY <5>1
      <4>. QED BY <1>2, <2>1, <4>1 DEF Referential
    <3>4. \A e \in pages' : ~res'[e[1]].deleted /\ ~res'[e[2]].deleted
      BY <1>2, <2>1, <3>1 DEF Referential
    <3>. QED BY <3>2, <3>3, <3>4 DEF Referential, Under
  <2>. QED BY <1>5, <2>4, <2>5, <2>6 DEF ResOps
<1>. QED BY <1>1, <1>3, <1>4, <1>5

\* A request that no other commit overtakes leaves no reference to a deleted
\* resource: the counts of delete and the checks of create, replace and
\* set_menu_pages are enough when they are not outdated.
THEOREM ChecksAreEnough == Spec => ChecksSuffice
<1>1. IInv /\ [Next]_vars =>
        [\A r \in Req : CommitsAlone(r) /\ Referential => Referential']_vars
  <2>. SUFFICES ASSUME IInv, Next, NEW r \in Req, CommitsAlone(r), Referential PROVE Referential'
    OBVIOUS
  <2>. QED BY OnlyCommit, ReferencesStay DEF CommitsAlone, At
<1>. QED BY <1>1, Invariant, PTL DEF Spec, ChecksSuffice

\* What an undisturbed replacement leaves of the live resources.
LEMMA ReplaceLeaves ==
    ASSUME IInv, NEW r \in Req, Commit(r), ~job[r].stale, job[r].op = "replace",
           NEW x \in DOMAIN job[r].want, Live(x)
    PROVE  level'[<<job[r].role, x>>] = job[r].want[x]
<1>. DEFINE j == job[r]
            w == txn[r]
            p == <<job[r].role, x>>
<1>1. /\ j.pc = "commit" /\ Stage(j) /\ Found(j, w)
  BY Committer DEF Commit, At, Local
<1>2. p \in Pair /\ p[2] = x
  BY <1>1 DEF Stage, Pair, OfType
<1>3. j.want[x] # level[p] => p \in DOMAIN w.level
  BY <1>1 DEF Found
<1>4. level'[p] = IF p \in DOMAIN w.level THEN j.want[x] ELSE level[p]
  BY <1>2, CommitIs
<1>. QED BY <1>3, <1>4

\* After a replacement that nobody has overtaken the role has what was asked for
\* of the resources that are live, fields at the level asked for.
THEOREM ReplacementIsDone == Spec => ReplaceCoversLive
<1>1. IInv /\ [Next]_vars =>
        [\A r \in Req : CommitsAlone(r) /\ job[r].op = "replace" =>
           \A x \in DOMAIN job[r].want : Live(x) => level'[<<job[r].role, x>>] = job[r].want[x]]_vars
  <2>. SUFFICES ASSUME IInv, Next, NEW r \in Req, CommitsAlone(r), job[r].op = "replace",
                       NEW x \in DOMAIN job[r].want, Live(x)
                PROVE  level'[<<job[r].role, x>>] = job[r].want[x]
    OBVIOUS
  <2>. QED BY OnlyCommit, ReplaceLeaves DEF CommitsAlone, At
<1>. QED BY <1>1, Invariant, PTL DEF Spec, ReplaceCoversLive
-------------------------------------------------------------------------------
\* The expansion of roles (RoleClosure).
Base == {e \in edge : e[1] \in start}

\* What the recursive query has, and what it is still missing.
Query == /\ Base \subseteq rows
         /\ work \subseteq rows
         /\ Upwards(rows \ work) \subseteq rows
         /\ pc # "join" => work = {}

\* Every closed set contains what has been reached.
Sound == \A S \in SUBSET RoleId :
            Closed(S) => seen \subseteq S /\ \A e \in rows : e[1] \in start \union S

\* What is seen is the parent of a row; what is stacked is seen or given.
Traced == /\ \A r \in seen : \E e \in rows : e[2] = r
          /\ \A i \in 1..Len(frontier) : frontier[i][1] \in start \union seen
          /\ pc = "visit" => /\ cur[1] \in start \union seen
                             /\ cur[2] < MaxDepth
                             /\ rest \subseteq Parents(cur[1])

Stacked(r) == \E i \in 1..Len(frontier) : frontier[i][1] = r

\* A role that was reached waits, is being followed, or has been followed.
Covered == pc # "error" =>
             \A r \in start \union seen :
                \/ r \in todo
                \/ Stacked(r)
                \/ pc = "visit" /\ r = cur[1] /\ Parents(r) \subseteq seen \union rest
                \/ pc # "join" /\ Parents(r) \subseteq seen

\* There is a chain of d edges from a role to expand up to r.
Chain(r, d) == \E f \in [0..d -> RoleId] : /\ f[0] \in start /\ f[d] = r
                                         /\ \A i \in 0..(d - 1) : <<f[i], f[i + 1]>> \in edge

Deep == /\ \A i \in 1..Len(frontier) : Chain(frontier[i][1], frontier[i][2])
        /\ pc = "visit" => Chain(cur[1], cur[2])

WalkInv == /\ ExpansionTypes
           /\ Query /\ Sound /\ Traced /\ Covered /\ Deep
           /\ pc \in {"pop", "visit", "done"} => todo = {}
           /\ pc = "done" => frontier = <<>>
           /\ ErrorMeansDeep

-------------------------------------------------------------------------------
\* A chain is extended by an edge.
LEMMA ChainGrows == ASSUME NEW r \in RoleId, NEW p \in RoleId, NEW d \in Nat,
                           Chain(r, d), <<r, p>> \in edge
                    PROVE  Chain(p, d + 1)
<1>1. PICK f \in [0..d -> RoleId] : /\ f[0] \in start /\ f[d] = r
                                  /\ \A i \in 0..(d - 1) : <<f[i], f[i + 1]>> \in edge
  BY DEF Chain
<1> DEFINE g == [i \in 0..(d + 1) |-> IF i <= d THEN f[i] ELSE p]
<1>2. g \in [0..(d + 1) -> RoleId] /\ g[0] \in start /\ g[d + 1] = p
  BY <1>1
<1>3. ASSUME NEW i \in 0..(d + 1 - 1) PROVE <<g[i], g[i + 1]>> \in edge
  <2>1. CASE i = d
    BY <1>1, <2>1
  <2>2. CASE i # d
    <3>1. i \in 0..(d - 1) /\ g[i] = f[i] /\ g[i + 1] = f[i + 1]
      BY <1>1, <2>2
    <3>. QED BY <1>1, <3>1
  <2>. QED BY <2>1, <2>2
<1>. HIDE DEF g
<1>. QED BY <1>2, <1>3 DEF Chain

\* The first n elements of a sequence, and a stack without its last element.
LEMMA Prefix == ASSUME NEW S, NEW q, NEW n \in Nat, \A i \in 1..n : q[i] \in S
                PROVE  /\ SubSeq(q, 1, n) \in Seq(S)
                       /\ Len(SubSeq(q, 1, n)) = n
                       /\ \A i \in 1..n : SubSeq(q, 1, n)[i] = q[i]
<1>1. SubSeq(q, 1, n) \in Seq(S)
  OBVIOUS
<1>2. Len(SubSeq(q, 1, n)) = n
  OBVIOUS
<1>3. ASSUME NEW i \in 1..n PROVE SubSeq(q, 1, n)[i] = q[i]
  OBVIOUS
<1>. QED BY <1>1, <1>2, <1>3

LEMMA Popped == ASSUME NEW S, NEW q \in Seq(S), q # <<>>
                PROVE  /\ SubSeq(q, 1, Len(q) - 1) \in Seq(S)
                       /\ Len(SubSeq(q, 1, Len(q) - 1)) = Len(q) - 1
                       /\ \A i \in 1..(Len(q) - 1) : SubSeq(q, 1, Len(q) - 1)[i] = q[i]
<1> DEFINE n == Len(q) - 1
<1>1. n \in Nat /\ \A i \in 1..n : q[i] \in S
  OBVIOUS
<1> HIDE DEF n
<1>2. /\ SubSeq(q, 1, n) \in Seq(S) /\ Len(SubSeq(q, 1, n)) = n
      /\ \A i \in 1..n : SubSeq(q, 1, n)[i] = q[i]
  BY <1>1, Prefix
<1>. QED BY <1>2 DEF n

\* The initial state.
LEMMA CalledInv == Called => WalkInv
<1> SUFFICES ASSUME Called PROVE WalkInv
  OBVIOUS
<1> USE DepthAssumption
<1>1. start # {} /\ (CHOOSE r \in start : TRUE) \in start
  BY DEF Called
<1>2. ExpansionTypes
  BY <1>1 DEF Called, ExpansionTypes, Level
<1>3. Query /\ Traced /\ Covered /\ Deep
  BY DEF Called, Query, Base, Upwards, Traced, Covered, Deep
<1>4. Sound
  BY DEF Called, Sound, Closed
<1>. QED BY <1>2, <1>3, <1>4 DEF WalkInv, Called, ErrorMeansDeep

\* One round of the recursive query.
LEMMA JoinStep == WalkInv /\ Join => WalkInv'
<1> SUFFICES ASSUME WalkInv, Join PROVE WalkInv'
  OBVIOUS
<1> USE DEF Join, input
<1>1. ExpansionTypes'
  BY DEF WalkInv, ExpansionTypes, Fresh, Upwards, Level
<1>2. Query'
  <2>1. Base' \subseteq rows' /\ work' \subseteq rows'
    BY DEF WalkInv, Query, Base, Fresh
  <2>2. Upwards(rows \ work) \subseteq rows /\ Upwards(work) \subseteq rows'
    BY DEF WalkInv, Query, Fresh
  <2>3. rows' \ work' \subseteq rows
    BY DEF Fresh
  <2>4. \A e \in edge : (\E f \in rows' \ work' : e[1] = f[2]) => e \in rows'
    <3>1. \A e \in edge : (\E f \in rows : e[1] = f[2]) =>
                             e \in Upwards(rows \ work) \union Upwards(work)
      BY DEF Upwards
    <3>. QED BY <3>1, <2>2, <2>3
  <2>5. pc' # "join" => work' = {}
    <3>1. pc' # "join" => work = {}
      OBVIOUS
    <3>2. work = {} => Upwards(work) = {}
      BY DEF Upwards
    <3>. QED BY <3>1, <3>2 DEF Fresh
  <2>. QED BY <2>1, <2>4, <2>5 DEF Query, Upwards
<1>3. Sound'
  <2> SUFFICES ASSUME NEW S \in SUBSET RoleId, Closed(S)
               PROVE  seen \subseteq S /\ \A e \in rows' : e[1] \in start \union S
    BY DEF Sound, Closed
  <2>1. seen \subseteq S /\ \A e \in rows : e[1] \in start \union S
    BY DEF WalkInv, Sound
  <2>2. \A e \in Upwards(work) : e[1] \in S
    BY <2>1 DEF WalkInv, ExpansionTypes, Query, Upwards, Closed
  <2>. QED BY <2>1, <2>2 DEF Fresh
<1>4. Traced'
  BY DEF WalkInv, Traced, Fresh
<1>5. Covered'
  BY DEF WalkInv, Covered, Stacked
<1>6. Deep'
  BY DEF WalkInv, Deep, Chain
<1>7. ErrorMeansDeep'
  BY DEF ErrorMeansDeep
<1>. QED BY <1>1, <1>2, <1>3, <1>4, <1>5, <1>6, <1>7 DEF WalkInv

\* The roles to expand are stacked.
LEMMA LoadStep == WalkInv /\ Load => WalkInv'
<1> SUFFICES ASSUME WalkInv, Load PROVE WalkInv'
  OBVIOUS
<1> USE DEF Load, input, query
<1>1. CASE todo = {}
  <2>1. UNCHANGED <<edge, start, rows, work, todo, seen, frontier, cur, rest>> /\ pc = "load" /\ pc' = "pop"
    BY <1>1
  <2>2. ExpansionTypes' /\ Query' /\ Traced' /\ ErrorMeansDeep'
    BY <2>1 DEF WalkInv, ExpansionTypes, Query, Base, Upwards, Traced, Parents, ErrorMeansDeep
  <2>4. Covered'
    BY <2>1 DEF WalkInv, Covered, Stacked, Parents
  <2>5. Deep'
    BY <2>1 DEF WalkInv, Deep, Chain
  <2>3. Sound'
    BY <2>1 DEF WalkInv, Sound, Closed
  <2>. QED BY <1>1, <2>1, <2>2, <2>3, <2>4, <2>5 DEF WalkInv
<1>2. CASE todo # {}
  <2>1. PICK s \in todo : /\ todo' = todo \ {s}
                          /\ frontier' = Append(frontier, <<s, 0>>)
                          /\ pc' = pc
    BY <1>2
  <2>2. /\ UNCHANGED <<edge, start, rows, work, seen, cur, rest, pc>> /\ pc = "load"
    BY <2>1
  <2>3. s \in start /\ s \in RoleId /\ <<s, 0>> \in Level /\ frontier \in Seq(Level)
    BY <2>1, DepthAssumption DEF WalkInv, ExpansionTypes, Level
  <2>4. /\ frontier' \in Seq(Level) /\ Len(frontier') = Len(frontier) + 1
        /\ \A i \in 1..Len(frontier) : frontier'[i] = frontier[i]
        /\ frontier'[Len(frontier) + 1] = <<s, 0>>
        /\ Len(frontier) \in Nat
    BY <2>1, <2>3
  <2>5. ExpansionTypes'
    BY <2>1, <2>2, <2>4 DEF WalkInv, ExpansionTypes
  <2>6. Query' /\ Sound' /\ ErrorMeansDeep'
    BY <2>2 DEF WalkInv, Query, Base, Upwards, Sound, Closed, ErrorMeansDeep
  <2>7. Traced'
    <3>1. \A i \in 1..Len(frontier') : frontier'[i][1] \in start \union seen
      BY <2>3, <2>4 DEF WalkInv, Traced
    <3>. QED BY <2>2, <3>1 DEF WalkInv, Traced
  <2>8. Covered'
    <3> SUFFICES ASSUME NEW r \in start \union seen
                 PROVE  r \in todo' \/ Stacked(r)' \/ Parents(r) \subseteq seen
      BY <2>2 DEF Covered, Parents
    <3>1. CASE r = s
      BY <2>4, <3>1 DEF Stacked
    <3>2. CASE Stacked(r)
      BY <2>4, <3>2 DEF Stacked
    <3>. QED BY <2>1, <2>2, <3>1, <3>2 DEF WalkInv, Covered
  <2>9. Deep'
    <3>1. Chain(s, 0)
      <4> DEFINE f == [i \in 0..0 |-> s]
      <4>1. f \in [0..0 -> RoleId] /\ f[0] \in start /\ f[0] = s
        BY <2>3
      <4>2. \A i \in 0..(0 - 1) : <<f[i], f[i + 1]>> \in edge
        OBVIOUS
      <4> HIDE DEF f
      <4>. QED BY <4>1, <4>2 DEF Chain
    <3>2. \A i \in 1..Len(frontier') : Chain(frontier'[i][1], frontier'[i][2])
      BY <2>4, <3>1 DEF WalkInv, Deep
    <3>. QED BY <2>2, <3>2 DEF Deep, Chain
  <2>. QED BY <2>2, <2>5, <2>6, <2>7, <2>8, <2>9 DEF WalkInv
<1>. QED BY <1>1, <1>2

\* A pair is taken from the stack.
LEMMA PopStep == WalkInv /\ Pop => WalkInv'
<1> SUFFICES ASSUME WalkInv, Pop PROVE WalkInv'
  OBVIOUS
<1> USE DEF Pop, input, query
<1>0. /\ UNCHANGED <<edge, start, rows, work, todo, seen>> /\ pc = "pop" /\ todo = {}
      /\ frontier \in Seq(Level)
  BY DEF WalkInv, ExpansionTypes
<1>a. Query' /\ Sound'
  <2>1. pc' # "join"
    BY <1>0
  <2>. QED BY <1>0, <2>1 DEF WalkInv, Query, Base, Upwards, Sound, Closed
<1>1. CASE frontier = <<>>
  <2>1. UNCHANGED <<frontier, cur, rest>> /\ pc' = "done"
    BY <1>1
  <2>2. ExpansionTypes' /\ Traced' /\ Covered' /\ Deep' /\ ErrorMeansDeep'
    BY <1>0, <2>1 DEF WalkInv, ExpansionTypes, Traced, Covered, Stacked, Parents, Deep, Chain, ErrorMeansDeep
  <2>. QED BY <1>0, <1>1, <1>a, <2>1, <2>2 DEF WalkInv
<1>2. CASE frontier # <<>>
  <2> DEFINE f == frontier[Len(frontier)]
  <2>1. /\ Len(frontier) \in Nat \ {0} /\ f \in Level
        /\ f = <<f[1], f[2]>> /\ f[1] \in RoleId /\ f[2] \in 0..MaxDepth
    BY <1>0, <1>2 DEF Level
  <2>2. /\ cur' = f /\ frontier' = SubSeq(frontier, 1, Len(frontier) - 1)
        /\ IF AtLimit(f) THEN rest' = {} /\ pc' = (IF TooDeep(f) THEN "error" ELSE "pop")
                         ELSE rest' = Parents(f[1]) /\ pc' = "visit"
    BY <1>2
  <2>3. /\ frontier' \in Seq(Level) /\ Len(frontier') = Len(frontier) - 1
        /\ \A i \in 1..Len(frontier') : frontier'[i] = frontier[i]
    BY <1>0, <1>2, <2>2, Popped
  <2>4. Parents(f[1]) \subseteq RoleId
    BY DEF WalkInv, ExpansionTypes, Parents
  <2>5. Chain(f[1], f[2]) /\ f[1] \in start \union seen
    BY <2>1 DEF WalkInv, Deep, Traced
  <2> HIDE DEF f
  <2>6. ExpansionTypes'
    BY <1>0, <2>1, <2>2, <2>3, <2>4 DEF WalkInv, ExpansionTypes
  <2>7. Traced'
    <3>1. \A i \in 1..Len(frontier') : frontier'[i][1] \in start \union seen
      BY <2>1, <2>3 DEF WalkInv, Traced
    <3>2. pc' = "visit" => f[2] < MaxDepth /\ rest' = Parents(f[1])
      BY <2>1, <2>2, DepthAssumption DEF AtLimit
    <3>. QED BY <1>0, <2>2, <2>5, <3>1, <3>2 DEF WalkInv, Traced, Parents
  <2>8. Covered'
    <3>0. pc' # "join"
      BY <2>2
    <3> SUFFICES ASSUME pc' # "error", NEW r \in start \union seen
                 PROVE  \/ Stacked(r)'
                        \/ pc' = "visit" /\ r = cur'[1] /\ Parents(r) \subseteq seen \union rest'
                        \/ Parents(r) \subseteq seen
      BY <1>0, <3>0 DEF Covered, Parents
    <3>1. CASE Stacked(r) /\ r # f[1]
      BY <2>1, <2>3, <3>1 DEF Stacked, f
    <3>2. CASE r = f[1]
      BY <2>2, <3>2 DEF TooDeep
    <3>3. CASE Parents(r) \subseteq seen
      BY <2>2, <3>3
    <3>. QED BY <1>0, <3>1, <3>2, <3>3 DEF WalkInv, Covered
  <2>9. Deep'
    <3>1. \A i \in 1..Len(frontier') : Chain(frontier'[i][1], frontier'[i][2])
      BY <2>1, <2>3 DEF WalkInv, Deep
    <3>. QED BY <1>0, <2>2, <2>5, <3>1 DEF Deep, Chain
  <2>10. ErrorMeansDeep'
    <3> SUFFICES ASSUME pc' = "error"
                 PROVE  \E p \in RoleId : Chain(p, MaxDepth + 1)
      BY <1>0, DepthAssumption DEF ErrorMeansDeep, Chain
    <3>1. f[2] = MaxDepth /\ Parents(f[1]) # {}
      BY <2>1, <2>2, DepthAssumption DEF AtLimit, TooDeep
    <3>a. PICK e \in rows : e[1] = f[1]
      BY <3>1 DEF Parents
    <3>b. e \in edge /\ e \in RoleId \X RoleId
      BY <3>a DEF WalkInv, ExpansionTypes
    <3>2. PICK p \in RoleId : <<f[1], p>> \in edge
      BY <3>a, <3>b
    <3>. QED BY <2>1, <2>5, <3>1, <3>2, DepthAssumption, ChainGrows
  <2>. QED BY <1>0, <1>a, <2>2, <2>6, <2>7, <2>8, <2>9, <2>10 DEF WalkInv
<1>. QED BY <1>1, <1>2

\* A parent is looked at.
LEMMA VisitStep == WalkInv /\ Visit => WalkInv'
<1> SUFFICES ASSUME WalkInv, Visit PROVE WalkInv'
  OBVIOUS
<1> USE DEF Visit, input, query
<1>0. UNCHANGED <<edge, start, rows, work, todo, cur>> /\ pc = "visit" /\ pc' \in {"pop", "visit"}
  OBVIOUS
<1>a. Query' /\ ErrorMeansDeep'
  BY <1>0 DEF WalkInv, Query, Base, Upwards, ErrorMeansDeep
<1>1. CASE rest = {}
  <2>1. UNCHANGED <<seen, frontier, rest>> /\ pc' = "pop"
    BY <1>1
  <2>2. ExpansionTypes' /\ Sound' /\ Traced' /\ Covered' /\ Deep'
    BY <1>0, <1>1, <2>1 DEF WalkInv, ExpansionTypes, Sound, Closed, Traced, Covered, Stacked, Parents, Deep, Chain
  <2>. QED BY <1>0, <1>1, <1>a, <2>1, <2>2 DEF WalkInv
<1>2. CASE rest # {}
  <2>1. PICK p \in rest : /\ rest' = rest \ {p}
                          /\ seen' = seen \union {p}
                          /\ frontier' = IF p \in seen THEN frontier
                                           ELSE Append(frontier, NextLevel(p))
                          /\ pc' = "visit"
    BY <1>0, <1>2
  <2>2. /\ cur[1] \in RoleId /\ cur[2] \in 0..MaxDepth /\ cur[2] < MaxDepth
        /\ cur[1] \in start \union seen /\ frontier \in Seq(Level)
    BY <1>0 DEF WalkInv, ExpansionTypes, Traced, Level
  <2>3. p \in RoleId /\ <<cur[1], p>> \in rows /\ <<cur[1], p>> \in edge
    BY <1>0, <2>1 DEF WalkInv, ExpansionTypes, Traced, Parents
  <2>4. NextLevel(p) \in Level /\ NextLevel(p)[1] = p /\ NextLevel(p)[2] = cur[2] + 1
    BY <2>2, <2>3, DepthAssumption DEF NextLevel, Level
  <2>5. /\ frontier' \in Seq(Level)
        /\ Len(frontier') \in Nat /\ Len(frontier) \in Nat /\ Len(frontier) <= Len(frontier')
        /\ \A i \in 1..Len(frontier) : frontier'[i] = frontier[i]
        /\ \A i \in 1..Len(frontier') : i \in 1..Len(frontier) \/ frontier'[i] = NextLevel(p)
        /\ p \notin seen => /\ Len(frontier') = Len(frontier) + 1
                            /\ frontier'[Len(frontier')] = NextLevel(p)
    BY <2>1, <2>2, <2>4
  <2>6. ExpansionTypes'
    BY <1>0, <2>1, <2>3, <2>5 DEF WalkInv, ExpansionTypes
  <2>7. Sound'
    <3> SUFFICES ASSUME NEW S \in SUBSET RoleId, Closed(S)
                 PROVE  seen' \subseteq S /\ \A e \in rows : e[1] \in start \union S
      BY <1>0 DEF Sound, Closed
    <3>1. seen \subseteq S /\ \A e \in rows : e[1] \in start \union S
      BY DEF WalkInv, Sound
    <3>2. p \in S
      BY <2>3, <3>1 DEF Closed
    <3>. QED BY <2>1, <3>1, <3>2
  <2>8. Traced'
    <3>1. \A r \in seen' : \E e \in rows : e[2] = r
      BY <2>1, <2>3 DEF WalkInv, Traced
    <3>2. \A i \in 1..Len(frontier') : frontier'[i][1] \in start \union seen'
      BY <2>1, <2>4, <2>5 DEF WalkInv, Traced
    <3>3. rest' \subseteq Parents(cur[1])
      BY <1>0, <2>1 DEF WalkInv, Traced
    <3>. QED BY <1>0, <2>1, <2>2, <3>1, <3>2, <3>3 DEF Traced, Parents
  <2>9. Covered'
    <3> SUFFICES ASSUME NEW r \in start \union seen'
                 PROVE  \/ r \in todo
                        \/ Stacked(r)'
                        \/ r = cur[1] /\ Parents(r) \subseteq seen' \union rest'
                        \/ Parents(r) \subseteq seen'
      BY <1>0, <2>1 DEF Covered, Parents
    <3>1. CASE r \in start \union seen
      <4>1. \/ r \in todo
            \/ Stacked(r)
            \/ r = cur[1] /\ Parents(r) \subseteq seen \union rest
            \/ Parents(r) \subseteq seen
        BY <1>0, <3>1 DEF WalkInv, Covered
      <4>2. Stacked(r) => Stacked(r)'
        BY <2>5 DEF Stacked
      <4>. QED BY <2>1, <4>1, <4>2
    <3>2. CASE r = p /\ p \notin seen
      BY <2>4, <2>5, <3>2 DEF Stacked
    <3>. QED BY <2>1, <3>1, <3>2
  <2>10. Deep'
    <3>1. Chain(cur[1], cur[2])
      BY <1>0 DEF WalkInv, Deep
    <3>2. Chain(p, cur[2] + 1)
      BY <2>2, <2>3, <3>1, ChainGrows
    <3>3. \A i \in 1..Len(frontier') : Chain(frontier'[i][1], frontier'[i][2])
      BY <2>4, <2>5, <3>2 DEF WalkInv, Deep
    <3>. QED BY <1>0, <3>1, <3>3 DEF Deep, Chain
  <2>. QED BY <1>0, <1>a, <2>1, <2>6, <2>7, <2>8, <2>9, <2>10 DEF WalkInv
<1>. QED BY <1>1, <1>2

LEMMA RestStep == WalkInv /\ UNCHANGED walking => WalkInv'
BY DEF WalkInv, walking, ExpansionTypes, Query, Base, Upwards, Sound, Closed, Traced, Covered, Stacked, Parents,
       Deep, Chain, ErrorMeansDeep

\* The inductive invariant of the walk holds for every table, cyclic ones included.
THEOREM ExpansionInvariant == Expansion => []WalkInv
<1>1. WalkInv /\ [Step]_walking => WalkInv'
  BY JoinStep, LoadStep, PopStep, VisitStep, RestStep DEF Step
<1>. QED BY <1>1, CalledInv, PTL DEF Expansion

-------------------------------------------------------------------------------
\* When the walk ends without an error it has seen the least set that is closed
\* under "inherits from": no order in which sets are gone through and no cycle
\* in the table can add an ancestor or lose one.
THEOREM ExpansionIsExact == Expansion => []Exact
<1> SUFFICES ASSUME WalkInv, pc = "done"
             PROVE  Closed(seen) /\ \A S \in SUBSET RoleId : Closed(S) => seen \subseteq S
  BY ExpansionInvariant, PTL DEF Exact
<1>1. ASSUME NEW e \in edge, e[1] \in start \union seen PROVE e[2] \in seen
  <2>1. e \in rows
    <3>1. CASE e[1] \in start
      BY <1>1, <3>1 DEF WalkInv, Query, Base
    <3>2. CASE e[1] \in seen
      BY <1>1, <3>2 DEF WalkInv, Query, Traced, Upwards
    <3>. QED BY <1>1, <3>1, <3>2
  <2>2. Parents(e[1]) \subseteq seen
    BY <1>1 DEF WalkInv, Covered, Stacked
  <2>. QED BY <2>1, <2>2 DEF Parents
<1>. QED BY <1>1 DEF WalkInv, Sound, Closed

\* The error is raised only on a chain of more than max_depth edges.
THEOREM NoFalseAlarm == Expansion => []ErrorMeansDeep
<1>1. WalkInv => ErrorMeansDeep
  BY DEF WalkInv
<1>. QED BY <1>1, ExpansionInvariant, PTL

\* Type correctness of the walk, its depth included.
THEOREM ExpansionTyped == Expansion => []ExpansionTypes
<1>1. WalkInv => ExpansionTypes
  BY DEF WalkInv
<1>. QED BY <1>1, ExpansionInvariant, PTL

\* The walk ends with what the readers of Permissions are given in one step.
Agrees == pc = "done" /\ RoleId = Role /\ edge = roles.edge => start \union seen = Expand(start)

\* What the readers of Permissions are given for the expansion, in one step, is
\* what the walk has when it ends without an error.
THEOREM WalkIsExpand == Expansion => []Agrees
<1>1. ExpansionTypes /\ Exact => Agrees
  <2>. SUFFICES ASSUME ExpansionTypes, Exact, pc = "done", RoleId = Role, edge = roles.edge
                PROVE  start \union seen = Expand(start)
    BY DEF Agrees
  <2>1. start \subseteq Role /\ seen \subseteq Role /\ edge \subseteq Role \X Role
    BY DEF ExpansionTypes
  <2>2. Closed(seen) /\ \A S \in SUBSET Role : Closed(S) => seen \subseteq S
    BY DEF Exact
  <2>3. ASSUME NEW x \in start \union seen PROVE x \in Expand(start)
    <3>1. ASSUME NEW T \in SUBSET Role, start \subseteq T, \A e \in roles.edge : e[1] \in T => e[2] \in T
          PROVE  x \in T
      <4>1. Closed(T)
        BY <3>1 DEF Closed
      <4>. QED BY <2>2, <2>3, <3>1, <4>1
    <3>. QED BY <2>1, <2>3, <3>1 DEF Expand
  <2>4. ASSUME NEW x \in Expand(start) PROVE x \in start \union seen
    <3>1. \A e \in roles.edge : e[1] \in start \union seen => e[2] \in start \union seen
      BY <2>2 DEF Closed
    <3>. QED BY <2>1, <2>4, <3>1 DEF Expand
  <2>. QED BY <2>3, <2>4
<1>. QED BY <1>1, ExpansionIsExact, ExpansionTyped, PTL
================================================================================
