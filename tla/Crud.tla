-------------------------------- MODULE Crud --------------------------------
(***************************************************************************)
(* The common base of the generated domains, crud/base.py, under the        *)
(* routes of api/v1/endpoints/v31_*.py: create, get, list, update and       *)
(* delete on one table, by requests that overlap, while another request     *)
(* deletes the row the table refers to.                                     *)
(*                                                                          *)
(* The four catalogues describe 44 entities.  What the base does depends    *)
(* on a few facts of an entity only; a behaviour chooses a Shape, which is  *)
(* what some entity of the catalogue looks like through one key and one     *)
(* reference of it, and keeps it.                                           *)
(*                                                                          *)
(* A request runs in one transaction of a READ COMMITTED database: it reads *)
(* the row (update, delete), flushes one statement that takes the row lock, *)
(* records the success, and commits in the endpoint; the response is built  *)
(* from the row after that.  The permission check before all this refuses   *)
(* or does nothing, and is left out.                                        *)
(***************************************************************************)
EXTENDS CatalogueUser, CatalogueGrowth, CatalogueTool, CatalogueBlog

CONSTANTS
  Request,      \* places for requests that are served at the same time
  Key,          \* values of the unique column
  Note,         \* values of any other column
  Target,       \* the row that may be referred to
  None,         \* NULL
  MaxRows,      \* rows ever inserted
  MaxRequests,  \* requests ever served
  MaxLost       \* commits that fail

ASSUME CrudBounds ==
  /\ MaxRows \in Nat \ {0} /\ MaxRequests \in Nat /\ MaxLost \in Nat
  /\ None \notin Key \cup Note \cup {Target}

Entities == UserDomain \cup GrowthDomain \cup ToolDomain \cup BlogDomain

(* The committed request and response models are those the generator would  *)
(* write for the tables as they are now (scripts/gen_v31_crud.py says they  *)
(* are its output).                                                         *)
ASSUME SchemasAreGenerated ==
  \A e \in Entities : e.schema = GeneratedSchema(e.table)

(* Every foreign key leads to a table of the catalogue or to admin_users,   *)
(* and no two entities share a path.                                        *)
ASSUME CatalogueIsClosed ==
  /\ \A e \in Entities : \A c \in DOMAIN e.table.refs :
       e.table.refs[c] \in {f.table.name : f \in Entities} \cup {"admin_users"}
  /\ \A e, f \in Entities : e.prefix = f.prefix => e = f

-----------------------------------------------------------------------------
(* What the base can tell of an entity, seen through reference c of it.     *)

ChosenRefs(e) == LET refs == DOMAIN e.table.refs \cap Named(e)
                 IN  IF refs = {} THEN {None} ELSE refs

(* admin_users, the only target outside the catalogue, is deleted logically.*)
StaysForever(table) == \A f \in Entities : f.table.name = table => HasSoftDelete(f)

Shape(e, c) ==
  [ soft      |-> HasSoftDelete(e),
    hasId     |-> HasId(e),
    creatable |-> Creatable(e),
    answered  |-> ~Unanswerable(e),
    unique    |-> IF e.table.liveKeys # {} THEN "live"
                  ELSE IF e.table.keys # {} THEN "all" ELSE "no",
    ref       |-> IF c = None THEN "no"
                  ELSE IF c \in e.table.required THEN "required" ELSE "optional",
    strict    |-> c \in Strict(e),
    stays     |-> c # None => StaysForever(e.table.refs[c]) ]

Shapes == UNION {{Shape(e, c) : c \in ChosenRefs(e)} : e \in Entities}

-----------------------------------------------------------------------------
VARIABLES
  shape,    \* what the table looks like; never changes
  rows,     \* the table, in the order of the ids; "unborn" until committed
  target,   \* the row referred to
  job,      \* per place, the request it serves
  served,   \* requests begun
  audit,    \* what was recorded as a success
  lost,     \* commits that failed
  walk      \* a client that reads the list page by page

vars == <<shape, rows, target, job, served, audit, lost, walk>>

Ids == 1..Len(rows)
Row == [state : {"unborn", "live", "gone", "erased"}, key : Key \cup {None},
        ref : {Target, None}, note : Note \cup {None}]
Burnt == [state |-> "erased", key |-> None, ref |-> None, note |-> None]

Values == Key \cup Note \cup {Target, None}
Idle == [pc |-> "idle", op |-> "none", id |-> 0, named |-> <<>>, copy |-> Burnt,
         write |-> <<>>, out |-> "none"]

(* The row after a statement that sets these columns of it.                 *)
Set(row, cols) == [c \in DOMAIN row |-> IF c \in DOMAIN cols THEN cols[c] ELSE row[c]]

Live(rs) == {i \in DOMAIN rs : rs[i].state = "live"}

Pending(r) == job[r].pc = "flushed" /\ job[r].write # <<>>
Locked(r, i) == \E q \in Request \ {r} : Pending(q) /\ job[q].id = i

Init ==
  /\ shape \in Shapes
  /\ rows = <<>>
  /\ target = "live"
  /\ job = [r \in Request |-> Idle]
  /\ served = 0
  /\ audit = {} /\ lost = {}
  /\ walk = [pc |-> "idle", page |-> 1, seen |-> {}, start |-> {}, deleted |-> FALSE]

-----------------------------------------------------------------------------
(* What the database checks when a row is written.                          *)

(* Seeded fault: the index is not restricted to the rows that are not       *)
(* deleted.                                                                 *)
TakenEvenIfDeleted(i, k) ==
  \E j \in Ids \ {i} : rows[j].state \in {"live", "gone"} /\ rows[j].key = k

(* Another row that the unique index holds has this key.                    *)
Taken(i, k) == \E j \in Ids \ {i} : rows[j].state = "live" /\ rows[j].key = k

Duplicate(i, row) ==
  shape.unique # "no" /\ row.state = "live" /\ Taken(i, row.key)

BadReference(row) ==
  \/ row.ref = None /\ shape.ref = "required"
  \/ row.ref = Target /\ target = "erased"

Violates(i, row) == row.key = None \/ BadReference(row) \/ Duplicate(i, row)

(* A unique check waits for a transaction that is changing a row with the   *)
(* same key.                                                                *)
WaitsForKey(r, k) ==
  /\ shape.unique # "no"
  /\ \E q \in Request \ {r} : Pending(q) /\ k \in {rows[job[q].id].key,
                                            Set(rows[job[q].id], job[q].write).key}

(* The response model takes the row: a field that does not admit NULL does  *)
(* not get one.                                                             *)
Fits(row) == shape.answered /\ ~(shape.strict /\ row.ref = None)

Start(r) == job[r].pc \in {"idle", "done"} /\ served < MaxRequests

Begin(r, j) == job' = [job EXCEPT ![r] = j] /\ served' = served + 1
Answer(r, out) == job' = [job EXCEPT ![r].pc = "done", ![r].out = out,
                                     ![r].copy = Burnt, ![r].write = <<>>]

-----------------------------------------------------------------------------
(* POST: every column the schema offers is set, absent ones to NULL, and    *)
(* the new row is flushed.  An entity without id fails on instance.id right *)
(* after that, before anything is recorded.                                 *)

Create(r, key, ref, note) ==
  LET i   == Len(rows) + 1
      new == [state |-> "live", key |-> key, ref |-> ref, note |-> note]
      j   == [Idle EXCEPT !.op = "create", !.id = i,
                          !.named = [key |-> key, ref |-> ref, note |-> note]]
  IN
  /\ Start(r) /\ Len(rows) < MaxRows
  /\ ref \in IF shape.ref = "no" THEN {None}
             ELSE IF shape.ref = "required" THEN {Target} ELSE {Target, None}
  /\ ~WaitsForKey(r, key)
  /\ IF ~shape.creatable \/ ~shape.hasId \/ Violates(i, new)
     THEN /\ Begin(r, [j EXCEPT !.pc = "done", !.out = "failed"])
          /\ rows' = Append(rows, Burnt)
          /\ UNCHANGED audit
     ELSE /\ Begin(r, [j EXCEPT !.pc = "flushed", !.write = [state |-> "live"]])
          /\ rows' = Append(rows, [new EXCEPT !.state = "unborn"])
          /\ audit' = audit \cup {<<"create", i>>}
  /\ UNCHANGED <<shape, target, lost, walk>>

(* What an update may name; a column that may not be NULL can be named with *)
(* NULL all the same.  A request that names two columns does what two that  *)
(* name one do in one statement.                                            *)
Naming == {[key |-> k] : k \in IF shape.unique = "no" THEN {} ELSE Key \cup {None}}
     \cup {[ref |-> t] : t \in IF shape.ref = "no" THEN {} ELSE {Target, None}}
     \cup {[note |-> n] : n \in Note}

(* GET, PUT and DELETE of one id begin by reading a row that is not         *)
(* deleted; without a column id the statement cannot be built.              *)
Read(r, op, i, named) ==
  LET j == [Idle EXCEPT !.op = op, !.id = i, !.named = named]
  IN
  /\ Start(r)
  /\ IF ~shape.hasId \/ i \notin Live(rows)
     THEN Begin(r, [j EXCEPT !.pc = "done",
                             !.out = IF shape.hasId THEN "not found" ELSE "failed"])
     ELSE IF op = "get"
     THEN Begin(r, [j EXCEPT !.pc = "done", !.out = IF Fits(rows[i]) THEN "ok"
                                                    ELSE "failed"])
     ELSE Begin(r, [j EXCEPT !.pc = "read", !.copy = rows[i]])
  /\ UNCHANGED <<shape, rows, target, audit, lost, walk>>

(* Seeded fault: the whole row is written back.                             *)
StoredWhole(named, copy) == Set(copy, named)

(* What PUT stores: of the columns it names, those that differ from the     *)
(* copy it read.                                                            *)
Stored(named, copy) ==
  [c \in {d \in DOMAIN named : named[d] # copy[d]} |-> named[c]]

FlushUpdate(r) ==
  LET j == job[r]
      write == Stored(j.named, j.copy)
      new   == Set(rows[j.id], write)
  IN
  /\ j.pc = "read" /\ j.op = "update"
  /\ write = <<>> \/ (~Locked(r, j.id) /\ ~WaitsForKey(r, new.key))
  /\ IF write # <<>> /\ (rows[j.id].state = "erased" \/ Violates(j.id, new))
     THEN Answer(r, "failed") /\ UNCHANGED audit
     ELSE /\ job' = [job EXCEPT ![r].pc = "flushed", ![r].write = write]
          /\ audit' = audit \cup {<<"update", j.id>>}
  /\ UNCHANGED <<shape, rows, target, served, lost, walk>>

(* A row whose table has deleted_at is marked; any other is removed.        *)
Removed == IF shape.soft THEN "gone" ELSE "erased"

FlushDelete(r) ==
  LET j == job[r] IN
  /\ j.pc = "read" /\ j.op = "delete"
  /\ ~Locked(r, j.id)
  /\ job' = [job EXCEPT ![r].pc = "flushed", ![r].write = [state |-> Removed]]
  /\ audit' = audit \cup {<<"delete", j.id>>}
  /\ UNCHANGED <<shape, rows, target, served, lost, walk>>

(* Seeded fault: the endpoint of DELETE does not commit.                    *)
CommitUnlessDelete(r) ==
  LET j   == job[r]
      own == IF j.op = "create" THEN rows[j.id] ELSE Set(j.copy, j.write)
  IN
  /\ j.pc = "flushed"
  /\ rows' = IF j.op = "delete" THEN rows ELSE [rows EXCEPT ![j.id] = Set(@, j.write)]
  /\ walk' = [walk EXCEPT !.deleted = @ \/ (walk.pc # "idle" /\ j.op = "delete")]
  /\ Answer(r, IF Fits(own) THEN "ok" ELSE "failed")
  /\ UNCHANGED <<shape, target, served, audit, lost>>

(* session.commit() of the endpoint, then the response from the instance.   *)
Commit(r) ==
  LET j   == job[r]
      own == IF j.op = "create" THEN rows[j.id] ELSE Set(j.copy, j.write)
  IN
  /\ j.pc = "flushed"
  /\ rows' = [rows EXCEPT ![j.id] = Set(@, j.write)]
  /\ walk' = [walk EXCEPT !.deleted = @ \/ (walk.pc # "idle" /\ j.op = "delete")]
  /\ Answer(r, IF Fits(own) THEN "ok" ELSE "failed")
  /\ UNCHANGED <<shape, target, served, audit, lost>>

(* Seeded fault: each statement commits by itself.                          *)
CommitFailsAfterStoring(r) ==
  LET j == job[r] IN
  /\ j.pc = "flushed"
  /\ Cardinality(lost) < MaxLost
  /\ rows' = [rows EXCEPT ![j.id] = Set(@, j.write)]
  /\ lost' = lost \cup {<<j.op, j.id>>}
  /\ Answer(r, "failed")
  /\ UNCHANGED <<shape, target, served, audit, walk>>

(* The commit raises; get_db rolls back.                                    *)
CommitFails(r) ==
  LET j == job[r] IN
  /\ j.pc = "flushed"
  /\ Cardinality(lost) < MaxLost
  /\ rows' = IF j.op = "create" THEN [rows EXCEPT ![j.id] = Burnt] ELSE rows
  /\ lost' = lost \cup {<<j.op, j.id>>}
  /\ Answer(r, "failed")
  /\ UNCHANGED <<shape, target, served, audit, walk>>

(* The row referred to is deleted through its own routes: marked, or        *)
(* removed when no row refers to it (RESTRICT), deleted ones included.      *)
DropTarget ==
  /\ target = "live" /\ shape.ref # "no"
  /\ IF shape.stays THEN target' = "gone"
     ELSE /\ \A i \in Ids : rows[i].ref # Target \/ rows[i].state = "erased"
          /\ \A r \in Request : Pending(r) =>
               Set(rows[job[r].id], job[r].write).ref # Target
          /\ target' = "erased"
  /\ UNCHANGED <<shape, rows, job, served, audit, lost, walk>>

-----------------------------------------------------------------------------
(* A client reads the list to its end, one row a page: each page is one     *)
(* request that selects the rows, newest first, and then counts them.       *)

(* Seeded fault: the offset is the page number.                             *)
NthAfter(ids, n) == {i \in ids : Cardinality({k \in ids : k >= i}) = n + 1}

Nth(ids, n) == {i \in ids : Cardinality({k \in ids : k >= i}) = n}

WalkBegin ==
  /\ walk.pc = "idle"
  /\ walk' = [walk EXCEPT !.pc = "items", !.start = Live(rows)]
  /\ UNCHANGED <<shape, rows, target, job, served, audit, lost>>

WalkItems ==
  LET items == Nth(Live(rows), walk.page) IN
  /\ walk.pc = "items"
  /\ IF ~shape.hasId \/ \E i \in items : ~Fits(rows[i])
     THEN walk' = [walk EXCEPT !.pc = "failed"]
     ELSE walk' = [walk EXCEPT !.pc = "count", !.seen = @ \cup items]
  /\ UNCHANGED <<shape, rows, target, job, served, audit, lost>>

WalkCount ==
  /\ walk.pc = "count"
  /\ IF walk.page >= Cardinality(Live(rows))
     THEN walk' = [walk EXCEPT !.pc = "done"]
     ELSE walk' = [walk EXCEPT !.pc = "items", !.page = @ + 1]
  /\ UNCHANGED <<shape, rows, target, job, served, audit, lost>>

-----------------------------------------------------------------------------
Serve(r) ==
  \/ \E k \in Key, t \in {Target, None}, n \in Note : Create(r, k, t, n)
  \/ \E i \in Ids : Read(r, "get", i, <<>>) \/ Read(r, "delete", i, <<>>)
  \/ \E i \in Ids, named \in Naming : Read(r, "update", i, named)
  \/ FlushUpdate(r) \/ FlushDelete(r)
  \/ Commit(r) \/ CommitFails(r)

Next == (\E r \in Request : Serve(r)) \/ DropTarget \/ WalkBegin \/ WalkItems \/ WalkCount

Spec == Init /\ [][Next]_vars

-----------------------------------------------------------------------------
(* Every variable has the shape the code gives it; a row is marked deleted  *)
(* only in a table with deleted_at.                                         *)
TypeOK ==
  /\ shape \in Shapes
  /\ rows \in Seq(Row) /\ Len(rows) <= MaxRows
  /\ \A i \in Ids : rows[i].state = "gone" => shape.soft
  /\ target \in {"live", "gone", "erased"}
  /\ served \in 0..MaxRequests
  /\ \A r \in Request :
       /\ job[r].pc \in {"idle", "read", "flushed", "done"}
       /\ job[r].op \in {"none", "create", "get", "update", "delete"}
       /\ job[r].id \in Ids \cup {0}
       /\ job[r].copy \in Row
       /\ job[r].out \in {"none", "ok", "failed", "not found"}
       /\ \A c \in DOMAIN job[r].write : job[r].write[c] \in Values \cup {"live", "gone",
                                                                         "erased"}
  /\ audit \subseteq {"create", "update", "delete"} \X Ids /\ lost \subseteq audit
  /\ walk.seen \subseteq Ids /\ walk.start \subseteq Ids /\ walk.page \in 1..MaxRows

(* A stored row changes only by a request that names what changes: an       *)
(* update touches no column its body leaves out, although it wrote from a   *)
(* copy that is older than what others have committed since, and no update  *)
(* brings a deleted row back.                                               *)
WritesWhatItNames ==
  [][\A i \in Ids : rows[i].state # "unborn" /\ rows'[i] # rows[i] =>
       \E r \in Request :
         /\ job[r].pc = "flushed" /\ job[r].id = i
         /\ \/ job[r].op = "delete" /\ rows'[i] = [rows[i] EXCEPT !.state = Removed]
            \/ /\ job[r].op = "update"
               /\ \A c \in DOMAIN rows[i] : rows'[i][c] # rows[i][c] =>
                    c \in DOMAIN job[r].named /\ rows'[i][c] = job[r].named[c]]_vars

Ends(r) == job'[r] # job[r] /\ job'[r].pc = "done"

(* A request that is answered with an error has stored nothing, unless the  *)
(* response model could not take the row as the request knew it: the        *)
(* endpoint commits before it builds the response.                          *)
FailureStoresNothing ==
  [][\A r \in Request : Ends(r) /\ job'[r].out # "ok" =>
       \/ \A i \in Ids : rows'[i] # rows[i] => rows[i].state = "unborn" /\ rows'[i] = Burnt
       \/ job[r].op = "create" /\ ~Fits(rows[job[r].id])
       \/ job[r].op # "create" /\ ~Fits(Set(job[r].copy, job[r].write))]_vars

(* A key is refused only for a row that is not deleted: a creation fails    *)
(* because the table can never take one, because the row it refers to is    *)
(* gone for good, or because a live row has its key (08-DDL: the unique     *)
(* indexes of tables with deleted_at are partial).                          *)
DeletedKeyIsFree ==
  [][\A r \in Request :
       Ends(r) /\ job'[r].op = "create" /\ job[r].pc # "flushed" =>
         \/ ~shape.creatable \/ ~shape.hasId
         \/ job'[r].named.ref = Target /\ target = "erased"
         \/ \E i \in Live(rows) : rows[i].key = job'[r].named.key]_vars

(* The records of success and the table agree: what is stored is recorded,  *)
(* and what is recorded is stored, about to be, or was lost by the commit.  *)
AuditTells ==
  /\ \A i \in Ids :
       /\ rows[i].state \in {"live", "gone"} => <<"create", i>> \in audit
       /\ rows[i].state \notin {"unborn", "live"} /\ rows[i] # Burnt =>
            <<"delete", i>> \in audit
  /\ \A a \in audit \ lost :
       \/ \E r \in Request : job[r].pc = "flushed" /\ a = <<job[r].op, job[r].id>>
       \/ a[1] = "create" /\ rows[a[2]].state # "unborn" /\ rows[a[2]] # Burnt
       \/ a[1] = "update"
       \/ a[1] = "delete" /\ rows[a[2]].state \in {"gone", "erased"}

(* With the types.                                                          *)
AuditInv == TypeOK /\ AuditTells

(* A client that reads all pages meets every row that was there from its    *)
(* first request to its last, however many are added meanwhile, if none is  *)
(* deleted meanwhile (a deletion moves the rest up by one, past the client).*)
WalkMissesNothing ==
  walk.pc = "done" /\ ~walk.deleted => walk.start \subseteq walk.seen

(* 05 and 07 of the V3.1 design, and the docstrings of the models: a user   *)
(* likes an article once, has it among the favourites once, and has one     *)
(* profile.  The key stands for the pair of columns, or for user_id.        *)
PromisedKey == {e \in Entities : e.table.name \in {"blog_like", "blog_favorite",
                                                  "biz_user_profile"}}
PromisedKeysHold ==
  (\E e \in PromisedKey : \E c \in ChosenRefs(e) : shape = Shape(e, c)) =>
    \A i, j \in Live(rows) : rows[i].key = rows[j].key => i = j
=============================================================================
