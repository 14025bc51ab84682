------------------------------ MODULE CrudProofs ------------------------------
(***************************************************************************)
(* What the common base of the generated domains keeps, for every entity   *)
(* of the catalogues, any number of requests at a time and rows of any     *)
(* keys: the records of success and the table agree, a row changes only by *)
(* what a request names, and a list that is read to its end misses nothing.*)
(*                                                                         *)
(* What a request has flushed fits the row as it is now (Local): a row     *)
(* that is being created is its creator's alone (Apart), and one that has  *)
(* been created never becomes a gap in the ids again.                      *)
(***************************************************************************)
EXTENDS Crud, SequenceTheorems, FiniteSetTheorems, TLAPS

-------------------------------------------------------------------------------
\* Types.  Columns of a statement: some of the columns of a row, with values.
State == {"unborn", "live", "gone", "erased"}

Cols(w) == /\ DOMAIN w \subseteq {"state", "key", "ref", "note"}
           /\ "state" \in DOMAIN w => w["state"] \in State
           /\ "key"   \in DOMAIN w => w["key"] \in Key \cup {None}
           /\ "ref"   \in DOMAIN w => w["ref"] \in {Target, None}
           /\ "note"  \in DOMAIN w => w["note"] \in Note \cup {None}

Fields == {"pc", "op", "id", "named", "copy", "write", "out"}

JobLike(j) ==
  /\ DOMAIN j = Fields
  /\ j.pc \in {"idle", "read", "flushed", "done"}
  /\ j.op \in {"none", "create", "get", "update", "delete"}
  /\ j.id \in Nat /\ j.copy \in Row
  /\ j.out \in {"none", "ok", "failed", "not found"}
  /\ Cols(j.write)
  /\ "state" \in DOMAIN j.write => j.write["state"] # "unborn"
  /\ j.op = "update" => Cols(j.named) /\ "state" \notin DOMAIN j.named

Walk == [pc : {"idle", "items", "count", "done", "failed"}, page : Nat, seen : SUBSET Nat,
         start : SUBSET Nat, deleted : BOOLEAN]

Types ==
  /\ shape \in Shapes
  /\ rows \in Seq(Row) /\ Len(rows) <= MaxRows
  /\ target \in {"live", "gone", "erased"}
  /\ served \in 0..MaxRequests
  /\ DOMAIN job = Request
  /\ \A r \in Request : JobLike(job[r]) /\ job[r].id <= Len(rows)
  /\ audit \subseteq {"create", "update", "delete"} \X Ids /\ lost \subseteq audit
  /\ walk \in Walk /\ walk.page \in 1..MaxRows
  /\ walk.seen \subseteq Ids /\ walk.start \subseteq Ids

\* A row has a key, or its id is a gap; once created it is recorded, and it is
\* marked deleted only with deleted_at.
Keyed == \A i \in Ids :
  /\ rows[i] = Burnt \/ rows[i].key # None
  /\ rows[i].key # None /\ rows[i].state # "unborn" => <<"create", i>> \in audit
  /\ rows[i].state = "gone" => shape.soft

\* What a request has read or flushed fits the row as it is.
Creates(r) == job[r].pc = "flushed" /\ job[r].op = "create"

Local(r) ==
  LET j == job[r] IN
  /\ j.pc = "read" => j.op \in {"update", "delete"}
  /\ j.pc \in {"read", "flushed"} =>
       /\ j.id \in Ids /\ rows[j.id].key # None
       /\ j.op # "create" => rows[j.id].state # "unborn"
  /\ j.pc = "flushed" =>
       /\ <<j.op, j.id>> \in audit
       /\ j.op = "create" => rows[j.id].state = "unborn" /\ j.write = [state |-> "live"]
       /\ j.op = "update" => /\ j.write = Stored(j.named, j.copy)
                             /\ "key" \in DOMAIN j.write => j.write["key"] # None
       /\ j.op = "delete" => j.write = [state |-> Removed]

\* A row is created by one request.
Apart == \A q, r \in Request : q # r /\ Creates(q) /\ Creates(r) => job[q].id # job[r].id

\* How many live rows are not older than row i.
From(rs, i) == {k \in Live(rs) : k >= i}

\* What was there at the start is still there, and was seen or comes later.
WalkInv ==
  /\ walk.pc = "idle" => walk.page = 1
  /\ ~walk.deleted =>
       /\ walk.pc \in {"items", "count"} =>
            /\ walk.start \subseteq Live(rows)
            /\ \A i \in walk.start \ walk.seen :
                 Cardinality(From(rows, i)) >= (IF walk.pc = "items" THEN walk.page
                                                                     ELSE walk.page + 1)
       /\ walk.pc = "done" => walk.start \subseteq walk.seen

IInv == /\ Types /\ Keyed
        /\ \A r \in Request : Local(r)
        /\ Apart /\ AuditTells /\ WalkInv

-------------------------------------------------------------------------------
\* What a statement makes of a row.
LEMMA SetRow == ASSUME NEW x \in Row, NEW w, Cols(w)
                PROVE  /\ Set(x, w) \in Row
                       /\ Set(x, w).state = IF "state" \in DOMAIN w THEN w["state"] ELSE x.state
                       /\ Set(x, w).key = IF "key" \in DOMAIN w THEN w["key"] ELSE x.key
                       /\ \A c \in DOMAIN x : Set(x, w)[c] = IF c \in DOMAIN w THEN w[c] ELSE x[c]
<1>. DEFINE D == {"state", "key", "ref", "note"}
            y == Set(x, w)
<1>1. DOMAIN x = D
  BY DEF Row
<1>2. y = [c \in D |-> IF c \in DOMAIN w THEN w[c] ELSE x[c]]
  BY <1>1 DEF Set
<1>. HIDE DEF y
<1>3. y = [state |-> y["state"], key |-> y["key"], ref |-> y["ref"], note |-> y["note"]]
  BY <1>2
<1>4. /\ y["state"] = IF "state" \in DOMAIN w THEN w["state"] ELSE x["state"]
      /\ y["key"] = IF "key" \in DOMAIN w THEN w["key"] ELSE x["key"]
      /\ y["ref"] = IF "ref" \in DOMAIN w THEN w["ref"] ELSE x["ref"]
      /\ y["note"] = IF "note" \in DOMAIN w THEN w["note"] ELSE x["note"]
  BY <1>2
<1>5. /\ y["state"] \in State /\ y["key"] \in Key \cup {None}
      /\ y["ref"] \in {Target, None} /\ y["note"] \in Note \cup {None}
  BY <1>4 DEF Cols, Row, State
<1>. HIDE DEF D
<1>6. y \in Row
  BY <1>3, <1>5 DEF Row, State
<1>. QED BY <1>1, <1>2, <1>4, <1>6 DEF y, D

LEMMA BurntRow == /\ Burnt \in Row /\ Burnt.key = None /\ Burnt.state = "erased"
                  /\ \A x \in Row : x.key # None => x # Burnt
BY DEF Burnt, Row

LEMMA IdleLike == JobLike(Idle) /\ Idle.pc = "idle" /\ Idle.op = "none" /\ Idle.id = 0
BY BurntRow DEF Idle, JobLike, Fields, Cols

LEMMA NamingCols == ASSUME NEW named \in Naming
                    PROVE  Cols(named) /\ "state" \notin DOMAIN named
BY DEF Naming, Cols

LEMMA StoredCols == ASSUME NEW named, Cols(named), "state" \notin DOMAIN named, NEW copy
                    PROVE  /\ Cols(Stored(named, copy)) /\ "state" \notin DOMAIN Stored(named, copy)
                           /\ DOMAIN Stored(named, copy) \subseteq DOMAIN named
                           /\ \A c \in DOMAIN Stored(named, copy) : Stored(named, copy)[c] = named[c]
<1>. DEFINE w == Stored(named, copy)
            D == {d \in DOMAIN named : named[d] # copy[d]}
<1>1. w = [c \in D |-> named[c]]
  BY DEF Stored
<1>. HIDE DEF w
<1>2. DOMAIN w = D /\ \A c \in D : w[c] = named[c]
  BY <1>1
<1>. QED BY <1>2 DEF Cols, w

\* The rows are a function on 1..Len.
LEMMA RowsAre == ASSUME Types
                 PROVE  /\ Ids = DOMAIN rows /\ Len(rows) \in Nat /\ \A i \in Ids : rows[i] \in Row
                        /\ Ids \subseteq Nat
BY DEF Types, Ids

LEMMA LiveFinite == ASSUME NEW rs \in Seq(Row), NEW i
                    PROVE  /\ IsFiniteSet(From(rs, i)) /\ IsFiniteSet(Live(rs))
                           /\ Cardinality(From(rs, i)) <= Cardinality(Live(rs))
                           /\ Cardinality(Live(rs)) <= Len(rs)
                           /\ Cardinality(Live(rs)) \in Nat /\ Cardinality(From(rs, i)) \in Nat
<1>0. 1 \in Int /\ Len(rs) \in Int /\ Len(rs) >= 0
  OBVIOUS
<1>1. IsFiniteSet(1..Len(rs)) /\ Cardinality(1..Len(rs)) = Len(rs)
  <2>1. Cardinality(1..Len(rs)) = IF 1 > Len(rs) THEN 0 ELSE Len(rs) - 1 + 1
    BY <1>0, FS_Interval
  <2>. QED BY <1>0, <2>1, FS_Interval
<1>2. Live(rs) \in SUBSET (1..Len(rs)) /\ From(rs, i) \in SUBSET Live(rs)
  BY DEF Live, From
<1>3. IsFiniteSet(Live(rs)) /\ Cardinality(Live(rs)) <= Len(rs)
  BY <1>1, <1>2, FS_Subset
<1>. QED BY <1>2, <1>3, FS_Subset, FS_CardinalityType

LEMMA FromGrows == ASSUME NEW rs \in Seq(Row), NEW ts \in Seq(Row), Live(rs) \subseteq Live(ts), NEW i
                   PROVE  Cardinality(From(rs, i)) <= Cardinality(From(ts, i))
<1>1. From(rs, i) \in SUBSET From(ts, i)
  BY DEF From
<1>. QED BY <1>1, LiveFinite, FS_Subset

-------------------------------------------------------------------------------
LEMMA InitIInv == Init => IInv
<1>. SUFFICES ASSUME Init PROVE IInv
  OBVIOUS
<1>1. rows = <<>> /\ rows \in Seq(Row) /\ Len(rows) = 0 /\ Ids = {} /\ Live(rows) = {}
  BY DEF Init, Ids, Live
<1>2. \A r \in Request : job[r] = Idle
  BY DEF Init
<1>3. walk \in Walk /\ walk.pc = "idle" /\ walk.page = 1 /\ walk.seen = {} /\ walk.start = {}
  BY DEF Init, Walk
<1>4. Types
  BY <1>1, <1>2, <1>3, IdleLike, CrudBounds DEF Init, Types
<1>5. Keyed /\ AuditTells
  BY <1>1 DEF Init, Keyed, AuditTells
<1>6. (\A r \in Request : Local(r)) /\ Apart
  BY <1>2, IdleLike DEF Local, Apart, Creates
<1>7. WalkInv
  BY <1>3 DEF WalkInv
<1>. QED BY <1>4, <1>5, <1>6, <1>7 DEF IInv

-------------------------------------------------------------------------------
\* A step of one request: rows of other ids stay, its own row stays created and
\* keyed, and what it remembers afterwards fits.
LEMMA OthersStay ==
    ASSUME IInv, NEW r \in Request, NEW j, job' = [job EXCEPT ![r] = j],
           UNCHANGED shape, audit \subseteq audit',
           rows' \in Seq(Row), Len(rows) <= Len(rows'),
           \A i \in Ids : rows[i].key # None /\ rows[i].state # "unborn" =>
                            rows'[i].key # None /\ rows'[i].state # "unborn",
           \A q \in Request \ {r} : Creates(q) => rows'[job[q].id] = rows[job[q].id]
    PROVE  \A q \in Request \ {r} : job'[q] = job[q] /\ Local(q)'
<1>. SUFFICES ASSUME NEW q \in Request \ {r} PROVE job'[q] = job[q] /\ Local(q)'
  OBVIOUS
<1>1. job'[q] = job[q] /\ Local(q) /\ Types
  BY DEF IInv, Types
<1>2. Ids \subseteq Ids'
  BY RowsAre, <1>1 DEF Ids
<1>3. job[q].pc \in {"read", "flushed"} =>
        /\ job[q].id \in Ids' /\ rows'[job[q].id].key # None
        /\ job[q].op # "create" => rows'[job[q].id].state # "unborn"
        /\ Creates(q) => rows'[job[q].id].state = "unborn"
  BY <1>1, <1>2 DEF Local, Creates
<1>4. Removed' = Removed
  BY DEF Removed
<1>. QED BY <1>1, <1>3, <1>4 DEF Local, Creates

LEMMA ApartStays ==
    ASSUME IInv, NEW r \in Request, NEW j, job' = [job EXCEPT ![r] = j],
           j.pc = "flushed" /\ j.op = "create" => j.id = Len(rows) + 1
    PROVE  Apart'
<1>1. job'[r] = j /\ \A q \in Request \ {r} : job'[q] = job[q]
  BY DEF IInv, Types
<1>2. \A q \in Request : job[q].id \in Nat /\ job[q].id <= Len(rows) /\ Len(rows) \in Nat
  BY RowsAre DEF IInv, Types, JobLike
<1>. QED BY <1>1, <1>2 DEF IInv, Apart, Creates

\* The walk is not disturbed by rows that are added.
LEMMA WalkStays == ASSUME IInv, UNCHANGED walk, rows' \in Seq(Row), Live(rows) \subseteq Live(rows)'
                   PROVE  WalkInv'
<1>1. Live(rows)' = Live(rows') /\ \A i : From(rows, i)' = From(rows', i)
  BY DEF Live, From
<1>2. \A i : Cardinality(From(rows, i)) <= Cardinality(From(rows, i)')
  BY <1>1, FromGrows DEF IInv, Types
<1>3. \A i : Cardinality(From(rows, i)) \in Nat /\ Cardinality(From(rows, i)') \in Nat
  BY <1>1, LiveFinite DEF IInv, Types
<1>4. walk.page \in Nat
  BY DEF IInv, Types, Walk
<1>. QED BY <1>1, <1>2, <1>3, <1>4 DEF IInv, WalkInv

-------------------------------------------------------------------------------
\* Steps that leave the table: reading, refusing, flushing.
LEMMA QuietStep ==
    ASSUME IInv, NEW r \in Request, NEW j, job' = [job EXCEPT ![r] = j], JobLike(j),
           j.id <= Len(rows), served' \in 0..MaxRequests,
           UNCHANGED <<shape, rows, target, lost, walk>>, Local(r)',
           j.pc = "flushed" => j.op \in {"update", "delete"}, job[r].pc # "flushed",
           \/ UNCHANGED audit
           \/ audit' = audit \cup {<<j.op, j.id>>} /\ j.pc = "flushed"
    PROVE  IInv'
<1>1. /\ Types /\ AuditTells /\ Keyed /\ DOMAIN job = Request
      /\ rows \in Seq(Row) /\ Len(rows) \in Nat /\ Ids' = Ids
  BY RowsAre DEF IInv, Types, Ids
<1>2. job'[r] = j /\ \A q \in Request \ {r} : job'[q] = job[q]
  BY <1>1
<1>3. \A q \in Request \ {r} : Local(q)'
  <2>1. audit \subseteq audit' /\ rows' = rows /\ shape' = shape
    OBVIOUS
  <2>2. /\ rows' \in Seq(Row) /\ Len(rows) <= Len(rows')
        /\ \A i \in Ids : rows[i].key # None /\ rows[i].state # "unborn" =>
                           rows'[i].key # None /\ rows'[i].state # "unborn"
        /\ \A q \in Request \ {r} : Creates(q) => rows'[job[q].id] = rows[job[q].id]
    BY <1>1, <2>1
  <2>3. \A q \in Request \ {r} : job'[q] = job[q] /\ Local(q)'
    BY <2>1, <2>2, OthersStay
  <2>. QED BY <2>3
<1>4. j.pc = "flushed" => j.op \in {"create", "update", "delete"} /\ j.id \in Ids
  <2>1. Local(r)' /\ job'[r] = j /\ Ids' = Ids
    BY <1>1, <1>2
  <2>. QED BY <2>1 DEF Local
<1>5. Types'
  <2>1. audit' \subseteq {"create", "update", "delete"} \X Ids /\ lost' \subseteq audit'
    BY <1>1, <1>4 DEF Types
  <2>2. DOMAIN job' = Request /\ \A q \in Request : JobLike(job'[q]) /\ job'[q].id <= Len(rows)
    BY <1>1, <1>2 DEF Types
  <2>3. (\A q \in Request : JobLike(job[q]))' <=> \A q \in Request : JobLike(job'[q])
    BY DEF JobLike, Cols, Row
  <2>. QED BY <1>1, <2>1, <2>2, <2>3 DEF Types
<1>6. Keyed' /\ WalkInv'
  <2>1. Keyed'
    BY <1>1 DEF Keyed
  <2>2. Live(rows)' = Live(rows)
    BY DEF Live
  <2>. QED BY <1>1, <2>1, <2>2, WalkStays
<1>7. Apart'
  BY ApartStays
<1>8. AuditTells'
  <2>1. ASSUME NEW a \in audit \ lost, NEW q \in Request, job[q].pc = "flushed",
               a = <<job[q].op, job[q].id>>
        PROVE  job'[q].pc = "flushed" /\ a = <<job'[q].op, job'[q].id>>
    BY <1>2, <2>1
  <2>2. \A a \in audit' \ lost' : (a \in audit \ lost) \/ (a = <<j.op, j.id>> /\ j.pc = "flushed")
    OBVIOUS
  <2>3. \A i \in Ids' : /\ rows'[i].state \in {"live", "gone"} => <<"create", i>> \in audit'
                        /\ rows'[i].state \notin {"unborn", "live"} /\ rows'[i] # Burnt =>
                             <<"delete", i>> \in audit'
    BY <1>1 DEF AuditTells
  <2>. QED BY <1>1, <1>2, <2>1, <2>2, <2>3 DEF AuditTells, Burnt
<1>. QED BY <1>2, <1>3, <1>5, <1>6, <1>7, <1>8 DEF IInv

-------------------------------------------------------------------------------
\* Creating: the row is the creator's alone, or its id is a gap at once.
LEMMA NewRow ==
    ASSUME IInv, NEW r \in Request, NEW j, job' = [job EXCEPT ![r] = j], JobLike(j),
           NEW row \in Row, rows' = Append(rows, row), j.id = Len(rows) + 1,
           Len(rows) < MaxRows, served' \in 0..MaxRequests, j.op = "create",
           UNCHANGED <<shape, target, lost, walk>>, job[r].pc # "flushed",
           \/ row = Burnt /\ j.pc = "done" /\ UNCHANGED audit
           \/ /\ row.state = "unborn" /\ row.key # None /\ j.pc = "flushed"
              /\ j.write = [state |-> "live"]
              /\ audit' = audit \cup {<<"create", j.id>>}
    PROVE  IInv'
<1>1. /\ Types /\ AuditTells /\ Keyed /\ DOMAIN job = Request /\ MaxRows \in Nat
      /\ rows \in Seq(Row) /\ Len(rows) \in Nat /\ Ids \subseteq Nat
  BY RowsAre, CrudBounds DEF IInv, Types
<1>2. /\ rows' \in Seq(Row) /\ Len(rows') = Len(rows) + 1 /\ rows'[j.id] = row
      /\ \A i \in Ids : rows'[i] = rows[i]
  BY <1>1 DEF Ids
<1>3. Ids' = Ids \cup {j.id} /\ j.id \notin Ids /\ j.id \in Ids' /\ j.id \in Nat
  BY <1>1, <1>2 DEF Ids
<1>4. job'[r] = j /\ \A q \in Request \ {r} : job'[q] = job[q]
  BY <1>1
<1>5. audit \subseteq audit' /\ shape' = shape /\ lost' = lost
  OBVIOUS
<1>6. \A q \in Request \ {r} : Local(q)'
  <2>1. \A q \in Request \ {r} : Creates(q) => job[q].id \in Ids
    BY DEF IInv, Local, Creates
  <2>2. /\ Len(rows) <= Len(rows')
        /\ \A i \in Ids : rows[i].key # None /\ rows[i].state # "unborn" =>
                           rows'[i].key # None /\ rows'[i].state # "unborn"
        /\ \A q \in Request \ {r} : Creates(q) => rows'[job[q].id] = rows[job[q].id]
    <3>1. Len(rows) <= Len(rows')
      BY <1>1, <1>2
    <3>2. \A i \in Ids : rows[i].key # None /\ rows[i].state # "unborn" =>
                           rows'[i].key # None /\ rows'[i].state # "unborn"
      BY <1>2
    <3>3. \A q \in Request \ {r} : Creates(q) => rows'[job[q].id] = rows[job[q].id]
      BY <1>2, <2>1
    <3>. QED BY <3>1, <3>2, <3>3
  <2>3. \A q \in Request \ {r} : job'[q] = job[q] /\ Local(q)'
    BY <1>2, <1>5, <2>2, OthersStay
  <2>. QED BY <2>3
<1>7. Local(r)'
  <2>1. CASE j.pc = "done"
    BY <1>4, <2>1 DEF Local
  <2>2. CASE j.pc = "flushed"
    <3>1. /\ row.state = "unborn" /\ row.key # None /\ j.write = [state |-> "live"]
          /\ <<"create", j.id>> \in audit'
      BY <2>2
    <3>. QED BY <1>2, <1>3, <1>4, <2>2, <3>1 DEF Local
  <2>. QED BY <2>1, <2>2
<1>8. Types'
  <2>1. audit' \subseteq {"create", "update", "delete"} \X Ids' /\ lost' \subseteq audit'
    BY <1>1, <1>3 DEF Types
  <2>2. DOMAIN job' = Request /\ \A q \in Request : JobLike(job'[q]) /\ job'[q].id <= Len(rows')
    <3>1. \A q \in Request : job[q].id \in Nat /\ job[q].id <= Len(rows) /\ JobLike(job[q])
      BY <1>1 DEF Types, JobLike
    <3>. QED BY <1>1, <1>2, <1>4, <3>1
  <2>3. (\A q \in Request : JobLike(job[q]))' <=> \A q \in Request : JobLike(job'[q])
    BY DEF JobLike, Cols, Row
  <2>4. Len(rows') <= MaxRows
    BY <1>1, <1>2
  <2>5. walk' = walk /\ walk.seen \subseteq Ids' /\ walk.start \subseteq Ids'
    BY <1>1, <1>3 DEF Types
  <2>. QED BY <1>1, <1>2, <2>1, <2>2, <2>3, <2>4, <2>5 DEF Types
<1>9. Keyed'
  <2>1. \A i \in Ids : /\ rows'[i] = Burnt \/ rows'[i].key # None
                       /\ rows'[i].key # None /\ rows'[i].state # "unborn" => <<"create", i>> \in audit'
                       /\ rows'[i].state = "gone" => shape'.soft
    BY <1>1, <1>2, <1>5 DEF Keyed
  <2>2. /\ row = Burnt \/ row.key # None
        /\ row.key # None => row.state = "unborn"
        /\ row.state # "gone"
    BY BurntRow
  <2>. QED BY <1>2, <1>3, <2>1, <2>2 DEF Keyed, Burnt
<1>10. WalkInv'
  <2>1. Live(rows)' = Live(rows') /\ Live(rows) \subseteq Live(rows')
    BY <1>1, <1>2, <1>3 DEF Live, Ids
  <2>. QED BY <1>2, <2>1, WalkStays
<1>11. Apart'
  BY ApartStays
<1>12. AuditTells'
  <2>1. ASSUME NEW a \in audit \ lost, NEW q \in Request, job[q].pc = "flushed",
               a = <<job[q].op, job[q].id>>
        PROVE  job'[q].pc = "flushed" /\ a = <<job'[q].op, job'[q].id>>
    BY <1>4, <2>1
  <2>2. \A a \in audit' \ lost' : (a \in audit \ lost) \/ (a = <<j.op, j.id>> /\ j.pc = "flushed")
    OBVIOUS
  <2>3. \A a \in audit : a[2] \in Ids
    BY <1>1 DEF Types
  <2>4. \A i \in Ids : /\ rows'[i].state \in {"live", "gone"} => <<"create", i>> \in audit'
                       /\ rows'[i].state \notin {"unborn", "live"} /\ rows'[i] # Burnt =>
                            <<"delete", i>> \in audit'
    BY <1>1, <1>2, <1>5 DEF AuditTells
  <2>5. row.state \notin {"live", "gone"} /\ (row.state = "unborn" \/ row = Burnt)
    BY BurntRow
  <2>6. \A a \in audit \ lost :
          \/ \E q \in Request : job'[q].pc = "flushed" /\ a = <<job'[q].op, job'[q].id>>
          \/ a[1] = "create" /\ rows'[a[2]].state # "unborn" /\ rows'[a[2]] # Burnt
          \/ a[1] = "update"
          \/ a[1] = "delete" /\ rows'[a[2]].state \in {"gone", "erased"}
    BY <1>1, <1>2, <2>1, <2>3 DEF AuditTells
  <2>7. ASSUME NEW i \in Ids'
        PROVE  /\ rows'[i].state \in {"live", "gone"} => <<"create", i>> \in audit'
               /\ rows'[i].state \notin {"unborn", "live"} /\ rows'[i] # Burnt =>
                    <<"delete", i>> \in audit'
    BY <1>2, <1>3, <2>4, <2>5
  <2>. QED BY <1>4, <2>2, <2>6, <2>7 DEF AuditTells, Burnt
<1>. QED BY <1>6, <1>7, <1>8, <1>9, <1>10, <1>11, <1>12 DEF IInv

LEMMA StartOf == ASSUME IInv, NEW r \in Request, NEW j, Start(r), Begin(r, j)
                 PROVE  job' = [job EXCEPT ![r] = j] /\ served' \in 0..MaxRequests
                        /\ job[r].pc # "flushed"
BY CrudBounds DEF IInv, Types, Start, Begin

LEMMA CreateStep == ASSUME IInv, NEW r \in Request, NEW key \in Key, NEW ref \in {Target, None},
                           NEW note \in Note, Create(r, key, ref, note)
                    PROVE  IInv'
<1>. DEFINE i == Len(rows) + 1
            new == [state |-> "live", key |-> key, ref |-> ref, note |-> note]
            nm == [key |-> key, ref |-> ref, note |-> note]
            j == [Idle EXCEPT !.op = "create", !.id = i, !.named = nm]
            jf == [j EXCEPT !.pc = "done", !.out = "failed"]
            jo == [j EXCEPT !.pc = "flushed", !.write = [state |-> "live"]]
            row == [new EXCEPT !.state = "unborn"]
<1>1. Len(rows) \in Nat /\ i \in Nat
  BY RowsAre DEF IInv
<1>2. /\ JobLike(jf) /\ jf.id = i /\ jf.pc = "done" /\ jf.op = "create"
      /\ JobLike(jo) /\ jo.id = i /\ jo.pc = "flushed" /\ jo.op = "create"
      /\ jo.write = [state |-> "live"]
  <2>1. /\ DOMAIN jf = Fields /\ jf.pc = "done" /\ jf.op = "create" /\ jf.id = i
        /\ jf.copy = Burnt /\ jf.write = <<>> /\ jf.out = "failed"
    BY DEF Idle, Fields
  <2>2. /\ DOMAIN jo = Fields /\ jo.pc = "flushed" /\ jo.op = "create" /\ jo.id = i
        /\ jo.copy = Burnt /\ jo.write = [state |-> "live"] /\ jo.out = "none"
    BY DEF Idle, Fields
  <2>3. Cols(<<>>) /\ DOMAIN <<>> = {}
    BY DEF Cols
  <2>4. Cols([state |-> "live"]) /\ [state |-> "live"]["state"] = "live"
    BY DEF Cols, State
  <2>. HIDE DEF jf, jo, i
  <2>5. JobLike(jf)
    BY <1>1, <2>1, <2>3, BurntRow DEF JobLike
  <2>6. JobLike(jo)
    BY <1>1, <2>2, <2>4, BurntRow DEF JobLike
  <2>. QED BY <2>1, <2>2, <2>5, <2>6
<1>3. row \in Row /\ row.state = "unborn" /\ row.key # None
  BY CrudBounds DEF Row
<1>4. /\ Start(r) /\ Len(rows) < MaxRows /\ UNCHANGED <<shape, target, lost, walk>>
      /\ \/ Begin(r, jf) /\ rows' = Append(rows, Burnt) /\ UNCHANGED audit
         \/ /\ Begin(r, jo) /\ rows' = Append(rows, row)
            /\ audit' = audit \cup {<<"create", i>>}
  BY DEF Create
<1>. HIDE DEF jf, jo, row, i
<1>5. CASE Begin(r, jf) /\ rows' = Append(rows, Burnt) /\ UNCHANGED audit
  <2>1. /\ job' = [job EXCEPT ![r] = jf] /\ served' \in 0..MaxRequests /\ job[r].pc # "flushed"
        /\ jf.id = Len(rows) + 1
    BY <1>2, <1>4, <1>5, StartOf DEF i
  <2>. QED BY <1>2, <1>4, <1>5, <2>1, NewRow, BurntRow
<1>6. CASE /\ Begin(r, jo) /\ rows' = Append(rows, row)
           /\ audit' = audit \cup {<<"create", i>>}
  <2>1. /\ job' = [job EXCEPT ![r] = jo] /\ served' \in 0..MaxRequests /\ job[r].pc # "flushed"
        /\ jo.id = Len(rows) + 1
    BY <1>2, <1>4, <1>6, StartOf DEF i
  <2>. QED BY <1>2, <1>3, <1>4, <1>6, <2>1, NewRow
<1>. QED BY <1>4, <1>5, <1>6

-------------------------------------------------------------------------------
\* Reading.
LEMMA ReadStep == ASSUME IInv, NEW r \in Request, NEW op \in {"get", "update", "delete"},
                         NEW i \in Ids, NEW named, op = "update" => named \in Naming,
                         Read(r, op, i, named)
                  PROVE  IInv'
<1>. DEFINE b == [Idle EXCEPT !.op = op, !.id = i, !.named = named]
            jd(out) == [b EXCEPT !.pc = "done", !.out = out]
            jr == [b EXCEPT !.pc = "read", !.copy = rows[i]]
<1>1. /\ Types /\ Keyed /\ DOMAIN job = Request /\ Ids = DOMAIN rows /\ Len(rows) \in Nat
      /\ i \in Nat /\ i <= Len(rows) /\ rows[i] \in Row /\ Ids' = Ids
      /\ UNCHANGED <<shape, rows, target, audit, lost, walk>>
  BY RowsAre DEF IInv, Types, Ids, Read
<1>2. Cols(<<>>) /\ DOMAIN <<>> = {}
  BY DEF Cols
<1>3. op = "update" => Cols(named) /\ "state" \notin DOMAIN named
  BY NamingCols
<1>4. ASSUME NEW out \in {"ok", "failed", "not found"}, Begin(r, jd(out)), Start(r)
      PROVE  IInv'
  <2>1. /\ DOMAIN jd(out) = Fields /\ jd(out).pc = "done" /\ jd(out).op = op /\ jd(out).id = i
        /\ jd(out).named = named /\ jd(out).copy = Burnt /\ jd(out).write = <<>>
        /\ jd(out).out = out
    BY DEF Idle, Fields
  <2>. DEFINE j == jd(out)
  <2>2. /\ job' = [job EXCEPT ![r] = j] /\ served' \in 0..MaxRequests /\ job[r].pc # "flushed"
    BY <1>4, StartOf
  <2>. HIDE DEF j
  <2>3. JobLike(j) /\ j.pc = "done" /\ j.id = i
    BY <1>1, <1>2, <1>3, <2>1, BurntRow DEF JobLike, j
  <2>4. Local(r)'
    BY <1>1, <2>2, <2>3 DEF Local
  <2>. QED BY <1>1, <2>2, <2>3, <2>4, QuietStep
<1>5. ASSUME Begin(r, jr), Start(r), op # "get", i \in Live(rows)
      PROVE  IInv'
  <2>1. /\ DOMAIN jr = Fields /\ jr.pc = "read" /\ jr.op = op /\ jr.id = i
        /\ jr.named = named /\ jr.copy = rows[i] /\ jr.write = <<>> /\ jr.out = "none"
    BY DEF Idle, Fields
  <2>2. /\ job' = [job EXCEPT ![r] = jr] /\ served' \in 0..MaxRequests /\ job[r].pc # "flushed"
    BY <1>5, StartOf
  <2>. HIDE DEF jr
  <2>3. JobLike(jr)
    BY <1>1, <1>2, <1>3, <2>1 DEF JobLike
  <2>4. rows[i].state = "live" /\ rows[i].key # None
    BY <1>1, <1>5, BurntRow DEF Live, Keyed
  <2>5. Local(r)'
    BY <1>1, <1>5, <2>1, <2>2, <2>4 DEF Local
  <2>. QED BY <1>1, <2>1, <2>2, <2>3, <2>5, QuietStep
<1>. QED BY <1>4, <1>5 DEF Read

-------------------------------------------------------------------------------
\* Flushing.
Flush(r, w) == job' = [job EXCEPT ![r].pc = "flushed", ![r].write = w]

LEMMA FlushJob ==
    ASSUME IInv, NEW r \in Request, NEW w, Cols(w),
           "state" \in DOMAIN w => w["state"] # "unborn",
           Flush(r, w)
    PROVE  \E j : /\ job' = [job EXCEPT ![r] = j] /\ JobLike(j) /\ j.pc = "flushed" /\ j.write = w
                  /\ j.id = job[r].id /\ j.op = job[r].op /\ j.named = job[r].named
                  /\ j.copy = job[r].copy
<1>. DEFINE j == [job[r] EXCEPT !.pc = "flushed", !.write = w]
<1>1. JobLike(job[r]) /\ DOMAIN job = Request
  BY DEF IInv, Types
<1>2. job' = [job EXCEPT ![r] = j]
  BY <1>1 DEF Flush
<1>3. /\ DOMAIN j = Fields /\ j.pc = "flushed" /\ j.op = job[r].op /\ j.id = job[r].id
      /\ j.named = job[r].named /\ j.copy = job[r].copy /\ j.write = w /\ j.out = job[r].out
  BY <1>1 DEF JobLike, Fields
<1>. HIDE DEF j
<1>4. JobLike(j)
  BY <1>1, <1>3 DEF JobLike
<1>. QED BY <1>2, <1>3, <1>4

LEMMA AnswerJob ==
    ASSUME IInv, NEW r \in Request, NEW out \in {"ok", "failed"}, Answer(r, out)
    PROVE  \E j : /\ job' = [job EXCEPT ![r] = j] /\ JobLike(j) /\ j.pc = "done" /\ j.out = out
                  /\ j.id = job[r].id /\ j.op = job[r].op /\ j.named = job[r].named
<1>. DEFINE j == [job[r] EXCEPT !.pc = "done", !.out = out, !.copy = Burnt, !.write = <<>>]
<1>1. JobLike(job[r]) /\ DOMAIN job = Request
  BY DEF IInv, Types
<1>2. job' = [job EXCEPT ![r] = j]
  BY <1>1 DEF Answer
<1>3. /\ DOMAIN j = Fields /\ j.pc = "done" /\ j.op = job[r].op /\ j.id = job[r].id
      /\ j.named = job[r].named /\ j.copy = Burnt /\ j.write = <<>> /\ j.out = out
  BY <1>1 DEF JobLike, Fields
<1>4. Cols(<<>>) /\ DOMAIN <<>> = {}
  BY DEF Cols
<1>. HIDE DEF j
<1>5. JobLike(j)
  BY <1>1, <1>3, <1>4, BurntRow DEF JobLike
<1>. QED BY <1>2, <1>3, <1>5

\* An update that changes the key does not set it to NULL.
LEMMA StoredKey == ASSUME NEW x \in Row, NEW w, Cols(w), NEW i, ~Violates(i, Set(x, w)),
                          "key" \in DOMAIN w
                   PROVE  w["key"] # None
BY SetRow DEF Violates

LEMMA FlushUpdateStep == ASSUME IInv, NEW r \in Request, FlushUpdate(r) PROVE IInv'
<1>. DEFINE j == job[r]
            w == Stored(j.named, j.copy)
<1>1. /\ j.pc = "read" /\ j.op = "update"
      /\ \/ Answer(r, "failed") /\ UNCHANGED audit
         \/ /\ w = <<>> \/ ~Violates(j.id, Set(rows[j.id], w))
            /\ job' = [job EXCEPT ![r].pc = "flushed", ![r].write = w]
            /\ audit' = audit \cup {<<"update", j.id>>}
      /\ UNCHANGED <<shape, rows, target, served, lost, walk>>
  BY Zenon DEF FlushUpdate
<1>2. /\ Types /\ Local(r) /\ JobLike(j) /\ DOMAIN job = Request /\ Ids' = Ids
      /\ j.id <= Len(rows) /\ served' \in 0..MaxRequests
  BY <1>1 DEF IInv, Types, Ids
<1>3. /\ j.id \in Ids /\ rows[j.id].key # None /\ rows[j.id].state # "unborn"
      /\ rows[j.id] \in Row
  BY <1>1, <1>2, RowsAre DEF Local
<1>4. Cols(w) /\ "state" \notin DOMAIN w
  BY <1>1, <1>2, StoredCols DEF JobLike
<1>5. CASE Answer(r, "failed") /\ UNCHANGED audit
  <2>1. PICK k : /\ job' = [job EXCEPT ![r] = k] /\ JobLike(k) /\ k.pc = "done"
                 /\ k.id = job[r].id
    BY <1>5, AnswerJob
  <2>2. Local(r)'
    BY <1>2, <2>1 DEF Local
  <2>. QED BY <1>1, <1>2, <1>5, <2>1, <2>2, QuietStep
<1>6. CASE /\ w = <<>> \/ ~Violates(j.id, Set(rows[j.id], w))
           /\ job' = [job EXCEPT ![r].pc = "flushed", ![r].write = w]
           /\ audit' = audit \cup {<<"update", j.id>>}
  <2>. HIDE DEF w
  <2>1. PICK k : /\ job' = [job EXCEPT ![r] = k] /\ JobLike(k) /\ k.pc = "flushed" /\ k.write = w
                 /\ k.id = j.id /\ k.op = j.op /\ k.named = j.named /\ k.copy = j.copy
    <3>1. Flush(r, w)
      BY <1>6 DEF Flush
    <3>. QED BY <1>4, <3>1, FlushJob
  <2>2. "key" \in DOMAIN w => w["key"] # None
    <3>1. CASE w = <<>>
      BY <3>1
    <3>2. CASE ~Violates(j.id, Set(rows[j.id], w))
      BY <1>3, <1>4, <3>2, StoredKey
    <3>. QED BY <1>6, <3>1, <3>2
  <2>3. job'[r] = k
    BY <1>2, <2>1
  <2>4. <<k.op, k.id>> \in audit'
    BY <1>1, <1>6, <2>1
  <2>5. w = Stored(k.named, k.copy)
    BY <2>1 DEF w
  <2>6. Local(r)'
    BY <1>1, <1>2, <1>3, <2>1, <2>2, <2>3, <2>4, <2>5 DEF Local
  <2>. QED BY <1>1, <1>2, <1>6, <2>1, <2>6, QuietStep
<1>. QED BY <1>1, <1>5, <1>6

LEMMA FlushDeleteStep == ASSUME IInv, NEW r \in Request, FlushDelete(r) PROVE IInv'
<1>. DEFINE j == job[r]
            w == [state |-> Removed]
<1>1. /\ j.pc = "read" /\ j.op = "delete"
      /\ job' = [job EXCEPT ![r].pc = "flushed", ![r].write = w]
      /\ audit' = audit \cup {<<"delete", j.id>>}
      /\ UNCHANGED <<shape, rows, target, served, lost, walk>>
  BY DEF FlushDelete
<1>2. /\ Types /\ Local(r) /\ JobLike(j) /\ DOMAIN job = Request /\ Ids' = Ids
      /\ j.id <= Len(rows) /\ served' \in 0..MaxRequests
  BY <1>1 DEF IInv, Types, Ids
<1>3. /\ j.id \in Ids /\ rows[j.id].key # None /\ rows[j.id].state # "unborn"
  BY <1>1, <1>2 DEF Local
<1>4. Cols(w) /\ w["state"] # "unborn" /\ Removed' = Removed
  BY <1>1 DEF Cols, Removed, State
<1>. HIDE DEF w
<1>5. PICK k : /\ job' = [job EXCEPT ![r] = k] /\ JobLike(k) /\ k.pc = "flushed" /\ k.write = w
               /\ k.id = j.id /\ k.op = j.op
  <2>1. Flush(r, w)
    BY <1>1 DEF Flush
  <2>. QED BY <1>4, <2>1, FlushJob
<1>6. job'[r] = k /\ <<k.op, k.id>> \in audit'
  BY <1>1, <1>2, <1>5
<1>7. Local(r)'
  BY <1>1, <1>2, <1>3, <1>4, <1>5, <1>6 DEF Local, w
<1>. QED BY <1>1, <1>2, <1>5, <1>7, QuietStep

-------------------------------------------------------------------------------
\* Committing: the row becomes what was flushed.
LEMMA OwnRow ==
    ASSUME IInv, NEW r \in Request, job[r].pc = "flushed"
    PROVE  LET j == job[r]
               x == rows[j.id]
               y == Set(x, j.write)
           IN  /\ j.id \in Ids /\ x \in Row /\ y \in Row /\ x.key # None /\ y.key # None
               /\ j.op \in {"create", "update", "delete"} /\ <<j.op, j.id>> \in audit
               /\ j.op = "create" => x.state = "unborn" /\ y.state = "live"
               /\ j.op = "update" => x.state # "unborn" /\ y.state = x.state
               /\ j.op = "delete" => x.state # "unborn" /\ y.state = Removed
<1>. DEFINE j == job[r]
            x == rows[j.id]
            w == j.write
            y == Set(x, w)
<1>1. Types /\ Local(r) /\ JobLike(j)
  BY DEF IInv, Types
<1>2. /\ j.id \in Ids /\ x.key # None /\ <<j.op, j.id>> \in audit
      /\ j.op # "create" => x.state # "unborn"
      /\ j.op = "create" => x.state = "unborn" /\ w = [state |-> "live"]
      /\ j.op = "update" => w = Stored(j.named, j.copy) /\ ("key" \in DOMAIN w => w["key"] # None)
      /\ j.op = "delete" => w = [state |-> Removed]
  BY <1>1 DEF Local
<1>3. x \in Row /\ j.op \in {"create", "update", "delete"}
  BY <1>1, <1>2, RowsAre DEF Types
<1>4. Cols(w) /\ (j.op = "update" => Cols(j.named) /\ "state" \notin DOMAIN j.named)
  BY <1>1 DEF JobLike
<1>5. j.op = "update" => "state" \notin DOMAIN w
  BY <1>2, <1>4, StoredCols
<1>. HIDE DEF w
<1>6. /\ y \in Row
      /\ y.state = IF "state" \in DOMAIN w THEN w["state"] ELSE x.state
      /\ y.key = IF "key" \in DOMAIN w THEN w["key"] ELSE x.key
  BY <1>3, <1>4, SetRow
<1>7. \A s : w = [state |-> s] => "state" \in DOMAIN w /\ w["state"] = s /\ "key" \notin DOMAIN w
  OBVIOUS
<1>. HIDE DEF j, x, y
<1>8. /\ j.op = "create" => y.state = "live" /\ y.key # None
      /\ j.op = "update" => y.state = x.state /\ y.key # None
      /\ j.op = "delete" => y.state = Removed /\ y.key # None
  BY <1>2, <1>5, <1>6, <1>7
<1>9. y.key # None
  BY <1>3, <1>8
<1>. QED BY <1>2, <1>3, <1>6, <1>8, <1>9 DEF j, x, y, w

LEMMA CommitStep == ASSUME IInv, NEW r \in Request, Commit(r) PROVE IInv'
<1>. DEFINE j == job[r]
            i == j.id
            x == rows[i]
            y == Set(x, j.write)
            del == walk.pc # "idle" /\ j.op = "delete"
<1>1. /\ j.pc = "flushed" /\ rows' = [rows EXCEPT ![i] = y]
      /\ walk' = [walk EXCEPT !.deleted = walk.deleted \/ del]
      /\ \E out \in {"ok", "failed"} : Answer(r, out)
      /\ UNCHANGED <<shape, target, served, audit, lost>>
  BY DEF Commit
<1>2. /\ Types /\ Keyed /\ AuditTells /\ DOMAIN job = Request /\ rows \in Seq(Row)
      /\ Ids = DOMAIN rows /\ Len(rows) \in Nat /\ WalkInv /\ walk \in Walk
      /\ \A h \in Ids : rows[h] \in Row
  BY RowsAre DEF IInv, Types
<1>3. /\ i \in Ids /\ x \in Row /\ y \in Row /\ x.key # None /\ y.key # None
      /\ j.op \in {"create", "update", "delete"} /\ <<j.op, i>> \in audit
      /\ j.op = "create" => x.state = "unborn" /\ y.state = "live"
      /\ j.op = "update" => x.state # "unborn" /\ y.state = x.state
      /\ j.op = "delete" => x.state # "unborn" /\ y.state = Removed
  BY <1>1, OwnRow
<1>4. PICK k : job' = [job EXCEPT ![r] = k] /\ JobLike(k) /\ k.pc = "done" /\ k.id = i
  BY <1>1, AnswerJob
<1>5. job'[r] = k /\ \A q \in Request \ {r} : job'[q] = job[q]
  BY <1>2, <1>4
<1>6. /\ walk' \in Walk /\ walk'.pc = walk.pc /\ walk'.page = walk.page /\ walk'.seen = walk.seen
      /\ walk'.start = walk.start /\ (walk'.deleted <=> walk.deleted \/ del)
      /\ ~del => walk' = walk
  <2>. DEFINE d == walk.deleted \/ del
  <2>1. d \in BOOLEAN /\ (d <=> walk.deleted \/ del) /\ (~del => d = walk.deleted)
    <3>1. walk.deleted \in BOOLEAN
      BY <1>2 DEF Walk
    <3>. QED BY <3>1
  <2>. HIDE DEF d
  <2>2. walk' = [walk EXCEPT !.deleted = d]
    BY <1>1 DEF d
  <2>3. /\ walk' \in Walk /\ walk'.pc = walk.pc /\ walk'.page = walk.page
        /\ walk'.seen = walk.seen /\ walk'.start = walk.start /\ walk'.deleted = d
        /\ d = walk.deleted => walk' = walk
    BY <1>2, <2>1, <2>2 DEF Walk
  <2>. HIDE DEF del
  <2>. QED BY <2>1, <2>3
<1>. HIDE DEF y, del
<1>7. /\ rows' \in Seq(Row) /\ Len(rows') = Len(rows) /\ Ids' = Ids /\ rows'[i] = y
      /\ \A h \in Ids : h # i => rows'[h] = rows[h]
  BY <1>1, <1>2, <1>3 DEF Ids
<1>8. \A q \in Request \ {r} : Local(q)'
  <2>1. \A q \in Request \ {r} : Creates(q) => job[q].id \in Ids /\ job[q].id # i
    <3>1. \A q \in Request : Creates(q) => job[q].id \in Ids /\ rows[job[q].id].state = "unborn"
      BY DEF IInv, Local, Creates
    <3>2. \A q \in Request \ {r} : Creates(q) /\ j.op = "create" => job[q].id # i
      BY <1>1 DEF IInv, Apart, Creates
    <3>. QED BY <1>3, <3>1, <3>2
  <2>2. /\ audit \subseteq audit' /\ shape' = shape /\ Len(rows) <= Len(rows')
        /\ \A h \in Ids : rows[h].key # None /\ rows[h].state # "unborn" =>
                            rows'[h].key # None /\ rows'[h].state # "unborn"
        /\ \A q \in Request \ {r} : Creates(q) => rows'[job[q].id] = rows[job[q].id]
    <3>1. y.state # "unborn" \/ x.state = "unborn"
      BY <1>3 DEF Removed
    <3>. QED BY <1>1, <1>2, <1>3, <1>7, <2>1, <3>1
  <2>3. \A q \in Request \ {r} : job'[q] = job[q] /\ Local(q)'
    BY <1>4, <1>7, <2>2, OthersStay
  <2>. QED BY <2>3
<1>9. Local(r)'
  BY <1>4, <1>5 DEF Local
<1>10. Types'
  <2>1. DOMAIN job' = Request /\ \A q \in Request : JobLike(job'[q]) /\ job'[q].id <= Len(rows')
    BY <1>1, <1>2, <1>4, <1>5, <1>7 DEF Types
  <2>2. (\A q \in Request : JobLike(job[q]))' <=> \A q \in Request : JobLike(job'[q])
    BY DEF JobLike, Cols, Row
  <2>. QED BY <1>1, <1>2, <1>6, <1>7, <2>1, <2>2 DEF Types
<1>11. Keyed'
  <2>1. /\ y.key # None /\ (y.state = "gone" => shape.soft)
        /\ <<"create", i>> \in audit
    BY <1>2, <1>3 DEF Keyed, Removed
  <2>2. \A h \in Ids : /\ rows'[h] = Burnt \/ rows'[h].key # None
                       /\ rows'[h].key # None /\ rows'[h].state # "unborn" => <<"create", h>> \in audit
                       /\ rows'[h].state = "gone" => shape.soft
    BY <1>2, <1>7, <2>1 DEF Keyed
  <2>. QED BY <1>1, <1>7, <2>2 DEF Keyed, Burnt
<1>12. WalkInv'
  <2>1. CASE ~del
    <3>1. j.op # "delete" \/ walk.pc = "idle"
      BY <2>1 DEF del
    <3>2. CASE walk.pc = "idle"
      BY <1>2, <1>6, <3>2 DEF WalkInv
    <3>3. CASE j.op # "delete"
      <4>1. x.state = "live" => y.state = "live"
        BY <1>3, <3>3
      <4>2. Live(rows)' = Live(rows') /\ Live(rows) \subseteq Live(rows')
        BY <1>2, <1>3, <1>7, <4>1 DEF Live, Ids
      <4>. QED BY <1>6, <1>7, <2>1, <4>2, WalkStays
    <3>. QED BY <3>1, <3>2, <3>3
  <2>2. CASE del
    BY <1>6, <2>2 DEF WalkInv, del
  <2>. QED BY <2>1, <2>2
<1>13. Apart'
  BY <1>4, ApartStays
<1>14. AuditTells'
  <2>1. ASSUME NEW h \in Ids
        PROVE  /\ rows'[h].state \in {"live", "gone"} => <<"create", h>> \in audit
               /\ rows'[h].state \notin {"unborn", "live"} /\ rows'[h] # Burnt =>
                    <<"delete", h>> \in audit
    <3>1. CASE h # i
      BY <1>2, <1>7, <3>1 DEF AuditTells
    <3>2. CASE h = i
      <4>1. <<"create", i>> \in audit
        BY <1>2, <1>3 DEF Keyed
      <4>2. x.state \notin {"unborn", "live"} => <<"delete", i>> \in audit
        BY <1>2, <1>3, BurntRow DEF AuditTells
      <4>3. y.state \notin {"unborn", "live"} => <<"delete", i>> \in audit
        BY <1>3, <4>2
      <4>. QED BY <1>7, <3>2, <4>1, <4>3
    <3>. QED BY <3>1, <3>2
  <2>2. ASSUME NEW a \in audit \ lost
        PROVE  \/ \E q \in Request : job'[q].pc = "flushed" /\ a = <<job'[q].op, job'[q].id>>
               \/ a[1] = "create" /\ rows'[a[2]].state # "unborn" /\ rows'[a[2]] # Burnt
               \/ a[1] = "update"
               \/ a[1] = "delete" /\ rows'[a[2]].state \in {"gone", "erased"}
    <3>1. a[2] \in Ids
      BY <1>2 DEF Types
    <3>2. y # Burnt /\ (j.op = "delete" => y.state \in {"gone", "erased"}) /\ y.state # "unborn"
      BY <1>3, BurntRow DEF Removed
    <3>3. CASE \E q \in Request \ {r} : job[q].pc = "flushed" /\ a = <<job[q].op, job[q].id>>
      BY <1>5, <3>3
    <3>4. CASE a = <<j.op, i>>
      BY <1>3, <1>7, <3>2, <3>4
    <3>5. CASE a[1] = "create" /\ rows[a[2]].state # "unborn" /\ rows[a[2]] # Burnt
      BY <1>7, <3>1, <3>2, <3>5
    <3>6. CASE a[1] = "delete" /\ rows[a[2]].state \in {"gone", "erased"}
      <4>1. x.state \in {"gone", "erased"} => y.state \in {"gone", "erased"}
        BY <1>3, <3>2
      <4>. QED BY <1>7, <3>1, <3>6, <4>1
    <3>. QED BY <1>2, <3>3, <3>4, <3>5, <3>6 DEF AuditTells
  <2>. QED BY <1>1, <1>7, <2>1, <2>2 DEF AuditTells, Burnt
<1>. QED BY <1>8, <1>9, <1>10, <1>11, <1>12, <1>13, <1>14 DEF IInv

\* A commit that fails: only a creator's own row changes, into a gap.
LEMMA CommitFailsStep == ASSUME IInv, NEW r \in Request, CommitFails(r) PROVE IInv'
<1>. DEFINE j == job[r]
            i == j.id
<1>1. /\ j.pc = "flushed" /\ lost' = lost \cup {<<j.op, i>>}
      /\ rows' = IF j.op = "create" THEN [rows EXCEPT ![i] = Burnt] ELSE rows
      /\ Answer(r, "failed")
      /\ UNCHANGED <<shape, target, served, audit, walk>>
  BY DEF CommitFails
<1>2. /\ Types /\ Keyed /\ AuditTells /\ DOMAIN job = Request /\ rows \in Seq(Row)
      /\ Ids = DOMAIN rows /\ Len(rows) \in Nat
      /\ \A h \in Ids : rows[h] \in Row
  BY RowsAre DEF IInv, Types
<1>3. /\ i \in Ids /\ j.op \in {"create", "update", "delete"} /\ <<j.op, i>> \in audit
      /\ j.op = "create" => rows[i].state = "unborn"
      /\ j.op # "create" => rows[i].state # "unborn"
  BY <1>1, OwnRow
<1>4. PICK k : job' = [job EXCEPT ![r] = k] /\ JobLike(k) /\ k.pc = "done" /\ k.id = i
  BY <1>1, AnswerJob
<1>5. job'[r] = k /\ \A q \in Request \ {r} : job'[q] = job[q]
  BY <1>2, <1>4
<1>6. /\ rows' \in Seq(Row) /\ Len(rows') = Len(rows) /\ Ids' = Ids
      /\ \A h \in Ids : rows'[h] = IF h = i /\ j.op = "create" THEN Burnt ELSE rows[h]
  <2>1. CASE j.op = "create"
    <3>1. rows' = [rows EXCEPT ![i] = Burnt]
      BY <1>1, <2>1
    <3>. QED BY <1>2, <1>3, <2>1, <3>1, BurntRow DEF Ids
  <2>2. CASE j.op # "create"
    BY <1>1, <1>2, <2>2 DEF Ids
  <2>. QED BY <2>1, <2>2
<1>7. \A q \in Request \ {r} : Local(q)'
  <2>1. \A q \in Request \ {r} : Creates(q) => job[q].id \in Ids /\ (j.op = "create" => job[q].id # i)
    BY <1>1 DEF IInv, Local, Apart, Creates
  <2>2. /\ audit \subseteq audit' /\ shape' = shape /\ Len(rows) <= Len(rows')
        /\ \A h \in Ids : rows[h].key # None /\ rows[h].state # "unborn" =>
                            rows'[h].key # None /\ rows'[h].state # "unborn"
        /\ \A q \in Request \ {r} : Creates(q) => rows'[job[q].id] = rows[job[q].id]
    BY <1>1, <1>2, <1>3, <1>6, <2>1
  <2>3. \A q \in Request \ {r} : job'[q] = job[q] /\ Local(q)'
    BY <1>4, <1>6, <2>2, OthersStay
  <2>. QED BY <2>3
<1>8. Local(r)'
  BY <1>4, <1>5 DEF Local
<1>9. Types'
  <2>1. DOMAIN job' = Request /\ \A q \in Request : JobLike(job'[q]) /\ job'[q].id <= Len(rows')
    BY <1>1, <1>2, <1>4, <1>5, <1>6 DEF Types
  <2>2. (\A q \in Request : JobLike(job[q]))' <=> \A q \in Request : JobLike(job'[q])
    BY DEF JobLike, Cols, Row
  <2>3. lost' \subseteq audit'
    BY <1>1, <1>2, <1>3 DEF Types
  <2>. QED BY <1>1, <1>2, <1>6, <2>1, <2>2, <2>3 DEF Types
<1>10. Keyed'
  <2>1. \A h \in Ids : /\ rows'[h] = Burnt \/ rows'[h].key # None
                       /\ rows'[h].key # None /\ rows'[h].state # "unborn" => <<"create", h>> \in audit
                       /\ rows'[h].state = "gone" => shape.soft
    BY <1>2, <1>6, BurntRow DEF Keyed
  <2>. QED BY <1>1, <1>6, <2>1 DEF Keyed, Burnt
<1>11. WalkInv'
  <2>1. Live(rows)' = Live(rows') /\ Live(rows) \subseteq Live(rows')
    BY <1>2, <1>3, <1>6 DEF Live, Ids
  <2>. QED BY <1>1, <1>6, <2>1, WalkStays
<1>12. Apart'
  BY <1>4, ApartStays
<1>13. AuditTells'
  <2>1. ASSUME NEW h \in Ids
        PROVE  /\ rows'[h].state \in {"live", "gone"} => <<"create", h>> \in audit
               /\ rows'[h].state \notin {"unborn", "live"} /\ rows'[h] # Burnt =>
                    <<"delete", h>> \in audit
    BY <1>2, <1>6, BurntRow DEF AuditTells
  <2>2. ASSUME NEW a \in audit' \ lost'
        PROVE  \/ \E q \in Request : job'[q].pc = "flushed" /\ a = <<job'[q].op, job'[q].id>>
               \/ a[1] = "create" /\ rows'[a[2]].state # "unborn" /\ rows'[a[2]] # Burnt
               \/ a[1] = "update"
               \/ a[1] = "delete" /\ rows'[a[2]].state \in {"gone", "erased"}
    <3>1. a[2] \in Ids /\ a \in audit \ lost /\ a # <<j.op, i>>
      BY <1>1, <1>2 DEF Types
    <3>2. CASE \E q \in Request \ {r} : job[q].pc = "flushed" /\ a = <<job[q].op, job[q].id>>
      BY <1>5, <3>2
    <3>3. CASE a[1] = "create" /\ rows[a[2]].state # "unborn" /\ rows[a[2]] # Burnt
      BY <1>3, <1>6, <3>1, <3>3
    <3>4. CASE a[1] = "delete" /\ rows[a[2]].state \in {"gone", "erased"}
      BY <1>3, <1>6, <3>1, <3>4
    <3>. QED BY <1>2, <3>1, <3>2, <3>3, <3>4 DEF AuditTells
  <2>. QED BY <1>1, <1>6, <2>1, <2>2 DEF AuditTells, Burnt
<1>. QED BY <1>7, <1>8, <1>9, <1>10, <1>11, <1>12, <1>13 DEF IInv

\* Whatever leaves the table and the requests leaves what is said of them.
LEMMA TableStays ==
    ASSUME IInv, UNCHANGED <<shape, rows, job, served, audit, lost>>, target' \in {"live", "gone", "erased"},
           walk' \in Walk, walk'.page \in 1..MaxRows, walk'.seen \subseteq Ids,
           walk'.start \subseteq Ids, WalkInv'
    PROVE  IInv'
<1>1. /\ Types /\ Keyed /\ AuditTells /\ Apart /\ (\A r \in Request : Local(r)) /\ Ids' = Ids
  BY DEF IInv, Ids
<1>2. Types'
  <2>1. (\A q \in Request : JobLike(job[q]))' <=> \A q \in Request : JobLike(job[q])
    BY DEF JobLike, Cols, Row
  <2>. QED BY <1>1, <2>1 DEF Types
<1>3. Keyed' /\ AuditTells' /\ Apart'
  <2>1. Keyed'
    BY <1>1 DEF Keyed, Burnt
  <2>2. AuditTells'
    BY <1>1 DEF AuditTells, Burnt
  <2>3. Apart'
    BY <1>1 DEF Apart, Creates
  <2>. QED BY <2>1, <2>2, <2>3
<1>4. \A r \in Request : Local(r)'
  <2>1. Removed' = Removed
    BY DEF Removed
  <2>. QED BY <1>1, <2>1 DEF Local
<1>. QED BY <1>2, <1>3, <1>4 DEF IInv

LEMMA DropTargetStep == ASSUME IInv, DropTarget PROVE IInv'
<1>1. UNCHANGED <<shape, rows, job, served, audit, lost, walk>> /\ target' \in {"live", "gone", "erased"}
  BY DEF DropTarget
<1>2. /\ walk' \in Walk /\ walk'.page \in 1..MaxRows /\ walk'.seen \subseteq Ids
      /\ walk'.start \subseteq Ids /\ rows \in Seq(Row)
  BY <1>1 DEF IInv, Types
<1>3. WalkInv'
  <2>1. Live(rows)' = Live(rows)
    BY <1>1 DEF Live
  <2>. QED BY <1>1, <1>2, <2>1, WalkStays
<1>. QED BY <1>1, <1>2, <1>3, TableStays

-------------------------------------------------------------------------------
\* The client that reads the list.
LEMMA WalkBeginStep == ASSUME IInv, WalkBegin PROVE IInv'
<1>1. /\ walk.pc = "idle" /\ walk.page = 1 /\ rows \in Seq(Row) /\ walk \in Walk
      /\ walk' = [walk EXCEPT !.pc = "items", !.start = Live(rows)]
      /\ UNCHANGED <<shape, rows, target, job, served, audit, lost>>
      /\ walk.page \in 1..MaxRows /\ walk.seen \subseteq Ids /\ target \in {"live", "gone", "erased"}
  BY DEF WalkBegin, IInv, Types, WalkInv
<1>2. Live(rows) \subseteq Ids /\ Ids \subseteq Nat /\ Live(rows)' = Live(rows)
  BY <1>1, RowsAre DEF Live, IInv
<1>3. /\ walk' \in Walk /\ walk'.pc = "items" /\ walk'.page = 1 /\ walk'.seen = walk.seen
      /\ walk'.start = Live(rows)
  BY <1>1, <1>2 DEF Walk
<1>4. \A i \in Live(rows) : Cardinality(From(rows, i)) >= 1
  <2>. SUFFICES ASSUME NEW i \in Live(rows) PROVE Cardinality(From(rows, i)) >= 1
    OBVIOUS
  <2>2. i \in From(rows, i)
    <3>1. i \in Nat
      BY <1>2
    <3>. QED BY <3>1 DEF From
  <2>3. IsFiniteSet(From(rows, i)) /\ Cardinality(From(rows, i)) \in Nat
    BY <1>1, LiveFinite
  <2>4. Cardinality(From(rows, i)) # 0
    BY <2>2, <2>3, FS_EmptySet
  <2>. QED BY <2>3, <2>4
<1>5. \A i : From(rows, i)' = From(rows, i)
  BY <1>1 DEF From, Live
<1>6. WalkInv'
  BY <1>2, <1>3, <1>4, <1>5 DEF WalkInv
<1>. QED BY <1>1, <1>2, <1>3, <1>6, TableStays

LEMMA WalkItemsStep == ASSUME IInv, WalkItems PROVE IInv'
<1>. DEFINE items == Nth(Live(rows), walk.page)
<1>1. /\ walk.pc = "items" /\ rows \in Seq(Row) /\ walk \in Walk /\ WalkInv
      /\ \/ walk' = [walk EXCEPT !.pc = "failed"]
         \/ walk' = [walk EXCEPT !.pc = "count", !.seen = walk.seen \cup items]
      /\ UNCHANGED <<shape, rows, target, job, served, audit, lost>>
      /\ walk.page \in 1..MaxRows /\ walk.seen \subseteq Ids /\ walk.start \subseteq Ids
      /\ target \in {"live", "gone", "erased"}
  BY DEF WalkItems, IInv, Types
<1>2. items \subseteq Ids /\ Ids \subseteq Nat /\ Live(rows)' = Live(rows)
  BY <1>1, RowsAre DEF Live, IInv, Nth
<1>3. \A i : From(rows, i)' = From(rows, i)
  BY <1>1 DEF From, Live
<1>4. CASE walk' = [walk EXCEPT !.pc = "failed"]
  <2>1. /\ walk' \in Walk /\ walk'.pc = "failed" /\ walk'.page = walk.page
        /\ walk'.seen = walk.seen /\ walk'.start = walk.start
    BY <1>1, <1>4 DEF Walk
  <2>2. WalkInv'
    BY <2>1 DEF WalkInv
  <2>. QED BY <1>1, <2>1, <2>2, TableStays
<1>5. CASE walk' = [walk EXCEPT !.pc = "count", !.seen = walk.seen \cup items]
  <2>1. /\ walk' \in Walk /\ walk'.pc = "count" /\ walk'.page = walk.page
        /\ walk'.seen = walk.seen \cup items /\ walk'.start = walk.start
        /\ walk'.deleted = walk.deleted
    <3>. HIDE DEF items
    <3>. QED BY <1>1, <1>2, <1>5 DEF Walk
  <2>2. ASSUME ~walk.deleted, NEW i \in walk.start \ walk'.seen
        PROVE  Cardinality(From(rows, i)) >= walk.page + 1
    <3>1. walk.start \subseteq Live(rows) /\ Cardinality(From(rows, i)) >= walk.page
      BY <1>1, <2>1, <2>2 DEF WalkInv
    <3>2. Cardinality(From(rows, i)) # walk.page
      BY <2>1, <2>2, <3>1 DEF Nth, From
    <3>3. Cardinality(From(rows, i)) \in Nat /\ walk.page \in Nat
      BY <1>1, LiveFinite DEF Walk
    <3>. QED BY <3>1, <3>2, <3>3
  <2>3. WalkInv'
    BY <1>1, <1>2, <1>3, <2>1, <2>2 DEF WalkInv
  <2>4. walk'.seen \subseteq Ids
    BY <1>1, <1>2, <2>1
  <2>. QED BY <1>1, <2>1, <2>3, <2>4, TableStays
<1>. QED BY <1>1, <1>4, <1>5

LEMMA WalkCountStep == ASSUME IInv, WalkCount PROVE IInv'
<1>1. /\ walk.pc = "count" /\ rows \in Seq(Row) /\ walk \in Walk /\ WalkInv
      /\ UNCHANGED <<shape, rows, target, job, served, audit, lost>>
      /\ walk.page \in 1..MaxRows /\ walk.seen \subseteq Ids /\ walk.start \subseteq Ids
      /\ target \in {"live", "gone", "erased"} /\ Len(rows) <= MaxRows /\ Len(rows) \in Nat
      /\ MaxRows \in Nat /\ walk.page \in Nat
  BY CrudBounds DEF WalkCount, IInv, Types, Walk
<1>2. /\ Cardinality(Live(rows)) \in Nat /\ Cardinality(Live(rows)) <= Len(rows)
      /\ \A i : /\ Cardinality(From(rows, i)) <= Cardinality(Live(rows))
                /\ Cardinality(From(rows, i)) \in Nat
  BY <1>1, LiveFinite
<1>3. Live(rows)' = Live(rows) /\ \A i : From(rows, i)' = From(rows, i)
  BY <1>1 DEF From, Live
<1>4. CASE walk.page >= Cardinality(Live(rows))
  <2>1. walk' = [walk EXCEPT !.pc = "done"]
    BY <1>4 DEF WalkCount
  <2>2. /\ walk' \in Walk /\ walk'.pc = "done" /\ walk'.page = walk.page
        /\ walk'.seen = walk.seen /\ walk'.start = walk.start /\ walk'.deleted = walk.deleted
    BY <1>1, <2>1 DEF Walk
  <2>3. ~walk.deleted => walk.start \subseteq walk.seen
    <3>1. SUFFICES ASSUME ~walk.deleted, NEW i \in walk.start \ walk.seen PROVE FALSE
      OBVIOUS
    <3>2. Cardinality(From(rows, i)) >= walk.page + 1
      BY <1>1, <3>1 DEF WalkInv
    <3>. QED BY <1>1, <1>2, <1>4, <3>2
  <2>4. WalkInv'
    BY <2>2, <2>3 DEF WalkInv
  <2>. QED BY <1>1, <2>2, <2>4, TableStays
<1>5. CASE ~(walk.page >= Cardinality(Live(rows)))
  <2>1. walk' = [walk EXCEPT !.pc = "items", !.page = walk.page + 1]
    BY <1>5 DEF WalkCount
  <2>2. /\ walk' \in Walk /\ walk'.pc = "items" /\ walk'.page = walk.page + 1
        /\ walk'.seen = walk.seen /\ walk'.start = walk.start /\ walk'.deleted = walk.deleted
    <3>. DEFINE p == walk.page + 1
    <3>1. p \in Nat
      BY <1>1
    <3>2. walk' = [walk EXCEPT !.pc = "items", !.page = p]
      BY <2>1
    <3>. HIDE DEF p
    <3>3. /\ walk' \in Walk /\ walk'.pc = "items" /\ walk'.page = p
          /\ walk'.seen = walk.seen /\ walk'.start = walk.start /\ walk'.deleted = walk.deleted
      BY <1>1, <3>1, <3>2 DEF Walk
    <3>. QED BY <3>3 DEF p
  <2>3. walk'.page \in 1..MaxRows
    BY <1>1, <1>2, <1>5, <2>2
  <2>4. WalkInv'
    BY <1>1, <1>3, <2>2 DEF WalkInv
  <2>. QED BY <1>1, <2>2, <2>3, <2>4, TableStays
<1>. QED BY <1>4, <1>5

-------------------------------------------------------------------------------
LEMMA ServeStep == ASSUME IInv, NEW r \in Request, Serve(r) PROVE IInv'
<1>1. CASE \E k \in Key, t \in {Target, None}, n \in Note : Create(r, k, t, n)
  BY <1>1, CreateStep
<1>2. CASE \E i \in Ids : Read(r, "get", i, <<>>) \/ Read(r, "delete", i, <<>>)
  <2>1. PICK i \in Ids : Read(r, "get", i, <<>>) \/ Read(r, "delete", i, <<>>)
    BY <1>2
  <2>. QED BY <2>1, ReadStep
<1>3. CASE \E i \in Ids, named \in Naming : Read(r, "update", i, named)
  <2>1. PICK i \in Ids, named \in Naming : Read(r, "update", i, named)
    BY <1>3
  <2>. QED BY <2>1, ReadStep
<1>. QED BY <1>1, <1>2, <1>3, FlushUpdateStep, FlushDeleteStep, CommitStep, CommitFailsStep DEF Serve

LEMMA StepIInv == ASSUME IInv, [Next]_vars PROVE IInv'
<1>1. CASE UNCHANGED vars
  <2>1. UNCHANGED <<shape, rows, target, job, served, audit, lost, walk>>
    BY <1>1 DEF vars
  <2>2. /\ walk' \in Walk /\ walk'.page \in 1..MaxRows /\ walk'.seen \subseteq Ids
        /\ walk'.start \subseteq Ids /\ rows \in Seq(Row) /\ target' \in {"live", "gone", "erased"}
    BY <2>1 DEF IInv, Types
  <2>3. WalkInv'
    <3>1. Live(rows)' = Live(rows)
      BY <2>1 DEF Live
    <3>. QED BY <2>1, <2>2, <3>1, WalkStays
  <2>. QED BY <2>1, <2>2, <2>3, TableStays
<1>. QED BY <1>1, ServeStep, DropTargetStep, WalkBeginStep, WalkItemsStep, WalkCountStep DEF Next

\* In every behaviour, whatever entity it is about: what requests hold and what
\* the table, the records and the reading client's pages say fit together.
THEOREM Invariant == Spec => []IInv
BY InitIInv, StepIInv, PTL DEF Spec

\* The records of success and the table agree, and every variable has its type:
\* what run crud checks, here for any number of requests, rows and lost commits.
THEOREM AuditAndTable == Spec => []AuditInv
<1>1. IInv => AuditInv
  <2>. SUFFICES ASSUME IInv PROVE TypeOK
    BY DEF AuditInv, IInv
  <2>2. Types /\ Keyed /\ Ids \subseteq Nat
    BY RowsAre DEF IInv
  <2>3. ASSUME NEW r \in Request
        PROVE  /\ job[r].pc \in {"idle", "read", "flushed", "done"}
               /\ job[r].op \in {"none", "create", "get", "update", "delete"}
               /\ job[r].id \in Ids \cup {0}
               /\ job[r].copy \in Row
               /\ job[r].out \in {"none", "ok", "failed", "not found"}
               /\ \A c \in DOMAIN job[r].write :
                    job[r].write[c] \in Values \cup {"live", "gone", "erased"}
    <3>1. JobLike(job[r]) /\ job[r].id <= Len(rows) /\ Len(rows) \in Nat
      BY <2>2, RowsAre DEF Types
    <3>2. job[r].id \in Ids \cup {0}
      <4>1. job[r].id \in Nat
        BY <3>1 DEF JobLike
      <4>. QED BY <3>1, <4>1 DEF Ids
    <3>3. \A c \in DOMAIN job[r].write : job[r].write[c] \in Values \cup {"live", "gone", "erased"}
      <4>1. DOMAIN job[r].write \subseteq {"state", "key", "ref", "note"}
        BY <3>1 DEF JobLike, Cols
      <4>. QED BY <3>1, <4>1 DEF JobLike, Cols, State, Values
    <3>. QED BY <3>1, <3>2, <3>3 DEF JobLike
  <2>. QED BY <2>2, <2>3 DEF TypeOK, Types, Keyed
<1>. QED BY <1>1, Invariant, PTL

\* A client that reads all pages misses no row that stayed: the rows after the
\* one it looks for do not become fewer unless one is deleted.
THEOREM WalkIsComplete == Spec => []WalkMissesNothing
<1>1. IInv => WalkMissesNothing
  BY DEF IInv, WalkInv, WalkMissesNothing
<1>. QED BY <1>1, Invariant, PTL

-------------------------------------------------------------------------------
\* What a step does to the rows that are there: nothing, unless it commits.
LEMMA RowsAfter ==
    ASSUME IInv, Next, NEW i \in Ids, rows'[i] # rows[i]
    PROVE  \E r \in Request :
              /\ job[r].pc = "flushed" /\ job[r].id = i
              /\ \/ Commit(r) /\ rows'[i] = Set(rows[i], job[r].write)
                 \/ CommitFails(r) /\ job[r].op = "create" /\ rows'[i] = Burnt
<1>1. /\ rows \in Seq(Row) /\ Len(rows) \in Nat /\ Ids = DOMAIN rows
      /\ \A row \in Row : Append(rows, row)[i] = rows[i]
  BY RowsAre DEF IInv, Types, Ids
<1>2. PICK r \in Request : Serve(r)
  BY DEF Next, DropTarget, WalkBegin, WalkItems, WalkCount
<1>3. ASSUME NEW k \in Key, NEW t \in {Target, None}, NEW n \in Note, Create(r, k, t, n)
      PROVE  FALSE
  <2>1. \E row \in Row : rows' = Append(rows, row)
    BY <1>3, BurntRow DEF Create, Row
  <2>. QED BY <1>1, <2>1
<1>4. \A op, x, named : ~Read(r, op, x, named)
  BY DEF Read
<1>5. ~FlushUpdate(r) /\ ~FlushDelete(r)
  BY Zenon DEF FlushUpdate, FlushDelete
<1>6. CASE Commit(r)
  <2>1. job[r].pc = "flushed" /\ rows' = [rows EXCEPT ![job[r].id] = Set(rows[job[r].id], job[r].write)]
    BY <1>6 DEF Commit
  <2>2. job[r].id = i
    BY <1>1, <2>1
  <2>. QED BY <1>1, <1>6, <2>1, <2>2
<1>7. CASE CommitFails(r)
  <2>1. /\ job[r].pc = "flushed"
        /\ rows' = IF job[r].op = "create" THEN [rows EXCEPT ![job[r].id] = Burnt] ELSE rows
    BY <1>7 DEF CommitFails
  <2>2. job[r].op = "create" /\ rows' = [rows EXCEPT ![job[r].id] = Burnt]
    BY <2>1
  <2>3. job[r].id = i
    BY <1>1, <2>2
  <2>. QED BY <1>1, <1>7, <2>1, <2>2, <2>3
<1>. QED BY <1>2, <1>3, <1>4, <1>5, <1>6, <1>7 DEF Serve

LEMMA StepWrites ==
    ASSUME IInv, [Next]_vars, NEW i \in Ids, rows[i].state # "unborn", rows'[i] # rows[i]
    PROVE  \E r \in Request :
         /\ job[r].pc = "flushed" /\ job[r].id = i
         /\ \/ job[r].op = "delete" /\ rows'[i] = [rows[i] EXCEPT !.state = Removed]
            \/ /\ job[r].op = "update"
               /\ \A c \in DOMAIN rows[i] : rows'[i][c] # rows[i][c] =>
                    c \in DOMAIN job[r].named /\ rows'[i][c] = job[r].named[c]
<1>1. Next
  BY DEF vars
<1>2. PICK r \in Request :
         /\ job[r].pc = "flushed" /\ job[r].id = i
         /\ \/ Commit(r) /\ rows'[i] = Set(rows[i], job[r].write)
            \/ CommitFails(r) /\ job[r].op = "create" /\ rows'[i] = Burnt
  BY <1>1, RowsAfter
<1>. DEFINE w == job[r].write
            x == rows[i]
<1>3. /\ x \in Row /\ job[r].op \in {"create", "update", "delete"}
      /\ job[r].op = "create" => x.state = "unborn"
  BY <1>2, OwnRow
<1>4. Local(r) /\ JobLike(job[r])
  BY DEF IInv, Types
<1>5. rows'[i] = Set(x, w) /\ Cols(w)
  BY <1>2, <1>3, <1>4 DEF JobLike
<1>6. CASE job[r].op = "delete"
  <2>1. w = [state |-> Removed]
    BY <1>2, <1>4, <1>6 DEF Local
  <2>2. Set(x, w) = [x EXCEPT !.state = Removed]
    BY <1>3, <2>1 DEF Set, Row
  <2>. QED BY <1>2, <1>5, <1>6, <2>2
<1>7. CASE job[r].op = "update"
  <2>1. w = Stored(job[r].named, job[r].copy) /\ Cols(job[r].named) /\ "state" \notin DOMAIN job[r].named
    BY <1>2, <1>4, <1>7 DEF Local, JobLike
  <2>2. /\ DOMAIN w \subseteq DOMAIN job[r].named
        /\ \A c \in DOMAIN w : w[c] = job[r].named[c]
    BY <2>1, StoredCols
  <2>. HIDE DEF w
  <2>3. \A c \in DOMAIN x : Set(x, w)[c] = IF c \in DOMAIN w THEN w[c] ELSE x[c]
    BY <1>3, <1>5, SetRow
  <2>. QED BY <1>2, <1>5, <1>7, <2>2, <2>3
<1>. QED BY <1>3, <1>6, <1>7

\* An update changes nothing but the columns its body names, however old the
\* copy is that it compared with, and never brings a deleted row back.
THEOREM OnlyWhatIsNamed == Spec => WritesWhatItNames
<1>1. IInv /\ [Next]_vars =>
        [\A i \in Ids : rows[i].state # "unborn" /\ rows'[i] # rows[i] =>
           \E r \in Request :
             /\ job[r].pc = "flushed" /\ job[r].id = i
             /\ \/ job[r].op = "delete" /\ rows'[i] = [rows[i] EXCEPT !.state = Removed]
                \/ /\ job[r].op = "update"
                   /\ \A c \in DOMAIN rows[i] : rows'[i][c] # rows[i][c] =>
                        c \in DOMAIN job[r].named /\ rows'[i][c] = job[r].named[c]]_vars
  BY StepWrites
<1>. QED BY <1>1, Invariant, PTL DEF Spec, WritesWhatItNames

-------------------------------------------------------------------------------
\* A request that ends with an error has stored nothing, but for the response
\* that could not be built after the commit.
LEMMA StepFailure ==
    ASSUME IInv, [Next]_vars, NEW r \in Request, Ends(r), job'[r].out # "ok"
    PROVE  \/ \A i \in Ids : rows'[i] # rows[i] => rows[i].state = "unborn" /\ rows'[i] = Burnt
           \/ job[r].op = "create" /\ ~Fits(rows[job[r].id])
           \/ job[r].op # "create" /\ ~Fits(Set(job[r].copy, job[r].write))
<1>1. Next /\ DOMAIN job = Request
  BY DEF vars, Ends, IInv, Types
<1>2. ASSUME NEW i \in Ids, rows'[i] # rows[i],
             ~(rows[i].state = "unborn" /\ rows'[i] = Burnt)
      PROVE  \/ job[r].op = "create" /\ ~Fits(rows[job[r].id])
             \/ job[r].op # "create" /\ ~Fits(Set(job[r].copy, job[r].write))
  <2>1. PICK q \in Request :
           /\ job[q].pc = "flushed" /\ job[q].id = i
           /\ \/ Commit(q) /\ rows'[i] = Set(rows[i], job[q].write)
              \/ CommitFails(q) /\ job[q].op = "create" /\ rows'[i] = Burnt
    BY <1>1, <1>2, RowsAfter
  <2>2. job[q].op = "create" => rows[i].state = "unborn"
    BY <2>1, OwnRow
  <2>3. Commit(q)
    BY <1>2, <2>1, <2>2
  <2>. DEFINE own == IF job[q].op = "create" THEN rows[job[q].id]
                     ELSE Set(job[q].copy, job[q].write)
  <2>4. \/ Answer(q, "ok") /\ Fits(own)
        \/ Answer(q, "failed") /\ ~Fits(own)
    BY <2>3 DEF Commit
  <2>. HIDE DEF own
  <2>5. PICK k : job' = [job EXCEPT ![q] = k] /\ (Fits(own) => k.out = "ok")
    <3>1. CASE Answer(q, "ok") /\ Fits(own)
      BY <3>1, AnswerJob
    <3>2. CASE Answer(q, "failed") /\ ~Fits(own)
      BY <3>2, AnswerJob
    <3>. QED BY <2>4, <3>1, <3>2
  <2>6. q = r
    BY <1>1, <2>5 DEF Ends
  <2>7. ~Fits(own)
    BY <1>1, <2>5, <2>6
  <2>. QED BY <2>6, <2>7 DEF own
<1>. QED BY <1>2

\* What the client is told as an error was not stored, with that one exception.
THEOREM ErrorsStoreNothing == Spec => FailureStoresNothing
<1>1. IInv /\ [Next]_vars =>
        [\A r \in Request : Ends(r) /\ job'[r].out # "ok" =>
           \/ \A i \in Ids : rows'[i] # rows[i] => rows[i].state = "unborn" /\ rows'[i] = Burnt
           \/ job[r].op = "create" /\ ~Fits(rows[job[r].id])
           \/ job[r].op # "create" /\ ~Fits(Set(job[r].copy, job[r].write))]_vars
  BY StepFailure
<1>. QED BY <1>1, Invariant, PTL DEF Spec, FailureStoresNothing

-------------------------------------------------------------------------------
\* A creation that is refused was refused for a reason the table still shows.
LEMMA RefusedCreation ==
    ASSUME IInv, NEW r \in Request, NEW key \in Key, NEW ref \in {Target, None},
           NEW note \in Note, Create(r, key, ref, note), Ends(r)
    PROVE  \/ ~shape.creatable \/ ~shape.hasId
           \/ job'[r].named.ref = Target /\ target = "erased"
           \/ \E i \in Live(rows) : rows[i].key = job'[r].named.key
<1>. DEFINE i == Len(rows) + 1
            new == [state |-> "live", key |-> key, ref |-> ref, note |-> note]
            nm == [key |-> key, ref |-> ref, note |-> note]
            j == [Idle EXCEPT !.op = "create", !.id = i, !.named = nm]
            jf == [j EXCEPT !.pc = "done", !.out = "failed"]
            jo == [j EXCEPT !.pc = "flushed", !.write = [state |-> "live"]]
<1>1. DOMAIN job = Request /\ Ids = DOMAIN rows
  BY RowsAre DEF IInv, Types
<1>2. /\ ref \in IF shape.ref = "no" THEN {None}
                 ELSE IF shape.ref = "required" THEN {Target} ELSE {Target, None}
      /\ \/ Begin(r, jf) /\ (~shape.creatable \/ ~shape.hasId \/ Violates(i, new))
         \/ Begin(r, jo)
  BY DEF Create
<1>3. jf.named = nm /\ jo.pc = "flushed" /\ nm.key = key /\ nm.ref = ref
  BY DEF Idle
<1>4. new.key = key /\ new.ref = ref /\ new.state = "live"
  OBVIOUS
<1>. HIDE DEF jf, jo, new, i, nm
<1>5. Begin(r, jf) /\ (~shape.creatable \/ ~shape.hasId \/ Violates(i, new)) /\ job'[r] = jf
  BY <1>1, <1>2, <1>3 DEF Begin, Ends
<1>6. ASSUME Violates(i, new)
      PROVE  \/ ref = Target /\ target = "erased"
             \/ \E x \in Live(rows) : rows[x].key = key
  <2>1. key # None /\ (ref = None => shape.ref # "required")
    BY <1>2, CrudBounds
  <2>2. CASE BadReference(new)
    BY <1>4, <2>1, <2>2 DEF BadReference
  <2>3. CASE Duplicate(i, new)
    BY <1>1, <1>4, <2>3 DEF Duplicate, Taken, Live
  <2>. QED BY <1>4, <1>6, <2>1, <2>2, <2>3 DEF Violates
<1>. QED BY <1>3, <1>5, <1>6

LEMMA StepKeys ==
    ASSUME IInv, [Next]_vars, NEW r \in Request, Ends(r), job'[r].op = "create",
           job[r].pc # "flushed"
    PROVE  \/ ~shape.creatable \/ ~shape.hasId
           \/ job'[r].named.ref = Target /\ target = "erased"
           \/ \E i \in Live(rows) : rows[i].key = job'[r].named.key
<1>1. Next /\ DOMAIN job = Request /\ \A q \in Request : JobLike(job[q])
  BY DEF vars, Ends, IInv, Types
<1>2. PICK q \in Request : Serve(q)
  BY <1>1 DEF Next, DropTarget, WalkBegin, WalkItems, WalkCount, Ends
<1>3. q # r => job'[r] = job[r]
  <2>1. SUFFICES ASSUME \A j : job' # [job EXCEPT ![q] = j] PROVE FALSE
    BY <1>1
  <2>2. \A j : ~Begin(q, j)
    BY <2>1 DEF Begin
  <2>3. \A k, t, n : ~Create(q, k, t, n)
    BY <2>2 DEF Create
  <2>4. \A op, x, named : ~Read(q, op, x, named)
    BY <2>2, Zenon DEF Read
  <2>5. \A out \in {"ok", "failed"} : ~Answer(q, out)
    BY <2>1, AnswerJob
  <2>6. \A w : ~Flush(q, w)
    BY <2>1, <1>1 DEF Flush
  <2>7. ~FlushUpdate(q) /\ ~FlushDelete(q)
    <3>1. FlushDelete(q) => Flush(q, [state |-> Removed])
      BY DEF FlushDelete, Flush
    <3>2. FlushUpdate(q) => \/ Answer(q, "failed")
                            \/ Flush(q, Stored(job[q].named, job[q].copy))
      BY Zenon DEF FlushUpdate, Flush
    <3>. QED BY <2>5, <2>6, <3>1, <3>2
  <2>8. ~Commit(q) /\ ~CommitFails(q)
    BY <2>5 DEF Commit, CommitFails
  <2>. QED BY <1>2, <2>3, <2>4, <2>7, <2>8 DEF Serve
<1>4. q = r
  BY <1>3 DEF Ends
<1>5. ASSUME NEW op \in {"get", "update", "delete"}, NEW i, NEW named, Read(r, op, i, named)
      PROVE  FALSE
  <2>. DEFINE b == [Idle EXCEPT !.op = op, !.id = i, !.named = named]
              jd(out) == [b EXCEPT !.pc = "done", !.out = out]
              jr == [b EXCEPT !.pc = "read", !.copy = rows[i]]
  <2>1. Begin(r, jr) \/ \E out : Begin(r, jd(out))
    BY <1>5 DEF Read
  <2>2. jr.op = op /\ \A out : jd(out).op = op
    BY DEF Idle
  <2>. HIDE DEF jd, jr
  <2>3. job'[r].op = op
    BY <1>1, <2>1, <2>2 DEF Begin
  <2>. QED BY <2>3
<1>6. ~FlushUpdate(r)
  <2>1. SUFFICES ASSUME FlushUpdate(r) PROVE FALSE
    OBVIOUS
  <2>2. /\ job[r].op = "update"
        /\ Answer(r, "failed") \/ Flush(r, Stored(job[r].named, job[r].copy))
    BY <2>1, Zenon DEF FlushUpdate, Flush
  <2>3. CASE Answer(r, "failed")
    BY <1>1, <2>2, <2>3, AnswerJob
  <2>4. CASE Flush(r, Stored(job[r].named, job[r].copy))
    BY <1>1, <2>4 DEF Flush, Ends, JobLike, Fields
  <2>. QED BY <2>2, <2>3, <2>4
<1>7. ~FlushDelete(r)
  BY <1>1 DEF FlushDelete, Ends, JobLike, Fields
<1>8. ~Commit(r) /\ ~CommitFails(r)
  BY DEF Commit, CommitFails
<1>9. PICK k \in Key, t \in {Target, None}, n \in Note : Create(r, k, t, n)
  BY <1>2, <1>4, <1>5, <1>6, <1>7, <1>8 DEF Serve
<1>. QED BY <1>9, RefusedCreation

\* A key is refused to a new row only because a row that is not deleted has it,
\* or for a reason that has nothing to do with keys.
THEOREM DeletedKeysAreFree == Spec => DeletedKeyIsFree
<1>1. IInv /\ [Next]_vars =>
        [\A r \in Request :
           Ends(r) /\ job'[r].op = "create" /\ job[r].pc # "flushed" =>
             \/ ~shape.creatable \/ ~shape.hasId
             \/ job'[r].named.ref = Target /\ target = "erased"
             \/ \E i \in Live(rows) : rows[i].key = job'[r].named.key]_vars
  BY StepKeys
<1>. QED BY <1>1, Invariant, PTL DEF Spec, DeletedKeyIsFree
===============================================================================
