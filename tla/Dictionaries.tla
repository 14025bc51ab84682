----------------------------- MODULE Dictionaries -----------------------------
(***************************************************************************)
(* Dictionaries and their items (app/services/dict.py,                     *)
(* app/repositories/dict.py, app/models/dict.py).                          *)
(*                                                                         *)
(* A request loads a row into a copy, checks, and flushes the columns in   *)
(* which the row has to differ from the copy (txn); each statement is one  *)
(* at READ COMMITTED and takes row locks to the commit of the endpoint.    *)
(* Three partial unique indexes look at rows that are not deleted: the     *)
(* code of a dictionary, the value of an item within its dictionary, and   *)
(* the one default item.                                                   *)
(*                                                                         *)
(* Reads, names and descriptions, the permission for an operation and what *)
(* is refused at once are left out; rows are created ACTIVE. A flush locks *)
(* its rows in one step; that PostgreSQL may abort a request in a deadlock *)
(* of two such flushes leaves what would be had the request not begun.     *)
(***************************************************************************)
EXTENDS Naturals

CONSTANTS Dict, Item,       \* identifiers of rows in sys_dict_type, sys_dict_item
          Code, Value, Req, None,
          MaxRequests       \* bound on the requests of a behaviour

Identifiers == None \notin Dict \union Item

VARIABLES dict, item, begun, job, txn

vars == <<dict, item, begun, job, txn>>

DictRow == [state : {"none", "live", "gone"}, code : Code \union {None}, on : BOOLEAN]
ItemRow == [state : {"none", "live", "gone"}, dict : Dict \union {None},
            value : Value \union {None}, on : BOOLEAN, default : BOOLEAN]

Nothing == [c \in {} |-> None]
NoDict  == [state |-> "none", code |-> None, on |-> TRUE]
NoItem  == [state |-> "none", dict |-> None, value |-> None, on |-> TRUE, default |-> FALSE]
NoWrite == [dict |-> [d \in Dict |-> Nothing], item |-> [i \in Item |-> Nothing]]
Blank   == [op |-> "none", pc |-> "idle", dict |-> None, item |-> None, cols |-> Nothing,
            copy |-> Nothing, found |-> Nothing, stale |-> FALSE]

\* Some columns of a row.
DictCols == {[c \in C |-> x[c]] : C \in SUBSET {"state", "code", "on"}, x \in DictRow}
ItemCols == {[c \in C |-> x[c]] :
                C \in SUBSET {"state", "dict", "value", "on", "default"}, x \in ItemRow}

Op == {"none", "addDict", "setDict", "delDict", "addItem", "setItem", "delItem"}
Pc == {"idle", "value", "list", "clear", "write", "commit"}

Job == [op : Op, pc : Pc, dict : Dict \union {None}, item : Item \union {None},
        cols : DictCols \union ItemCols, copy : DictRow \union ItemRow \union {Nothing},
        found : UNION {[S -> ItemRow] : S \in SUBSET Item}, stale : BOOLEAN]
Txn == [dict : [Dict -> DictCols], item : [Item -> ItemCols]]

TypeOK == /\ dict \in [Dict -> DictRow] /\ item \in [Item -> ItemRow]
          /\ job \in [Req -> Job] /\ txn \in [Req -> Txn]

\* The columns of an UPDATE replace those of the row.
Set(row, cols) == [c \in DOMAIN row |-> IF c \in DOMAIN cols THEN cols[c] ELSE row[c]]

\* What the ORM writes: the columns whose value differs from the row as read.
Changed(copy, cols) == [c \in {c \in DOMAIN cols : cols[c] # copy[c]} |-> cols[c]]

\* What a row takes up in the unique indexes of its table.
Keys(x) == IF x.state # "live" THEN {}
           ELSE IF "code" \in DOMAIN x THEN {<<x.code>>}
           ELSE {<<x.dict, x.value>>} \union IF x.default THEN {<<x.dict>>} ELSE {}

Unique(rows) == \A x, y \in DOMAIN rows :
                   x # y => Keys(rows[x]) \intersect Keys(rows[y]) = {}

Touched(w)    == {x \in DOMAIN w : DOMAIN w[x] # {}}
Over(rows, w) == [x \in DOMAIN rows |-> Set(rows[x], w[x])]
Add(v, w)     == [x \in DOMAIN v |-> IF x \in Touched(w) THEN w[x] ELSE v[x]]
Only(S, y, w) == [x \in S |-> IF x = y THEN w ELSE Nothing]

DictsSeen(r) == Over(dict, txn[r].dict)
ItemsSeen(r) == Over(item, txn[r].item)

Live(d) == {i \in Item : item[i].state = "live" /\ item[i].dict = d}

\* Nobody has begun, no row is there.
Empty == /\ dict = [d \in Dict |-> NoDict] /\ item = [i \in Item |-> NoItem]
         /\ begun = 0
         /\ job = [r \in Req |-> Blank] /\ txn = [r \in Req |-> NoWrite]

\* A table that earlier edits have left. A creation that overlapped with the
\* deletion of its dictionary leaves an item below one that is gone; others
\* that are gone, and defaults below them, are left out.
Init == /\ dict \in [Dict -> {NoDict} \union [state : {"live"}, code : Code, on : {TRUE}]
                                 \union [state : {"gone"}, code : Code, on : {FALSE}]]
        /\ item \in [Item -> {NoItem} \union [state : {"live"}, dict : Dict, value : Value,
                                              on : {TRUE}, default : BOOLEAN]]
        /\ Unique(dict) /\ Unique(item)
        /\ \A i \in Item : item[i].state = "live" => dict[item[i].dict].state # "none"
        /\ \A i \in Item : item[i].default => dict[item[i].dict].state = "live"
        /\ \A d \in Dict : dict[d].state = "gone" => Live(d) # {}
        /\ begun = 0
        /\ job = [r \in Req |-> Blank] /\ txn = [r \in Req |-> NoWrite]

-------------------------------------------------------------------------------
At(r, pc) == job[r].pc = pc

Begin(r, j) == /\ At(r, "idle") /\ begun < MaxRequests
               /\ begun' = begun + 1
               /\ job' = [job EXCEPT ![r] = j]
               /\ UNCHANGED <<dict, item, txn>>

\* An exception makes get_db roll the transaction back.
Raise(r) == /\ job' = [job EXCEPT ![r] = Blank]
            /\ txn' = [txn EXCEPT ![r] = NoWrite]
            /\ UNCHANGED <<dict, item, begun>>

\* A statement that writes w meets a row, or a key, that one with v has touched,
Meets(rows, w, v) ==
    \E x \in Touched(w), y \in Touched(v) :
       \/ x = y
       \/ Keys(Over(rows, w)[x]) \intersect (Keys(rows[y]) \union Keys(Over(rows, v)[y])) # {}

\* and waits for the other's commit.
Waits(r, dw, iw) == \E q \in Req \ {r} : \/ Meets(dict, dw, txn[q].dict)
                                         \/ Meets(item, iw, txn[q].item)

\* A unique index refuses what is written.
Clash(rows, w) == \E x \in Touched(w), y \in DOMAIN rows :
                     /\ x # y
                     /\ Keys(Over(rows, w)[x]) \intersect Keys(Over(rows, w)[y]) # {}

Flush(r, dw, iw, j) ==
    /\ ~Waits(r, dw, iw)
    /\ IF Clash(DictsSeen(r), dw) \/ Clash(ItemsSeen(r), iw)
         THEN Raise(r)
         ELSE /\ txn' = [txn EXCEPT ![r] = [dict |-> Add(txn[r].dict, dw),
                                            item |-> Add(txn[r].item, iw)]]
              /\ job' = [job EXCEPT ![r] = j]
              /\ UNCHANGED <<dict, item, begun>>

FlushDict(r, d, cols, j) == Flush(r, Only(Dict, d, cols), NoWrite.item, j)
FlushItem(r, i, cols, j) == Flush(r, NoWrite.dict, Only(Item, i, cols), j)

To(r, pc) == [job[r] EXCEPT !.pc = pc]

-------------------------------------------------------------------------------
\* A dictionary is created, switched on or off, and deleted with its items.
BeginAddDict(r, c) ==
    /\ \A d \in Dict : <<c>> \notin Keys(dict[d])
    /\ Begin(r, [Blank EXCEPT !.op = "addDict", !.pc = "write",
                              !.cols = [state |-> "live", code |-> c, on |-> TRUE]])

InsertDict(r) ==
    /\ At(r, "write") /\ job[r].op = "addDict"
    /\ \E d \in Dict : /\ dict[d].state = "none"
                       /\ \A q \in Req : d \notin Touched(txn[q].dict)
                       /\ FlushDict(r, d, job[r].cols, [To(r, "commit") EXCEPT !.dict = d])

BeginSetDict(r, d, on) ==
    /\ dict[d].state = "live"
    /\ Begin(r, [Blank EXCEPT !.op = "setDict", !.pc = "write", !.dict = d,
                              !.cols = [on |-> on], !.copy = dict[d]])

BeginDelDict(r, d) ==
    /\ dict[d].state = "live"
    /\ Begin(r, [Blank EXCEPT !.op = "delDict", !.pc = "list", !.dict = d,
                              !.cols = [state |-> "gone", on |-> FALSE], !.copy = dict[d]])

UpdateDict(r) ==
    /\ At(r, "write") /\ job[r].op \in {"setDict", "delDict"}
    /\ FlushDict(r, job[r].dict, Changed(job[r].copy, job[r].cols), To(r, "commit"))

-------------------------------------------------------------------------------
\* An item is created, changed and deleted.
BeginAddItem(r, d, v, def) ==
    /\ dict[d].state = "live"
    /\ Begin(r, [Blank EXCEPT !.op = "addItem", !.pc = "value", !.dict = d,
                              !.cols = [state |-> "live", dict |-> d, value |-> v,
                                        on |-> TRUE, default |-> def]])

AsksDefault(cols) == "default" \in DOMAIN cols /\ cols.default

BeginSetItem(r, i, cols) ==
    /\ item[i].state = "live"
    /\ Begin(r, [Blank EXCEPT !.op = "setItem", !.dict = item[i].dict, !.item = i,
                              !.cols = cols, !.copy = item[i],
                              !.pc = IF "value" \in DOMAIN cols THEN "value"
                                     ELSE IF AsksDefault(cols) THEN "list" ELSE "write"])

\* The columns that a request names.
Named == {[c \in C |-> x[c]] : C \in SUBSET {"value", "on", "default"},
                               x \in [value : Value, on : BOOLEAN, default : BOOLEAN]}

BeginDelItem(r, i) ==
    /\ item[i].state = "live"
    /\ Begin(r, [Blank EXCEPT !.op = "delItem", !.pc = "write", !.dict = item[i].dict,
                              !.item = i, !.copy = item[i],
                              !.cols = [state |-> "gone", on |-> FALSE, default |-> FALSE]])

\* _assert_value_available
Taken(j) == \E i \in Live(j.dict) : item[i].value = j.cols.value /\ i # j.item

CheckValue(r) ==
    /\ At(r, "value")
    /\ IF Taken(job[r])
         THEN Raise(r)
         ELSE /\ job' = [job EXCEPT ![r] =
                             To(r, IF AsksDefault(job[r].cols) THEN "list" ELSE "write")]
              /\ UNCHANGED <<dict, item, begun, txn>>

\* Seeded fault: items that are switched off are overlooked.
ActiveOnly(d) == {i \in Live(d) : item[i].on}

\* list_items, without a status.
Listed(d) == Live(d)

\* clear_default and soft_delete_items read the items they are to change,
ToClear(j) == IF j.op = "delDict" THEN Listed(j.dict)
              ELSE {i \in Listed(j.dict) : item[i].default /\ i # j.item}

List(r) == /\ At(r, "list")
           /\ job' = [job EXCEPT ![r] = [To(r, "clear") EXCEPT
                                            !.found = [i \in ToClear(job[r]) |-> item[i]]]]
           /\ UNCHANGED <<dict, item, begun, txn>>

\* and write what differs from what they have read.
Cleared(op) == IF op = "delDict" THEN [state |-> "gone", on |-> FALSE, default |-> FALSE]
               ELSE [default |-> FALSE]

Clearing(j) == [i \in Item |-> IF i \in DOMAIN j.found
                               THEN Changed(j.found[i], Cleared(j.op)) ELSE Nothing]

Clear(r) == At(r, "clear") /\ Flush(r, NoWrite.dict, Clearing(job[r]), To(r, "write"))

InsertItem(r) ==
    /\ At(r, "write") /\ job[r].op = "addItem"
    /\ \E i \in Item : /\ item[i].state = "none"
                       /\ \A q \in Req : i \notin Touched(txn[q].item)
                       /\ FlushItem(r, i, job[r].cols, [To(r, "commit") EXCEPT !.item = i])

UpdateItem(r) ==
    /\ At(r, "write") /\ job[r].op \in {"setItem", "delItem"}
    /\ FlushItem(r, job[r].item, Changed(job[r].copy, job[r].cols), To(r, "commit"))

\* The endpoint commits; every other request in progress is stale.
Commit(r) ==
    /\ At(r, "commit")
    /\ dict' = DictsSeen(r) /\ item' = ItemsSeen(r)
    /\ txn' = [txn EXCEPT ![r] = NoWrite]
    /\ job' = [q \in Req |-> IF q = r THEN Blank
                             ELSE [job[q] EXCEPT !.stale = job[q].pc # "idle"]]
    /\ UNCHANGED begun

Next == \E r \in Req :
    \/ \E c \in Code : BeginAddDict(r, c)
    \/ \E d \in Dict : \/ \E on \in BOOLEAN : BeginSetDict(r, d, on)
                       \/ BeginDelDict(r, d)
                       \/ \E v \in Value, def \in BOOLEAN : BeginAddItem(r, d, v, def)
    \/ \E i \in Item : BeginDelItem(r, i)
    \/ /\ begun < MaxRequests
       /\ \E i \in Item, cols \in Named : BeginSetItem(r, i, cols)
    \/ InsertDict(r) \/ UpdateDict(r) \/ CheckValue(r) \/ List(r) \/ Clear(r)
    \/ InsertItem(r) \/ UpdateItem(r) \/ Commit(r)

Spec == Init /\ [][Next]_vars

-------------------------------------------------------------------------------
\* What an edit j promises of the tables after it: what it names is written, to
\* a row that is there; a deleted dictionary leaves no item behind; an item is
\* added to a dictionary that is there; and one that is made the default is the
\* only one.
Done(j, dicts, items) ==
    /\ j.op \in {"addDict", "setDict"} =>
         /\ dicts[j.dict].state = "live"
         /\ \A c \in DOMAIN j.cols : dicts[j.dict][c] = j.cols[c]
    /\ j.op = "delDict" =>
         /\ dicts[j.dict].state = "gone" /\ ~dicts[j.dict].on
         /\ \A i \in Live(j.dict) : items[i].state = "gone" /\ ~items[i].default
         /\ \A i \in Item : items[i].dict = j.dict => items[i].state # "live"
    /\ j.op = "addItem" => dicts[j.dict].state = "live"
    /\ j.op \in {"addItem", "setItem"} =>
         /\ items[j.item].state = "live" /\ items[j.item].dict = j.dict
         /\ \A c \in DOMAIN j.cols : items[j.item][c] = j.cols[c]
         /\ AsksDefault(j.cols) =>
              \A i \in Item \ {j.item} :
                 ~(items[i].state = "live" /\ items[i].dict = j.dict /\ items[i].default)
    /\ j.op = "delItem" => items[j.item].state = "gone" /\ ~items[j.item].default

Ends(r) == ~At(r, "idle") /\ job'[r].pc = "idle"

\* An edit during which no other was committed does what it promises
\* (services/dict.py, module comment, 1-3), and no unique index refuses what it
\* writes: the old default goes before the new one comes.
UndisturbedIsDone ==
    [][\A r \in Req : Ends(r) /\ ~job[r].stale =>
         /\ At(r, "commit") => Done(job[r], dict', item')
         /\ At(r, "commit") \/ At(r, "value")]_vars

-------------------------------------------------------------------------------
\* The inductive invariant: IInv.

\* What a request means to write, and where it is.
Phase(r) ==
    LET j == job[r]
    IN  /\ j.pc = "idle" <=> j.op = "none"
        /\ j.op \in {"addDict", "setDict", "delItem"} => j.pc \in {"write", "commit"}
        /\ j.op = "delDict" => j.pc \in {"list", "clear", "write", "commit"}
        /\ j.op \in {"setDict", "delDict"} => j.dict \in Dict
        /\ j.op = "addDict" =>
             \E c \in Code : j.cols = [state |-> "live", code |-> c, on |-> TRUE]
        /\ j.op = "setDict" => \E on \in BOOLEAN : j.cols = [on |-> on]
        /\ j.op = "delDict" => j.cols = [state |-> "gone", on |-> FALSE]
        /\ j.op = "addItem" =>
             \E v \in Value, def \in BOOLEAN :
                j.cols = [state |-> "live", dict |-> j.dict, value |-> v,
                          on |-> TRUE, default |-> def]
        /\ j.op = "setItem" => j.cols \in Named
        /\ j.op = "delItem" => j.cols = [state |-> "gone", on |-> FALSE, default |-> FALSE]
        /\ j.op \in {"setItem", "delItem"} => j.item \in Item
        /\ j.op \notin {"setItem", "delItem"} /\ j.pc # "commit" => j.item = None
        /\ j.pc = "value" => "value" \in DOMAIN j.cols /\ j.op \in {"addItem", "setItem"}
        /\ j.pc \in {"list", "clear"} => j.op = "delDict" \/ AsksDefault(j.cols)

\* What it has flushed.
Flushed(r) ==
    LET j == job[r]
        t == txn[r]
    IN  /\ j.pc # "commit" => t.dict = NoWrite.dict
        /\ j.pc \in {"idle", "value", "list", "clear"} => t.item = NoWrite.item
        /\ j.pc = "clear" => j.item \notin DOMAIN j.found
        /\ j.pc = "write" => j.item \notin Touched(t.item)

\* What it knows as long as nobody else has committed.
Fresh(r) ==
    LET j     == job[r]
        items == ItemsSeen(r)
    IN  /\ j.op \in {"setDict", "delDict"} => j.copy = dict[j.dict] /\ j.copy.state = "live"
        /\ j.op \in {"setItem", "delItem"} =>
             j.copy = item[j.item] /\ j.copy.state = "live" /\ j.copy.dict = j.dict
        /\ j.op = "addItem" => dict[j.dict].state = "live"
        /\ j.op = "addDict" /\ j.pc = "write" =>
             \A d \in Dict : <<j.cols.code>> \notin Keys(dict[d])
        /\ "value" \in DOMAIN j.cols /\ j.pc \notin {"value", "commit"} => ~Taken(j)
        /\ j.pc = "clear" => j.found = [i \in ToClear(j) |-> item[i]]
        /\ j.pc = "write" =>
             /\ Touched(txn[r].item) = IF j.op = "delDict" \/ AsksDefault(j.cols)
                                       THEN ToClear(j) ELSE {}
             /\ \A i \in Touched(txn[r].item) : items[i] = Set(item[i], Cleared(j.op))
        /\ j.pc = "commit" => Done(j, DictsSeen(r), items)

Local(r) == Phase(r) /\ Flushed(r) /\ (job[r].pc # "idle" /\ ~job[r].stale => Fresh(r))

\* What two requests have written of a table is apart.
Disjoint(rows, v, w) ==
    \A x \in Touched(v), y \in Touched(w) :
       x # y /\ Keys(Over(rows, v)[x]) \intersect Keys(Over(rows, w)[y]) = {}

Apart(q, r) == /\ Disjoint(dict, txn[q].dict, txn[r].dict)
               /\ Disjoint(item, txn[q].item, txn[r].item)

IInv == /\ TypeOK /\ Unique(dict) /\ Unique(item)
        /\ \A r \in Req : Unique(DictsSeen(r)) /\ Unique(ItemsSeen(r)) /\ Local(r)
        /\ \A q, r \in Req : q # r => Apart(q, r)
===============================================================================
