------------------------------ MODULE Passwords ------------------------------
(***************************************************************************)
(* The password of an account, its history and the duty to change it       *)
(* (app/services/user.py: reset_password, change_own_password,             *)
(* _prepare_password_change; app/repositories/user.py).                    *)
(*                                                                         *)
(* A request loads the account into a copy and decides on the copy; each   *)
(* step is a statement of its own at READ COMMITTED.  A hash stands for the*)
(* password it verifies.  What makes a password acceptable, the scope of   *)
(* the administrator and the marks a login sets on an aged password are    *)
(* left out.                                                               *)
(***************************************************************************)
EXTENDS Naturals, FiniteSets

CONSTANTS Password, Req, None,
          Kept,            \* PASSWORD_HISTORY_SIZE
          MaxRequests      \* bound on the requests of a behaviour

Size == Kept \in Nat \ {0}

VARIABLES account,   \* password_hash and must_change_password
          history,   \* rows of admin_user_password_history
          nextRow,   \* identifiers grow
          handed,    \* whether the password is one an administrator has set
          begun, job, txn

vars == <<account, history, nextRow, handed, begun, job, txn>>

Old     == [id : Nat, hash : Password]
Account == [hash : Password, must : BOOLEAN]
NoWrite == [add |-> {}, del |-> {}, row |-> <<>>]
Blank   == [op |-> "none", pc |-> "idle", copy |-> <<>>, new |-> None,
            victims |-> {}, stale |-> FALSE]

Columns == [hash : Password] \union Account
Txn == [add : SUBSET Old, del : SUBSET Old, row : Columns \union {<<>>}]
Job == [op : {"none", "own", "reset"},
        pc : {"idle", "recent", "append", "choose", "prune", "write", "commit"},
        copy : Account \union {<<>>}, new : Password \union {None},
        victims : SUBSET Old, stale : BOOLEAN]

TypeOK == /\ account \in Account /\ history \in SUBSET Old /\ nextRow \in Nat
          /\ handed \in BOOLEAN
          /\ job \in [Req -> Job] /\ txn \in [Req -> Txn]

\* A new account has a password that an administrator chose.
Init == /\ account \in [hash : Password, must : {TRUE}] /\ handed = TRUE
        /\ history = {} /\ nextRow = 1 /\ begun = 0
        /\ job = [r \in Req |-> Blank] /\ txn = [r \in Req |-> NoWrite]

Newest(rows, n) == {h \in rows : Cardinality({k \in rows : k.id > h.id}) < n}

Seen(r) == (history \ txn[r].del) \union txn[r].add

At(r, pc) == job[r].pc = pc

Goto(r, pc) == job' = [job EXCEPT ![r].pc = pc]

\* change_own_password is refused to who does not know the password of the
\* copy; either is, when the new password is that of the copy.
Begin(r, op, new) ==
    /\ At(r, "idle") /\ begun < MaxRequests
    /\ new # account.hash
    /\ begun' = begun + 1
    /\ job' = [job EXCEPT ![r] = [Blank EXCEPT !.op = op, !.pc = "recent", !.new = new,
                                               !.copy = account]]
    /\ UNCHANGED <<account, history, nextRow, handed, txn>>

Recent(rows) == Newest(rows, Kept)

CheckRecent(r) ==
    /\ At(r, "recent")
    /\ IF \E h \in Recent(Seen(r)) : h.hash = job[r].new
         THEN job' = [job EXCEPT ![r] = Blank]
         ELSE Goto(r, "append")
    /\ UNCHANGED <<account, history, nextRow, handed, begun, txn>>

\* Seeded fault: the hash is archived when it has been replaced already.
AppendNew(r) ==
    /\ At(r, "append") /\ Goto(r, "choose")
    /\ txn' = [txn EXCEPT ![r].add = {[id |-> nextRow, hash |-> job[r].new]}]
    /\ nextRow' = nextRow + 1
    /\ UNCHANGED <<account, history, handed, begun>>

AppendHistory(r) ==
    /\ At(r, "append") /\ Goto(r, "choose")
    /\ txn' = [txn EXCEPT ![r].add = {[id |-> nextRow, hash |-> job[r].copy.hash]}]
    /\ nextRow' = nextRow + 1
    /\ UNCHANGED <<account, history, handed, begun>>

Superfluous(rows) == rows \ Newest(rows, Kept)

\* prune_password_history finds the rows in its snapshot,
ChooseVictims(r) ==
    /\ At(r, "choose")
    /\ job' = [job EXCEPT ![r].pc = "prune", ![r].victims = Superfluous(Seen(r))]
    /\ UNCHANGED <<account, history, nextRow, handed, begun, txn>>

\* waits for another that is deleting one of them, and skips what is gone.
Prune(r) ==
    /\ At(r, "prune") /\ Goto(r, "write")
    /\ \A q \in Req \ {r} : txn[q].del \intersect job[r].victims = {}
    /\ txn' = [txn EXCEPT ![r].add = txn[r].add \ job[r].victims,
                          ![r].del = history \intersect job[r].victims]
    /\ UNCHANGED <<account, history, nextRow, handed, begun>>

\* Only columns that differ from the copy are written.
Changed(r) ==
    LET must == job[r].op = "reset"
    IN  IF must = job[r].copy.must THEN [hash |-> job[r].new]
        ELSE [hash |-> job[r].new, must |-> must]

WriteAccount(r) ==
    /\ At(r, "write") /\ Goto(r, "commit")
    /\ \A q \in Req \ {r} : txn[q].row = <<>>
    /\ txn' = [txn EXCEPT ![r].row = Changed(r)]
    /\ UNCHANGED <<account, history, nextRow, handed, begun>>

\* The endpoint commits; every other request in progress is stale.
Commit(r) ==
    /\ At(r, "commit")
    /\ account' = [hash |-> txn[r].row.hash,
                   must |-> IF "must" \in DOMAIN txn[r].row THEN txn[r].row.must
                            ELSE account.must]
    /\ history' = Seen(r)
    /\ handed' = (job[r].op = "reset")
    /\ txn' = [txn EXCEPT ![r] = NoWrite]
    /\ job' = [q \in Req |-> IF q = r THEN Blank ELSE [job[q] EXCEPT !.stale = job[q].pc # "idle"]]
    /\ UNCHANGED <<nextRow, begun>>

Next == \E r \in Req : \/ \E op \in {"own", "reset"}, new \in Password : Begin(r, op, new)
                       \/ CheckRecent(r) \/ AppendHistory(r) \/ ChooseVictims(r)
                       \/ Prune(r) \/ WriteAccount(r) \/ Commit(r)

Spec == Init /\ [][Next]_vars

-------------------------------------------------------------------------------
\* A change during which no other was committed is what was promised: the
\* password is none of the last Kept and not the one it replaces, that one is
\* remembered as the newest, with the Kept - 1 before it and no others; and it
\* has to be changed again just if an administrator has set it.
Remembers(r) ==
    /\ account'.hash # account.hash
    /\ \A h \in Newest(history, Kept) : h.hash # account'.hash
    /\ {h.hash : h \in Newest(history', 1)} = {account.hash}
    /\ Newest(history, Kept - 1) \subseteq history' /\ Cardinality(history') <= Kept
    /\ account'.must = (job[r].op = "reset")

UndisturbedRemembers ==
    [][\A r \in Req : At(r, "commit") /\ job'[r].pc = "idle" /\ ~job[r].stale
                        => Remembers(r)]_<<account, history>>

\* What a comment says (services/user.py:591): after an administrator has set a
\* password, it has to be changed.  It does not hold.
ResetForcesChange == handed => account.must

-------------------------------------------------------------------------------
\* The inductive invariant: IInv.

\* The rows of the history are in the order of their identifiers.
Ordered == /\ IsFiniteSet(history)
           /\ \A h \in history : h.id < nextRow
           /\ \A h, k \in history : h.id = k.id => h = k

\* Where a request is, and what it has flushed: a row of its own.
Phase(r) ==
    LET j == job[r]
        t == txn[r]
    IN  /\ j.pc # "idle" => /\ j.op # "none" /\ j.copy \in Account
                            /\ j.new \in Password /\ j.new # j.copy.hash
        /\ j.pc \in {"idle", "recent", "append"} => t.add = {}
        /\ j.pc \notin {"write", "commit"} => t.del = {}
        /\ t.row = IF j.pc = "commit" THEN Changed(r) ELSE <<>>
        /\ \A h \in t.add : /\ h.id < nextRow /\ h.hash = j.copy.hash
                            /\ \A k \in history : k.id # h.id
                            /\ \A k \in t.add : k = h

\* What it knows as long as nobody else has committed.
Fresh(r) ==
    LET j    == job[r]
        rows == history \union txn[r].add
    IN  /\ j.copy = account
        /\ j.pc # "recent" => \A h \in Newest(history, Kept) : h.hash # j.new
        /\ j.pc \in {"choose", "prune", "write", "commit"} =>
             \E h \in txn[r].add : txn[r].add = {h} /\ \A k \in history : k.id < h.id
        /\ j.pc = "prune" => j.victims = Superfluous(rows)
        /\ j.pc \in {"write", "commit"} => Seen(r) = Newest(rows, Kept)

Local(r) == Phase(r) /\ (job[r].pc # "idle" /\ ~job[r].stale => Fresh(r))

Apart(q, r) == \A h \in txn[q].add, k \in txn[r].add : h.id # k.id

IInv == /\ TypeOK /\ Ordered
        /\ \A r \in Req : Local(r)
        /\ \A q, r \in Req : q # r => Apart(q, r)
==============================================================================
