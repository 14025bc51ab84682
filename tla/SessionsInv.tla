------------------------------ MODULE SessionsInv ------------------------------
(***************************************************************************)
(* The inductive invariant of Sessions.  It speaks about the database      *)
(* (Stored), about one request against the database (Local) and about two  *)
(* requests (Apart), so that a step of one request leaves the Local of all *)
(* the others alone unless it commits.                                     *)
(***************************************************************************)
EXTENDS Sessions

Rotated(s) == [sess |-> s, why |-> "ROTATED"]
Ended(s)   == [sess |-> s, why |-> "SESSION_REVOKED"]

\* The tables agree with each other and with what was handed out.
Stored ==
    /\ \A s \in Sess : row[s] # None =>
         issued[row[s].pair] = s /\ row[s].exp <= row[s].rexp
    /\ \A p \in Pair : issued[p] # None =>
         /\ row[issued[p]] # None
         /\ row[issued[p]].pair = p \/ hist[p] = Rotated(issued[p])
    /\ \A p \in Pair : hist[p] # None =>
         /\ issued[p] = hist[p].sess
         /\ hist[p].why = "ROTATED" => row[issued[p]].pair # p
         /\ hist[p].why = "SESSION_REVOKED" =>
              row[issued[p]].pair = p /\ Revoked(row[issued[p]])

\* What a request remembers is, or once was, in the tables.
Memory(r) ==
    /\ job[r].new # None => /\ job[r].sess \in Sess
                            /\ issued[job[r].new] = None
                            /\ job[r].op \in {"login", "refresh"}
    /\ \A s \in Sess : job[r].seen[s] # None =>
         /\ row[s] # None
         /\ job[r].seen[s].user = row[s].user
         /\ job[r].seen[s].rexp = row[s].rexp
         /\ issued[job[r].seen[s].pair] = s

\* Where a request stands determines what it knows.
Place(r) ==
    /\ job[r].pc = "idle" => job[r] = Blank /\ txn[r] = Clean
    /\ job[r].pc = "list" => job[r].op = "login"
    /\ job[r].pc \in {"update", "archive"} => job[r].cur \in job[r].todo
    /\ \A s \in job[r].todo : job[r].seen[s] # None
    /\ job[r].pc = "archive" => /\ txn[r].rows[job[r].cur] # None
                                /\ Revoked(txn[r].rows[job[r].cur])
    /\ job[r].pc = "retired" => job[r].op = "refresh" /\ job[r].tok \in Pair
    /\ job[r].pc \in {"retired", "user", "retire", "touch"} => txn[r] = Clean
    /\ job[r].pc \in {"user", "retire", "rotate", "touch"} =>
         job[r].sess \in Sess /\ job[r].seen[job[r].sess] # None
    /\ job[r].pc \in {"user", "retire", "rotate"} /\ job[r].op = "refresh" =>
         /\ job[r].tok \in Pair
         /\ job[r].new \in Pair
         /\ job[r].seen[job[r].sess].pair = job[r].tok
    /\ job[r].pc \in {"user", "touch"} => job[r].op \in {"refresh", "auth"}
    /\ job[r].pc \in {"retire", "rotate"} => job[r].op = "refresh"
    /\ job[r].pc \in {"touch", "serve"} => job[r].op = "auth"
    /\ job[r].pc = "rotate" =>
         hist[job[r].tok] # None \/ txn[r].hist[job[r].tok] = Rotated(job[r].sess)
    /\ job[r].pc = "alarm" => job[r].sess \in Sess
    /\ job[r].op = "refresh" /\ job[r].pc \in {"update", "archive"} => job[r].sess \in Sess
    /\ job[r].op = "login" /\ job[r].pc \in {"list", "update", "archive", "commit"} =>
         /\ job[r].sess \in Sess
         /\ txn[r].rows[job[r].sess] # None
         /\ row[job[r].sess] = None
    /\ job[r].op = "refresh" /\ job[r].pc = "commit" =>
         /\ job[r].sess \in Sess
         /\ job[r].new \in Pair
         /\ txn[r].rows[job[r].sess] # None
         /\ txn[r].rows[job[r].sess].pair = job[r].new

\* An uncommitted row is a new session, the stored row with at most a revocation
\* added, or the stored row rotated to the new pair.
PendingRow(r, s) ==
    LET x == txn[r].rows[s]
    IN  /\ x.exp <= x.rexp
        /\ row[s] = None => /\ job[r].op = "login"
                            /\ job[r].sess = s
                            /\ job[r].new \in Pair
                            /\ x.pair = job[r].new
                            /\ job[r].pc \in {"list", "update", "archive", "commit"}
        /\ row[s] # None => /\ x.user = row[s].user
                            /\ x.rexp = row[s].rexp
                            /\ Revoked(row[s]) => Revoked(x)
        /\ row[s] # None /\ x.pair = row[s].pair => x.exp = row[s].exp
        /\ row[s] # None /\ x.pair # row[s].pair =>
             /\ ~Revoked(row[s]) /\ ~Revoked(x)
             /\ job[r].op = "refresh" /\ job[r].pc = "commit"
             /\ job[r].sess = s /\ job[r].tok = row[s].pair
             /\ job[r].new \in Pair /\ job[r].new = x.pair
             /\ txn[r].hist[row[s].pair] = Rotated(s)

\* An uncommitted history entry belongs to a rotation in progress or to a session
\* this request is ending.
PendingEntry(r, p) ==
    LET e == txn[r].hist[p]
    IN  /\ hist[p] = None
        /\ issued[p] = e.sess
        /\ row[e.sess].pair = p
        /\ e.why = "ROTATED" =>
             /\ job[r].op = "refresh" /\ job[r].sess = e.sess /\ job[r].tok = p
             /\ job[r].pc \in {"rotate", "update", "archive", "alarm", "commit"}
             /\ job[r].pc = "commit" => txn[r].rows[e.sess].pair # p
        /\ e.why = "SESSION_REVOKED" =>
             txn[r].rows[e.sess] # None /\ Revoked(txn[r].rows[e.sess])
             /\ job[r].pc \notin {"rotate", "retire"}

Pending(r) == /\ \A s \in Sess : txn[r].rows[s] # None => PendingRow(r, s)
              /\ \A p \in Pair : txn[r].hist[p] # None => PendingEntry(r, p)

\* A login has not lost sight of any session it has to supersede.
Superseding(r) ==
    job[r].op = "login" => \A s \in job[r].prior :
        /\ row[s] # None
        /\ row[s].rexp > job[r].at
        /\ job[r].pc = "list" => row[s].user = txn[r].rows[job[r].sess].user
        /\ \/ job[r].pc = "list"
           \/ Revoked(row[s])
           \/ txn[r].rows[s] # None /\ Revoked(txn[r].rows[s])
           \/ job[r].pc \in {"update", "archive"} /\ s \in job[r].todo

Local(r) == Memory(r) /\ Place(r) /\ Pending(r) /\ Superseding(r)

\* No two requests hold the same lock or are given the same new pair.
Apart == \A q, r \in Req : q # r =>
           /\ \A s \in Sess : txn[q].rows[s] = None \/ txn[r].rows[s] = None
           /\ \A p \in Pair : txn[q].hist[p] = None \/ txn[r].hist[p] = None
           /\ job[q].new # None => job[q].new # job[r].new

IInv == /\ TypeOK
        /\ Stored
        /\ Apart
        /\ \A r \in Req : Local(r)
===============================================================================
