------------------------------- MODULE Sessions -------------------------------
(***************************************************************************)
(* Login sessions and token rotation of the administration backend         *)
(* (app/services/session.py, app/repositories/session.py and the endpoints *)
(* that call them), as concurrent requests over one PostgreSQL database    *)
(* at READ COMMITTED.                                                      *)
(*                                                                         *)
(* A request owns one transaction.  Each action is one SQL statement, so   *)
(* other requests interleave wherever the code awaits the database.  Rows  *)
(* are read into the request's memory (seen) and never refreshed; writes   *)
(* stay in the transaction (txn) until Commit publishes them, and the      *)
(* transaction of a request that raises is rolled back by get_db.  An      *)
(* uncommitted write is also the lock other writers of that row or of that *)
(* unique key wait for.                                                    *)
(*                                                                         *)
(* One element of Pair stands for an access token and the refresh token    *)
(* issued with it: they are generated, stored and rotated together.  The   *)
(* column revoked_at is present iff reason is not "NONE", as the CHECK     *)
(* revocation_fields_consistent demands.  last_active_at is left out.      *)
(***************************************************************************)
EXTENDS Integers, FiniteSets

CONSTANTS User, Sess, Pair, Req, None,
          Protected,      \* users holding SUPER_ADMIN
          AccessTTL,      \* ACCESS_TOKEN_TTL
          RefreshTTL,     \* REFRESH_TOKEN_TTL
          MaxNow          \* bound on the clock

Reason == {"NONE", "LOGOUT", "ADMIN_REVOKE", "REVOKE_ALL", "TOKEN_REUSE_DETECTED",
           "SUPERSEDED"}

\* A row of sessions, and a row of session_refresh_token_history.
Row   == [user : User, pair : Pair, reason : Reason, exp : Nat, rexp : Nat]
Entry == [sess : Sess, why : {"ROTATED", "SESSION_REVOKED"}]

ASSUME TTLAssumption == /\ AccessTTL \in Nat \ {0}
                        /\ RefreshTTL \in Nat
                        /\ AccessTTL <= RefreshTTL
                        /\ MaxNow \in Nat

ASSUME NoneAssumption == /\ None \notin Row
                         /\ None \notin Entry
                         /\ None \notin Sess
                         /\ None \notin Pair

ASSUME ProtectedAssumption == Protected \subseteq User

VARIABLES now,      \* the wall clock, utc_now()
          active,   \* the users whose status is ACTIVE
          row,      \* the committed sessions table
          hist,     \* the committed history of retired refresh tokens
          issued,   \* for each pair, the session it was handed out for
          alarms,   \* sessions with an AUTH_TOKEN_REUSE_DETECTED audit event
          job,      \* what each request is doing and has read
          txn       \* the uncommitted writes of each request

vars == <<now, active, row, hist, issued, alarms, job, txn>>
db   == <<row, hist, issued, alarms>>

Op == {"none", "login", "refresh", "logout", "revoke", "revokeAll", "auth"}
PC == {"idle", "list", "update", "archive", "retired", "user", "retire",
       "rotate", "touch", "serve", "commit", "abort", "alarm"}

Job == [op : Op, pc : PC, tok : Pair \union {None}, sess : Sess \union {None},
        cur : Sess \union {None}, new : Pair \union {None}, at : Nat,
        todo : SUBSET Sess, seen : [Sess -> Row \union {None}],
        prior : SUBSET Sess]

Txn == [rows : [Sess -> Row \union {None}], hist : [Pair -> Entry \union {None}]]

Blank == [op |-> "none", pc |-> "idle", tok |-> None, sess |-> None,
          cur |-> None, new |-> None, at |-> 0, todo |-> {},
          seen |-> [s \in Sess |-> None], prior |-> {}]

Clean == [rows |-> [s \in Sess |-> None], hist |-> [p \in Pair |-> None]]

TypeOK == /\ now \in 0..MaxNow
          /\ active \in SUBSET User
          /\ row \in [Sess -> Row \union {None}]
          /\ hist \in [Pair -> Entry \union {None}]
          /\ issued \in [Pair -> Sess \union {None}]
          /\ alarms \in SUBSET Sess
          /\ job \in [Req -> Job]
          /\ txn \in [Req -> Txn]

-------------------------------------------------------------------------------
\* Predicates on a row.

Revoked(x)        == x.reason # "NONE"
AccessExpired(x, t)  == t >= x.exp
RefreshExpired(x, t) == t >= x.rexp
Valid(x, t)       == ~Revoked(x) /\ x.rexp > t      \* session_valid_condition

ValidOf(u, t) == {s \in Sess : row[s] # None /\ row[s].user = u /\ Valid(row[s], t)}

CurrentOf(p) == {s \in Sess : row[s] # None /\ row[s].pair = p}

NewRow(u, p, t) == [user |-> u, pair |-> p, reason |-> "NONE",
                    exp |-> t + AccessTTL, rexp |-> t + RefreshTTL]

Earlier(a, b) == IF a <= b THEN a ELSE b

\* Seeded fault: the new access token keeps its nominal life at the session's end.
UncappedExpiry(t, rexp) == t + AccessTTL

RotatedExpiry(t, rexp) == Earlier(t + AccessTTL, rexp)

\* Rows and history keys another transaction has written and not yet ended.
RowFree(r, s) == \A q \in Req \ {r} : txn[q].rows[s] = None
KeyFree(r, p) == \A q \in Req \ {r} : txn[q].hist[p] = None

FreshSess == {s \in Sess : row[s] = None /\ \A q \in Req : txn[q].rows[s] = None}

\* generate_token: a value nobody holds, nobody is being given and nobody presents.
FreshPair == {p \in Pair : /\ issued[p] = None
                           /\ \A q \in Req : job[q].new # p /\ job[q].tok # p}

-------------------------------------------------------------------------------
\* Moves of a request.

Idle(r)     == job[r].pc = "idle"
At(r, l)    == job[r].pc = l
Start(r, j) == Idle(r) /\ job' = [job EXCEPT ![r] = j]
Goto(r, l)  == job' = [job EXCEPT ![r].pc = l]

\* Leave the handler: the request's memory and its transaction are gone.
End(r) == /\ job' = [job EXCEPT ![r] = Blank]
          /\ txn' = [txn EXCEPT ![r] = Clean]

\* INSERT INTO session_refresh_token_history ... ON CONFLICT DO NOTHING.
Insert(r, p, e) ==
    /\ KeyFree(r, p)
    /\ txn' = IF hist[p] = None /\ txn[r].hist[p] = None
                THEN [txn EXCEPT ![r].hist[p] = e] ELSE txn

-------------------------------------------------------------------------------
\* Login: the new session first, then the user's other valid sessions.

BeginLogin(r, u) ==
    /\ u \in active
    /\ \E s \in FreshSess, p \in FreshPair :
         /\ Start(r, [Blank EXCEPT !.op = "login", !.pc = "list", !.sess = s,
                                   !.new = p, !.at = now, !.prior = ValidOf(u, now)])
         /\ txn' = [txn EXCEPT ![r].rows[s] = NewRow(u, p, now)]
    /\ UNCHANGED <<now, active, db>>

\* Take the sessions in S, as read now, as the ones to revoke.
Victims(S) == [s \in Sess |-> IF s \in S THEN row[s] ELSE None]

ListOthers(r) ==
    /\ At(r, "list")
    /\ LET S == ValidOf(txn[r].rows[job[r].sess].user, job[r].at)
       IN  \/ /\ S = {}
              /\ Goto(r, "commit")
           \/ \E s \in S :
                job' = [job EXCEPT ![r].pc = "update", ![r].todo = S,
                                   ![r].cur = s, ![r].seen = Victims(S)]
    /\ UNCHANGED <<now, active, db, txn>>

-------------------------------------------------------------------------------
\* Ending sessions: revoke_and_retire, one session of the list after the other.

RevokeReason(r) == CASE job[r].op = "login"   -> "SUPERSEDED"
                     [] job[r].op = "logout"  -> "LOGOUT"
                     [] job[r].op = "refresh" -> "TOKEN_REUSE_DETECTED"
                     [] OTHER                 -> "ADMIN_REVOKE"

\* Seeded fault: UPDATE ... SKIP LOCKED, a session in use is left alone.
RevokeSkipLocked(r) ==
    /\ At(r, "update")
    /\ LET s == job[r].cur
       IN  txn' = IF RowFree(r, s)
                    THEN [txn EXCEPT ![r].rows[s] = [row[s] EXCEPT !.reason = RevokeReason(r)]]
                    ELSE txn
    /\ Goto(r, "archive")
    /\ UNCHANGED <<now, active, db>>

\* UPDATE sessions SET revoked_at, revoke_reason WHERE id: it waits for the row
\* lock and then writes, whatever the row has become since it was read.
Revoke(r) ==
    /\ At(r, "update")
    /\ LET s == job[r].cur
       IN  /\ RowFree(r, s)
           /\ txn' = [txn EXCEPT ![r].rows[s] = [row[s] EXCEPT !.reason = RevokeReason(r)]]
    /\ Goto(r, "archive")
    /\ UNCHANGED <<now, active, db>>

\* Seeded fault: the loop over the sessions does not move on.
ArchiveSame(r) ==
    /\ At(r, "archive")
    /\ Insert(r, job[r].seen[job[r].cur].pair, [sess |-> job[r].cur, why |-> "SESSION_REVOKED"])
    /\ Goto(r, "update")
    /\ UNCHANGED <<now, active, db>>

Archive(r) ==
    /\ At(r, "archive")
    /\ LET s    == job[r].cur
           rest == job[r].todo \ {s}
       IN  /\ Insert(r, job[r].seen[s].pair, [sess |-> s, why |-> "SESSION_REVOKED"])
           /\ IF rest = {}
                THEN job' = [job EXCEPT ![r].todo = {},
                                        ![r].pc = IF job[r].op = "refresh" THEN "alarm"
                                                                           ELSE "commit"]
                ELSE \E n \in rest : job' = [job EXCEPT ![r].todo = rest, ![r].cur = n,
                                                        ![r].pc = "update"]
    /\ UNCHANGED <<now, active, db>>

\* A request that has read session s and is about to revoke it, unless its copy
\* says that somebody already has.
Ending(op, p, s) == [Blank EXCEPT !.op = op, !.tok = p, !.sess = s, !.cur = s, !.at = now,
                                  !.todo = {s}, !.seen = Victims({s}),
                                  !.pc = IF Revoked(row[s]) THEN "commit" ELSE "update"]

\* Logout does not look at expiry; an unknown token answers "already revoked".
BeginLogout(r, p) ==
    /\ \E s \in CurrentOf(p) : Start(r, Ending("logout", p, s))
    /\ UNCHANGED <<now, active, db, txn>>

BeginRevoke(r, s) ==
    /\ row[s] # None
    /\ row[s].user \notin Protected
    /\ Start(r, Ending("revoke", None, s))
    /\ UNCHANGED <<now, active, db, txn>>

BeginRevokeAll(r, u) ==
    /\ u \notin Protected
    /\ \E s \in ValidOf(u, now) :
         Start(r, [Blank EXCEPT !.op = "revokeAll", !.pc = "update", !.at = now, !.cur = s,
                                !.todo = ValidOf(u, now), !.seen = Victims(ValidOf(u, now))])
    /\ UNCHANGED <<now, active, db, txn>>

-------------------------------------------------------------------------------
\* Refresh: look the token up, archive it, then compare-and-swap the pair.  The new
\* pair, which nobody sees before the commit, is drawn when the request begins, so
\* that a bounded Pair limits how many refreshes begin and never blocks one halfway.

BeginRefresh(r, p) ==
    /\ LET j == [Blank EXCEPT !.op = "refresh", !.tok = p, !.at = now]
       IN  \/ /\ CurrentOf(p) = {}
              /\ Start(r, [j EXCEPT !.pc = "retired"])
           \/ \E s \in CurrentOf(p), q \in FreshPair \ {p} :
                Start(r, [j EXCEPT !.sess = s, !.seen = Victims({s}), !.new = q,
                                   !.pc = IF Revoked(row[s]) \/ RefreshExpired(row[s], now)
                                            THEN "abort" ELSE "user"])
    /\ UNCHANGED <<now, active, db, txn>>

\* The token is nobody's current one: stolen, if it was rotated away from a
\* session that is still alive.
LookupRetired(r) ==
    /\ At(r, "retired")
    /\ LET e == hist[job[r].tok]
       IN  IF e # None /\ e.why = "ROTATED" /\ ~Revoked(row[e.sess])
             THEN job' = [job EXCEPT ![r].pc = "update", ![r].sess = e.sess,
                                     ![r].cur = e.sess, ![r].todo = {e.sess},
                                     ![r].seen = Victims({e.sess})]
             ELSE Goto(r, "abort")
    /\ UNCHANGED <<now, active, db, txn>>

CheckUser(r) ==
    /\ At(r, "user")
    /\ Goto(r, IF job[r].seen[job[r].sess].user \notin active THEN "abort"
               ELSE IF job[r].op = "refresh" THEN "retire" ELSE "touch")
    /\ UNCHANGED <<now, active, db, txn>>

\* Seeded fault: the presented token is not archived.
RetireNothing(r) == /\ At(r, "retire")
                    /\ Goto(r, "rotate")
                    /\ UNCHANGED <<now, active, db, txn>>

\* The presented token enters the history before the new pair replaces it.
RetirePresented(r) ==
    /\ At(r, "retire")
    /\ Insert(r, job[r].tok, [sess |-> job[r].sess, why |-> "ROTATED"])
    /\ Goto(r, "rotate")
    /\ UNCHANGED <<now, active, db>>

\* Seeded faults: half of the WHERE clause is missing.
SwapsAnyPair(r) == ~Revoked(row[job[r].sess])
SwapsAnyLife(r) == row[job[r].sess].pair = job[r].seen[job[r].sess].pair

\* UPDATE ... WHERE id AND access_token_hash = <as read> AND revoked_at IS NULL:
\* after the wait for the row lock the condition is evaluated on the latest row.
Swaps(r) == LET s == job[r].sess
            IN  row[s].pair = job[r].seen[s].pair /\ ~Revoked(row[s])

Rotate(r) ==
    /\ At(r, "rotate")
    /\ LET s == job[r].sess
       IN  /\ RowFree(r, s)
           /\ IF Swaps(r)
                THEN /\ txn' = [txn EXCEPT ![r].rows[s] =
                                  [row[s] EXCEPT !.pair = job[r].new,
                                     !.exp = RotatedExpiry(job[r].at, job[r].seen[s].rexp)]]
                     /\ Goto(r, "commit")
                ELSE /\ job' = [job EXCEPT ![r].pc = "update", ![r].cur = s, ![r].todo = {s}]
                     /\ UNCHANGED txn
    /\ UNCHANGED <<now, active, db>>

-------------------------------------------------------------------------------
\* Any other request: authenticate, touch, serve.

BeginAuth(r, p) ==
    /\ \E s \in CurrentOf(p) :
         Start(r, [Blank EXCEPT !.op = "auth", !.tok = p, !.sess = s, !.at = now,
                                !.seen = Victims({s}),
                                !.pc = IF \/ Revoked(row[s])
                                          \/ AccessExpired(row[s], now)
                                          \/ RefreshExpired(row[s], now)
                                         THEN "abort" ELSE "user"])
    /\ UNCHANGED <<now, active, db, txn>>

\* Only last_active_at changes, at most once a minute: whether this request
\* writes (and so locks) the row is left open.
Touch(r) ==
    /\ At(r, "touch")
    /\ \/ UNCHANGED txn
       \/ /\ RowFree(r, job[r].sess)
          /\ txn' = [txn EXCEPT ![r].rows[job[r].sess] = row[job[r].sess]]
    /\ Goto(r, "serve")
    /\ UNCHANGED <<now, active, db>>

\* Endpoints that write commit; the reading ones let the transaction go.
Serve(r) ==
    /\ At(r, "serve")
    /\ \E l \in {"commit", "abort"} : Goto(r, l)
    /\ UNCHANGED <<now, active, db, txn>>

-------------------------------------------------------------------------------
\* The end of a request.

Commit(r) ==
    /\ At(r, "commit")
    /\ row'  = [s \in Sess |-> IF txn[r].rows[s] # None THEN txn[r].rows[s] ELSE row[s]]
    /\ hist' = [p \in Pair |-> IF txn[r].hist[p] # None THEN txn[r].hist[p] ELSE hist[p]]
    /\ issued' = [p \in Pair |-> IF p = job[r].new THEN job[r].sess ELSE issued[p]]
    /\ End(r)
    /\ UNCHANGED <<now, active, alarms>>

\* AuthenticationError propagates through get_db, which rolls back.
Abort(r) ==
    /\ At(r, "abort")
    /\ End(r)
    /\ UNCHANGED <<now, active, db>>

\* The same after _revoke_for_reuse; its audit event has a transaction of its own.
AbortWithAlarm(r) ==
    /\ At(r, "alarm")
    /\ alarms' = alarms \union {job[r].sess}
    /\ End(r)
    /\ UNCHANGED <<now, active, row, hist, issued>>

\* The client disconnects, a statement fails, the process dies, or PostgreSQL
\* picks this transaction as the victim of a lock cycle.
Cancel(r) ==
    /\ ~Idle(r)
    /\ End(r)
    /\ UNCHANGED <<now, active, db>>

-------------------------------------------------------------------------------
\* The world around the requests.

Tick == /\ now < MaxNow
        /\ now' = now + 1
        /\ UNCHANGED <<active, db, job, txn>>

\* An administrator disables or enables an account (UserService._change_status).
ChangeStatus(u) ==
    /\ active' = IF u \in active THEN active \ {u} ELSE active \union {u}
    /\ UNCHANGED <<now, db, job, txn>>

Init == /\ now = 0
        /\ active = User
        /\ row = [s \in Sess |-> None]
        /\ hist = [p \in Pair |-> None]
        /\ issued = [p \in Pair |-> None]
        /\ alarms = {}
        /\ job = [r \in Req |-> Blank]
        /\ txn = [r \in Req |-> Clean]

Begin(r) == \/ \E u \in User : BeginLogin(r, u) \/ BeginRevokeAll(r, u)
            \/ \E p \in Pair : BeginLogout(r, p) \/ BeginRefresh(r, p) \/ BeginAuth(r, p)
            \/ \E s \in Sess : BeginRevoke(r, s)

Step(r) == \/ ListOthers(r)
           \/ Revoke(r)
           \/ Archive(r)
           \/ LookupRetired(r)
           \/ CheckUser(r)
           \/ RetirePresented(r)
           \/ Rotate(r)
           \/ Touch(r)
           \/ Serve(r)
           \/ Commit(r)
           \/ Abort(r)
           \/ AbortWithAlarm(r)

Next == \/ \E r \in Req : Begin(r) \/ Step(r) \/ Cancel(r)
        \/ Tick
        \/ \E u \in User : ChangeStatus(u)

Spec == Init /\ [][Next]_vars

-------------------------------------------------------------------------------
\* Scheduling.  A request goes on until it is answered: the event loop resumes
\* it when its statement returns.  PostgreSQL queues the waiters of a lock, so a
\* statement that can run again and again runs (SF); and it breaks every cycle of
\* waits by aborting a transaction of it.

\* The row and the key the next statement of r writes.
NextRow(r) == IF At(r, "update") THEN {job[r].cur}
              ELSE IF At(r, "rotate") THEN {job[r].sess} ELSE {}
NextKey(r) == IF At(r, "archive") THEN {job[r].seen[job[r].cur].pair}
              ELSE IF At(r, "retire") THEN {job[r].tok} ELSE {}

WaitsFor(r, q) == /\ r # q
                  /\ \/ \E s \in NextRow(r) : txn[q].rows[s] # None
                     \/ \E p \in NextKey(r) : txn[q].hist[p] # None

\* r is on a cycle of waits: a statement waits for one transaction at a time.
Deadlocked(r) == \E C \in SUBSET Req :
                    /\ r \in C
                    /\ \A q \in C : /\ \E q2 \in C : WaitsFor(q, q2)
                                    /\ \E q2 \in C : WaitsFor(q2, q)

BreakDeadlock(r) == Deadlocked(r) /\ Cancel(r)

Fairness == \A r \in Req : SF_vars(Step(r)) /\ WF_vars(BreakDeadlock(r))

FairSpec == Spec /\ Fairness

-------------------------------------------------------------------------------
\* Properties that hold.

\* Revocation is final: once a session's revocation is committed, no later commit
\* makes it valid again, moves it to another token pair or extends it, whatever
\* the requests in flight had read (SessionRepository.revoke, rotate_tokens).
RevokedIsFinal ==
    [][\A s \in Sess : row[s] # None /\ Revoked(row[s]) =>
          /\ row'[s] # None
          /\ Revoked(row'[s])
          /\ row'[s].pair = row[s].pair
          /\ row'[s].exp = row[s].exp]_vars

\* A rotation replaces exactly the pair its request presented, with the pair that
\* request was given: two refreshes of one token cannot both win (rotate_tokens).
RotatedByHolder ==
    [][\A s \in Sess : row[s] # None /\ row'[s] # None /\ row'[s].pair # row[s].pair =>
          \E r \in Req : /\ job[r].op = "refresh"
                         /\ job[r].tok = row[s].pair
                         /\ job[r].new = row'[s].pair
                         /\ issued'[job[r].new] = s]_vars

\* Every pair ever handed out is either the current one of its session or in the
\* history as rotated, never both and never neither: a replayed refresh token is
\* always recognised as such (RetirePresented before Rotate, in one transaction).
HandedOutIsTracked ==
    \A p \in Pair : issued[p] # None =>
        LET rotated == hist[p] = [sess |-> issued[p], why |-> "ROTATED"]
        IN  (row[issued[p]].pair = p) # rotated

\* The reason of a history entry is the first one recorded: whoever comes second,
\* a rotation or a revocation, changes nothing (record_retired_refresh_token).
HistoryIsAppendOnly ==
    [][\A p \in Pair : hist[p] # None => hist'[p] = hist[p]]_vars

\* When a login is about to answer, every session of the account that was valid
\* when it began is revoked, by it or by somebody else (SessionService.create).
LoginSupersedes ==
    \A r \in Req : job[r].op = "login" /\ At(r, "commit") =>
        \A s \in job[r].prior :
            Revoked(IF txn[r].rows[s] # None THEN txn[r].rows[s] ELSE row[s])

\* No row, committed or about to be, outlives the fixed life of its session: the
\* CHECK refresh_expires_at >= expires_at never fires, and rotation does not slide
\* the end of the session (rotated_access_expiry).
LifeIsFixed ==
    /\ \A s \in Sess : row[s] # None => row[s].exp <= row[s].rexp
    /\ \A r \in Req, s \in Sess : txn[r].rows[s] # None =>
         /\ txn[r].rows[s].exp <= txn[r].rows[s].rexp
         /\ row[s] # None => txn[r].rows[s].rexp = row[s].rexp

\* The session component does what SessionLife promises.
Life == INSTANCE SessionLife WITH
    phase  <- [s \in Sess |-> IF row[s] = None THEN "absent"
                              ELSE IF Revoked(row[s]) THEN "revoked" ELSE "live"],
    holder <- [s \in Sess |-> IF row[s] = None THEN None ELSE row[s].pair],
    spent  <- {p \in Pair : issued[p] # None /\ row[issued[p]].pair # p}

LifeSpec == Life!Spec

\* Every request is answered, however the requests block one another.
EveryRequestEnds == \A r \in Req : []<>Idle(r)

-------------------------------------------------------------------------------
\* Promises of the comments that the code does not keep.

\* "At any moment an account has at most one valid session."
OneValidSession == \A u \in User : Cardinality(ValidOf(u, now)) <= 1

\* "Judged stolen, and the whole session is revoked."
ReuseRevokes == \A s \in alarms : Revoked(row[s])
===============================================================================
