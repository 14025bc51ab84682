-------------------------------- MODULE Notices --------------------------------
(***************************************************************************)
(* Inboxes: announcements that are sent to everybody or to the holders of  *)
(* a role and may be revoked, messages about a change of one's account,    *)
(* and what their readers have read (app/services/notification.py,         *)
(* app/repositories/notification.py, app/services/user.py _change_status). *)
(*                                                                         *)
(* A request remembers what it has read (names, copy), collects its writes *)
(* (txn), which lock the rows they touch, and publishes them with Commit.  *)
(* The ORM writes by primary key what differs from its copy; the two bulk  *)
(* updates look at each row again when they have its lock.                 *)
(*                                                                         *)
(* An audience is the set of users that have the role directly; it does    *)
(* not change here (module Roles).  Lists and counts, contents, who may    *)
(* announce, the last SUPER_ADMIN (Roles), and the messages of a login, a  *)
(* new password and new roles, sent like those here, are left out.         *)
(***************************************************************************)
EXTENDS Naturals, FiniteSets

CONSTANTS User,
          Ann, Event,       \* identifiers of announcements, and of messages about accounts;
                            \* they bound how many there are
          Req, None,
          MaxRequests       \* bound on the requests of a behaviour

Population == IsFiniteSet(User) /\ Ann \intersect Event = {} /\ MaxRequests \in Nat

VARIABLES active,    \* admin_users: status ACTIVE
          posted,    \* announcements: not there, live, revoked
          sent,      \* announcements: recipient_count
          inbox,     \* notifications: the row by which a user is told something
          begun, job, txn

vars == <<active, posted, sent, inbox, begun, job, txn>>

Key   == (Ann \union Event) \X User
State == {"none", "live", "gone"}
Row   == [state : State, read : 0..MaxRequests]     \* read_at: which request read it, or 0

NoWrite == [active |-> <<>>, posted |-> <<>>, sent |-> <<>>, inbox |-> <<>>]
Idle    == [op |-> "none", pc |-> "idle", user |-> None, key |-> None, was |-> FALSE,
            on |-> FALSE, to |-> {}, names |-> {}, when |-> 0, stale |-> FALSE]

Maps(f, S, T) == DOMAIN f \subseteq S /\ \A x \in DOMAIN f : f[x] \in T

Txn(t) == /\ t = [active |-> t.active, posted |-> t.posted, sent |-> t.sent, inbox |-> t.inbox]
          /\ Maps(t.active, User, BOOLEAN) /\ Maps(t.posted, Ann, State)
          /\ Maps(t.sent, Ann, 0..Cardinality(User)) /\ Maps(t.inbox, Key, Row)
Job == [op : {"none", "status", "announce", "revoke", "read", "readAll"},
        pc : {"idle", "status", "tell", "insert", "purge", "withdraw", "mark", "commit"},
        user : User \union {None}, key : Ann \union Key \union {None},
        was : BOOLEAN, on : BOOLEAN, to : SUBSET User, names : SUBSET User,
        when : 0..MaxRequests, stale : BOOLEAN]

TypeOK == /\ active \in [User -> BOOLEAN] /\ posted \in [Ann -> State]
          /\ sent \in [Ann -> 0..Cardinality(User)] /\ inbox \in [Key -> Row]
          /\ begun \in 0..MaxRequests /\ job \in [Req -> Job]
          /\ txn = [r \in Req |-> txn[r]] /\ \A r \in Req : Txn(txn[r])

Init == /\ active \in [User -> BOOLEAN]
        /\ posted = [n \in Ann |-> "none"] /\ sent = [n \in Ann |-> 0]
        /\ inbox = [k \in Key |-> [state |-> "none", read |-> 0]]
        /\ begun = 0
        /\ job = [r \in Req |-> Idle] /\ txn = [r \in Req |-> NoWrite]

-------------------------------------------------------------------------------
tables == <<active, posted, sent, inbox>>

At(r, pc) == job[r].pc = pc

Begin(r, j) == /\ At(r, "idle") /\ begun < MaxRequests
               /\ begun' = begun + 1
               /\ job' = [job EXCEPT ![r] = [j EXCEPT !.when = begun']]

Goto(r, pc) == job' = [job EXCEPT ![r].pc = pc]

\* Rows that another transaction has touched and not yet published.
Held(r, table) == UNION {DOMAIN txn[q][table] : q \in Req \ {r}}

\* A statement writes rows once it has all their locks; no request writes a
\* table twice.
Write(r, table, rows) == /\ DOMAIN rows \intersect Held(r, table) = {}
                         /\ txn' = [txn EXCEPT ![r][table] = rows]
                         /\ UNCHANGED tables

To(S, v) == [x \in S |-> v]

Over(new, old) == [x \in DOMAIN old |-> IF x \in DOMAIN new THEN new[x] ELSE old[x]]

-------------------------------------------------------------------------------
\* A user is disabled or enabled, and told of it if his status was another.
BeginStatus(r, u, on) ==
    /\ Begin(r, [Idle EXCEPT !.op = "status", !.pc = "status", !.user = u, !.on = on,
                             !.was = active[u]])
    /\ UNCHANGED <<tables, txn>>

WriteStatus(r) ==
    LET j == job[r]
    IN  /\ At(r, "status")
        /\ Write(r, "active", To(IF j.was = j.on THEN {} ELSE {j.user}, j.on))
        /\ Goto(r, IF j.was = j.on THEN "commit" ELSE "tell")
        /\ UNCHANGED begun

\* publish_system_event, in the transaction of the change.
Tell(r) ==
    /\ At(r, "tell")
    /\ \E e \in Event :
         /\ \A u \in User : inbox[e, u].state = "none" /\ <<e, u>> \notin Held(r, "inbox")
         /\ Write(r, "inbox", To({<<e, job[r].user>>}, [state |-> "live", read |-> 0]))
    /\ Goto(r, "commit")
    /\ UNCHANGED begun

-------------------------------------------------------------------------------
\* resolve_audience_user_ids
Audience(S) == {u \in S : active[u]}

\* The recipients are read; then come the announcement and a row for each.
BeginAnnounce(r, n, S) ==
    /\ posted[n] = "none" /\ \A q \in Req : job[q].key # n
    /\ Begin(r, [Idle EXCEPT !.op = "announce", !.pc = "insert", !.key = n, !.to = S,
                             !.names = Audience(S)])
    /\ UNCHANGED <<tables, txn>>

FanOut(r) ==
    LET n    == job[r].key
        rows == To({n} \X job[r].names, [state |-> "live", read |-> 0])
    IN  /\ At(r, "insert")
        /\ txn' = [txn EXCEPT ![r] = [@ EXCEPT !.posted = To({n}, "live"), !.inbox = rows,
                                       !.sent = To({n}, Cardinality(job[r].names))]]
        /\ Goto(r, "commit")
        /\ UNCHANGED <<tables, begun>>

BeginRevoke(r, n) ==
    /\ posted[n] = "live"
    /\ Begin(r, [Idle EXCEPT !.op = "revoke", !.pc = "purge", !.key = n])
    /\ UNCHANGED <<tables, txn>>

\* Seeded fault: what has been read is left in the inbox.
UnreadOf(n) == {k \in {n} \X User : inbox[k].state = "live" /\ inbox[k].read = 0}

\* The rows that purge_for_announcement finds,
RowsOf(n) == {k \in {n} \X User : inbox[k].state = "live"}

\* and takes out of the inboxes, read or not.
Purge(r) ==
    /\ At(r, "purge")
    /\ Write(r, "inbox", [k \in RowsOf(job[r].key) |-> [inbox[k] EXCEPT !.state = "gone"]])
    /\ Goto(r, "withdraw")
    /\ UNCHANGED begun

Withdraw(r) ==
    /\ At(r, "withdraw")
    /\ Write(r, "posted", To({job[r].key}, "gone"))
    /\ Goto(r, "commit")
    /\ UNCHANGED begun

-------------------------------------------------------------------------------
\* get_for_user; a notice that has been read is left as it is.
BeginRead(r, k) ==
    /\ inbox[k].state = "live"
    /\ Begin(r, [Idle EXCEPT !.op = "read", !.key = k,
                             !.pc = IF inbox[k].read = 0 THEN "mark" ELSE "commit"])
    /\ UNCHANGED <<tables, txn>>

\* One column by primary key, whatever the row has become since it was read.
MarkRead(r) ==
    LET k == job[r].key
    IN  /\ At(r, "mark")
        /\ Write(r, "inbox", To({k}, [inbox[k] EXCEPT !.read = job[r].when]))
        /\ Goto(r, "commit")
        /\ UNCHANGED begun

\* mark_all_read is one UPDATE; until it has its rows nothing has happened.
MarkAllRead(r, u) ==
    LET mine == {k \in Key : k[2] = u /\ inbox[k].state = "live" /\ inbox[k].read = 0}
    IN  /\ Begin(r, [Idle EXCEPT !.op = "readAll", !.pc = "commit", !.user = u])
        /\ Write(r, "inbox", [k \in mine |-> [inbox[k] EXCEPT !.read = begun']])

-------------------------------------------------------------------------------
\* The endpoint commits; every other request in progress is stale.
Commit(r) ==
    /\ At(r, "commit")
    /\ active' = Over(txn[r].active, active) /\ posted' = Over(txn[r].posted, posted)
    /\ sent' = Over(txn[r].sent, sent) /\ inbox' = Over(txn[r].inbox, inbox)
    /\ txn' = [txn EXCEPT ![r] = NoWrite]
    /\ job' = [q \in Req |-> IF q = r THEN Idle
                             ELSE [job[q] EXCEPT !.stale = job[q].pc # "idle"]]
    /\ UNCHANGED begun

Next == \E r \in Req :
    \/ \E u \in User : MarkAllRead(r, u) \/ \E on \in BOOLEAN : BeginStatus(r, u, on)
    \/ \E n \in Ann : BeginRevoke(r, n) \/ \E S \in SUBSET User : BeginAnnounce(r, n, S)
    \/ \E k \in Key : BeginRead(r, k)
    \/ WriteStatus(r) \/ Tell(r) \/ FanOut(r) \/ Purge(r) \/ Withdraw(r)
    \/ MarkRead(r) \/ Commit(r)

Spec == Init /\ [][Next]_vars

-------------------------------------------------------------------------------
\* What a request promises that no other commit has disturbed.
New(u) == {e \in Event : inbox[e, u].state = "none" /\ inbox'[e, u].state = "live"}

Done(j) ==
    /\ j.op = "status" =>
         active'[j.user] = j.on /\ Cardinality(New(j.user)) = IF active[j.user] = j.on THEN 0 ELSE 1
    /\ j.op = "announce" =>
         \A u \in User : inbox'[j.key, u].state = "live" <=> u \in j.to /\ active[u]
    /\ j.op = "read" => inbox'[j.key].read # 0
    /\ j.op = "readAll" =>
         \A k \in Key : k[2] = j.user /\ inbox[k].state = "live" => inbox'[k].read # 0
    /\ \A k \in Key : inbox[k].read # 0 => inbox'[k].read = inbox[k].read

\* A revoked announcement is in no inbox, and an announcement counts who was sent it.
Withdrawn(n) ==
    /\ posted[n] = "gone" => \A u \in User : inbox[n, u].state # "live"
    /\ Cardinality({u \in User : inbox[n, u].state # "none"}) = sent[n]

\* Nothing is unread again and nothing revoked comes back.
Final == \A k \in Key : /\ inbox[k].read # 0 => inbox'[k].read # 0
                        /\ inbox[k].state = "gone" => inbox'[k].state = "gone"

\* Who overlaps with no other commit has done what it was asked for.
Served == \A r \in Req : At(r, "commit") /\ job'[r].pc = "idle" /\ ~job[r].stale => Done(job[r])

\* A revoked announcement is in no inbox, whatever readers and administrators do
\* at the time, and an announcement counts who was sent it (NotificationService,
\* announce and revoke_announcement); nothing is unread again and nothing revoked
\* comes back; and a request that overlaps with no other commit reaches whom it
\* should, tells a user of each change of his status once, and leaves the time of
\* a first reading alone (mark_read).
InboxIsKept == [](\A n \in Ann : Withdrawn(n)) /\ [][Final]_vars /\ [][Served]_vars

-------------------------------------------------------------------------------
\* The inductive invariant of all three: IInv.

Withdrawals == \A n \in Ann : Withdrawn(n)

\* A row belongs to an announcement that was published, or to a message.
Tables ==
    /\ \A k \in Key : inbox[k].state = "none" => inbox[k].read = 0
    /\ \A n \in Ann, u \in User : posted[n] = "none" => inbox[n, u].state = "none"

\* Where a request is, and what stays true of its announcement or row.
Phase(r) ==
    LET j == job[r]
    IN  \/ j.pc = "idle"
        \/ /\ j.op = "status" /\ j.pc \in {"status", "tell", "commit"}
           /\ j.user \in User /\ (j.pc = "tell" => j.was # j.on)
        \/ /\ j.op = "announce" /\ j.pc \in {"insert", "commit"}
           /\ j.key \in Ann /\ posted[j.key] = "none"
        \/ /\ j.op = "revoke" /\ j.pc \in {"purge", "withdraw", "commit"}
           /\ j.key \in Ann /\ posted[j.key] # "none"
        \/ /\ j.op = "read" /\ j.pc \in {"mark", "commit"} /\ j.when # 0
           /\ j.key \in Key /\ inbox[j.key].state # "none"
        \/ j.op = "readAll" /\ j.pc = "commit" /\ j.when # 0

\* What it has flushed to the small tables,
Flushed(r) ==
    LET j == job[r]
        t == txn[r]
    IN  /\ DOMAIN t.active = IF j.op = "status" /\ j.pc \in {"tell", "commit"} /\ j.was # j.on
                               THEN {j.user} ELSE {}
        /\ \A u \in DOMAIN t.active : t.active[u] = j.on
        /\ DOMAIN t.posted = IF j.op \in {"announce", "revoke"} /\ j.pc = "commit" THEN {j.key} ELSE {}
        /\ \A n \in DOMAIN t.posted : t.posted[n] = IF j.op = "announce" THEN "live" ELSE "gone"
        /\ DOMAIN t.sent = IF j.op = "announce" /\ j.pc = "commit" THEN {j.key} ELSE {}
        /\ \A n \in DOMAIN t.sent : t.sent[n] = Cardinality(j.names)

\* and to the inboxes, which are as they were where it has written.
Letter == [state |-> "live", read |-> 0]

Wrote(j, t) ==
    /\ j.pc \in {"idle", "status", "tell", "insert", "purge", "mark"} => DOMAIN t = {}
    /\ j.op = "status" /\ j.was = j.on => DOMAIN t = {}
    /\ j.op = "status" /\ j.pc = "commit" /\ j.was # j.on =>
         \E e \in Event : /\ DOMAIN t = {<<e, j.user>>} /\ t[e, j.user] = Letter
                          /\ inbox[e, j.user].state = "none"
    /\ j.op = "announce" /\ j.pc = "commit" =>
         DOMAIN t = {j.key} \X j.names /\ \A k \in DOMAIN t : t[k] = Letter
    /\ j.op = "revoke" /\ j.pc \in {"withdraw", "commit"} =>
         /\ RowsOf(j.key) \subseteq DOMAIN t /\ DOMAIN t \subseteq {j.key} \X User
         /\ \A k \in DOMAIN t : inbox[k].state = "live" /\ t[k] = [inbox[k] EXCEPT !.state = "gone"]
    /\ j.op = "read" /\ j.pc = "commit" =>
         /\ DOMAIN t \subseteq {j.key} /\ (j.key \in DOMAIN t \/ inbox[j.key].read # 0)
         /\ \A k \in DOMAIN t : t[k] = [inbox[k] EXCEPT !.read = j.when]
    /\ j.op = "readAll" /\ j.pc = "commit" =>
         \A k \in DOMAIN t : /\ k[2] = j.user /\ t[k] = [inbox[k] EXCEPT !.read = j.when]
                             /\ inbox[k].state = "live" /\ inbox[k].read = 0

Written(r) == Wrote(job[r], txn[r].inbox)

\* What it knows as long as nobody else has committed.
Fresh(r) ==
    LET j == job[r]
        t == txn[r].inbox
    IN  /\ j.op = "status" => j.was = active[j.user]
        /\ j.op = "announce" => j.names = {u \in j.to : active[u]}
        /\ j.op = "read" /\ (j.pc = "mark" \/ j.key \in DOMAIN t) => inbox[j.key].read = 0
        /\ j.op = "readAll" =>
             \A k \in Key : k[2] = j.user /\ inbox[k].state = "live" /\ inbox[k].read = 0 => k \in DOMAIN t

Local(r) == Phase(r) /\ Flushed(r) /\ Written(r) /\ (job[r].pc # "idle" /\ ~job[r].stale => Fresh(r))

\* Two requests write no row of an inbox in common and publish different
\* announcements.
Apart(q, r) == /\ DOMAIN txn[q].inbox \intersect DOMAIN txn[r].inbox = {}
               /\ \/ job[q].pc = "idle" \/ job[r].pc = "idle"
                  \/ job[q].op # "announce" \/ job[r].op # "announce" \/ job[q].key # job[r].key

IInv == /\ TypeOK /\ Withdrawals /\ Tables
        /\ \A r \in Req : Local(r)
        /\ \A q, r \in Req : q # r => Apart(q, r)
===============================================================================
