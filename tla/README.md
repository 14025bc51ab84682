# Verification of the administration backend

TLA+ modules, model-checking configurations and machine-checked proofs for the
Python backend under `src/app` (FastAPI, SQLAlchemy, PostgreSQL at READ
COMMITTED, Redis). Paths below are relative to `src/app` unless they say
otherwise. `PROJECT.json` maps every definition of the models to the lines it
stands for.

## 1. Inventory

| Component | State | Operations | What makes it hard | What makes it correct |
|---|---|---|---|---|
| Login sessions (`services/session.py`, `services/session_management.py`, `repositories/session.py`) | `sessions`, `session_refresh_token_history` | login, refresh, logout, revoke, revoke all, authenticate | overlapping transactions that decide on stale copies; lock waits; rollback on every refusal | revocation is final; one refresh per token; every token handed out is recognised later; a login supersedes |
| Second factor and lockout (`services/auth.py`, `services/mfa_management.py`, `repositories/mfa.py`) | `user_mfa`, `mfa_challenges`, failure count and lock in `admin_users` | login, redeem, set up, enable, disable | writes of a refusal are rolled back; the ORM writes only changed columns of a stale copy | a challenge logs in once; an enabled secret was proven; a disabled credential keeps none |
| Log buffer (`audit/buffer.py`, `middleware/trace.py`) | buffer per request, fallback buffer, breaker, `dropped_logs`, log tables | record, finish, flush, shutdown | awaits inside the flush, time limit, cancellation, a silent database | nothing twice, nothing unaccounted, answers wait for the flush and never forever |
| Role expansion (`repositories/permission.py`) | inheritance edges | `ancestor_ids` | cycles, diamonds, depth limit | exactly the ancestors, or an error that is no false alarm |
| Role administration (`services/role.py`, `role_inheritance.py`, `user.py`, `authorization.py`) | `roles`, `role_inheritances`, `user_roles`, `admin_users`, `permission_versions` | grant, revoke, enable, disable, delete, assign | check-then-write without locks | every change has a version; no cycle; nothing referred to is deleted; a SUPER_ADMIN remains |
| Effective permissions (`services/effective_permission.py`, `permission_resource.py`, `role_permission.py`, `permission_contract.py`) | resources, grants, field levels, page mounts, version | create, change, delete a resource; replace grants; compute, judge | some ten statements at READ COMMITTED per computation | what was computed under one version is right as long as the version stands |
| Data scope and departments (`services/department.py`, `data_scope.py`, `role_data_scope.py`, `core/scope.py`, `repositories/scope_filters.py`) | department tree, where people belong, scopes of roles | move, delete, set scope, list, read and change users | two forms of one filter; moves that overlap | several scopes make their union; list and single read agree; nobody acts outside his scope |
| Passwords (`services/user.py`, `repositories/user.py`) | hash, `must_change_password`, `password_histories` | change, reset | two overlapping changes of one account | none of the last ones is used again |
| Rate limiting (`core/rate_limit.py`) | counters in Redis | hit, ttl | window boundaries, slow or failing back end, an answer that is lost and sent for again, whole seconds | no more than a bounded number per window; who is refused is told long enough, up to the rounding |
| Identifiers (`core/snowflake.py`) | last time, sequence | `next_id` | sequence overflow, clock set back | unique, increasing |
| Generated domains V3.1 (`crud/base.py`, `models/`, `schemas/v31_*`, `api/v1/endpoints/v31_*`) | 44 tables | create, read, page, update, delete | stale copies, partial unique indexes, a response built after the commit, pages under change | an update writes what it names; an error stores nothing; a deleted key is free; a walk misses nothing |
| Dictionaries (`services/dict.py`, `repositories/dict.py`) | dictionaries and items | create, change, delete | order of writes under unique indexes, cascade | one default; a deleted dictionary leaves no item |
| Notices (`services/notification.py`, `repositories/notification.py`) | announcements, inbox rows | announce, revoke, tell, mark as read | fan-out and revocation while readers mark | a revoked announcement is in no inbox |
| System parameters, log queries, statistics, session overview | their tables | edit, list | - | single-row edits and reads |
| Frontend (`src/frontend`) | tokens in the browser | single-flight refresh | several 401 at once | one refresh per token |
| Schemas, configuration, migrations, seeds | - | read at the start or run by hand | - | - |

How they interact. A request passes the trace middleware, which binds a log
buffer; `api/deps.py` authenticates it against `sessions` and checks its
permissions; the endpoint calls one service, which calls repositories over one
database session, and commits after the service has returned. A service that
refuses raises, and `get_db` (`db/session.py:65-77`) rolls back everything the
request wrote. Log records survive that: they go to the buffer, which is
written in a transaction of its own before the last part of the response.

The database runs at READ COMMITTED and the ORM objects are not refreshed
(`expire_on_commit=False`), which is what the models of sessions, second factor
and roles are about: a request remembers what it read, writes into a
transaction nobody else sees, waits for rows others have written, and publishes
all of it or nothing.

## 2. Modules

| Module | Models | Correspondence |
|---|---|---|
| `Sessions` | sessions and token rotation | `row`, `hist`: the two tables; `job[r]`: where request `r` is in its handler and what it has read (`seen` are ORM copies); `txn[r]`: its uncommitted writes, which are also the locks it holds. One action per SQL statement. `issued` and `alarms` record what clients and the audit trail have seen. |
| `SessionLife` | what sessions promise | absent, live, revoked; a pair per session; pairs that are spent |
| `SessionsInv`, `SessionsProofs` | the inductive invariant of `Sessions`, its theorems | |
| `SecondFactor` | password step, lock, challenge, credential | `lock`, `cred`, `chal`: columns of the rows; `txn[r]`: the columns the ORM sets. A code is the secret it was computed from. `granted`, `bad`, `shown` count what clients have seen. `MCSecondFactor` adds `together`: whether two requests have overlapped. |
| `SecondFactorProofs` | theorems about `SecondFactor` | |
| `AuditBuffer` | buffers, flush, breaker, middleware | `pending`: the fallback buffer; `job[a]`: the task of a request or of the shutdown (`Main`); timers count down; a cancelled task ends without being answered |
| `AuditBufferProofs` | theorems about `AuditBuffer` | |
| `RoleClosure` | expansion of roles | `rows`, `work`: the recursive query; `frontier`, `seen`: the walk over its rows, in any order |
| `Roles` | role administration | the four tables and the version; `txn[r]`, `job[r]` as above; `lock`: the version row, locked from `bump` to the commit |
| `RolesProofs` | theorems about `Roles` | |
| `Permissions` | resources, grants, effective permissions | `res`, `level`, `pages`: the tables; `roles`: who has which role, moving as in `Roles`; a reader (`contract`, `judge`) is a sequence of statements whose result is kept at pc `kept` |
| `PermissionsProofs` | theorems about `Permissions` and `RoleClosure` | the variables and definitions of `RoleClosure` have names of their own (`Called`, `Step`, `walking`, `Expansion`), so that one module can speak of both |
| `Organization` | departments, people, scopes | `dept`, `user`, `kind`, `custom`: the tables; `Resolved(u)`: the scope as the code merges it; `AllowsUser`/`AllowsDept`: the test in Python, `Listed`: the condition in SQL, `Admits`: the test `services/user.py` has of its own |
| `OrganizationProofs` | theorems about `Organization` | |
| `Passwords` | password and history of an account | `account`, `history`; a request decides on the copy it read |
| `RateLimit` | the limit on logins | a key is made, counted later, perhaps twice, and expires; `Whole` is the rounding of its remaining life; `passed` counts who got past in a window's time from `mark` |
| `Snowflake` | identifiers | `last`, `seq` per process, one clock; an identifier is a number of three digits |
| `Dictionaries` | dictionaries and items | `dict`, `item`: the tables; `txn[r]`: columns flushed; `Keys`: what a row takes up in the unique indexes; `Meets`, `Waits`: locks; `Clash`: a unique index refuses |
| `Notices` | announcements and inboxes | `posted`, `sent`, `inbox`; `active`: the status a message is about |
| `Crud` | the base of the generated domains | one table seen through one key and one reference, of a `shape` that some entity has; `walk`: a client that reads page after page |
| `CrudProofs` | theorems about `Crud` | |
| `Catalogue`, `CatalogueUser`, `CatalogueGrowth`, `CatalogueTool`, `CatalogueBlog` | the 44 generated entities | for each its columns, keys, references, what a request may and must name, what a response demands, and its routes; and the rule by which the generator derives the schemas from a table |
| `MCServices` | `Snowflake`, `Passwords`, `RateLimit`, `Dictionaries`, `Notices`, checked in one run | they share no state; `part` chooses which one a behaviour is about |
| `ServicesProofs` | theorems about `Snowflake`, `RateLimit`, `Notices`, `Passwords` and `Dictionaries` | |
| `MC...` | instances for the model checker | symmetry sets |

Composition. `Roles` and `Permissions` use the transitive closure where the code
calls `ancestor_ids`; that the call computes it is what `RoleClosure` shows, and
`WalkIsExpand` (`PermissionsProofs`) that the two are the same set.
`Permissions` lets the roles of a user move by what `Roles` proves of them: each
change has a version. `Organization` keeps role assignments constant for the
same reason. `Sessions` implements `SessionLife`.

The services behind `Roles` are complete, their endpoints are not: roles are
updated and deleted and users disabled and enabled over HTTP, while granting and
revoking an inheritance, deleting a user and assigning roles have tests and no
endpoint yet. The model takes them to be committed after the service returns,
like all the others; likewise the deletion of departments in `Organization`.

An operator commented as *seeded fault* is not part of a model: it is a
plausible bug that the property named in `PROJECT.json` detects when it takes the
place of the definition next to it.

Properties named `ChecksSuffice`, `ReplaceIsWhole`, `ReplaceCoversLive`,
`LastAdminStays`, `ActsInScope`, `Undisturbed...` speak of requests that no other
commit overlaps. The code checks and then writes without locks, so this is what
its checks can give; section 5 lists what goes wrong when requests do overlap.
All other properties hold for every overlap.

## 3. Runs

| Run | Shows | Bounds and why they are enough |
|---|---|---|
| `sessions` | every pair handed out is current or archived, never both (`HandedOutIsTracked`); a login supersedes all it saw (`LoginSupersedes`); revocation is final (`RevokedIsFinal`); `Sessions` implements `SessionLife` (`LifeSpec`); every request is answered (`EveryRequestEnds`) | two requests, two sessions of one user, two pairs: all overlaps of two operations, a login over an existing session, one rotation, deadlocks of revocation with refresh |
| `sessions_clock` | no access token outlives its session and no rotation moves its end (`LifeIsFixed`); a token is rotated once and by who presented it (`RotatedByHolder`) | one session, three pairs so that two refreshes of one token can both be given a new pair, a clock that passes the access and the refresh lifetime |
| `second_factor` | the session of a redeemed challenge and its used-up mark appear together (`GrantUsesUp`); no redemption at or after the end of life (`RedeemedInTime`); while requests follow each other, one login per challenge, an enabled credential was proven, a disabled one keeps no secret (`OneByOne`) | two requests, three secrets (one enabled, one of a set-up, one of an overlapping set-up), one challenge, a clock that passes its life and a lock |
| `second_factor_lockout_engages` | a finding: the lock never engages (`LockoutEngages`) | as above, wrong passwords up to the limit and past it |
| `audit_buffer` | no record written twice (`StoredOnce`); an answered request has none left in memory (`SentIsSettled`); the breaker is open only after a run of failures (`OpenIsEarned`); lost records are counted while nobody is cancelled (`LossIsCounted`); every flush ends (`FlushEnds`) | three requests and the shutdown, breaker after two failures so that it opens, cools down and opens again; one task may be cancelled |
| `role_closure` | exact (`Exact`) or a justified error (`ErrorMeansDeep`); it ends (`Terminates`) | every table over three roles, limit 2: chains below, at and above the limit, diamonds, every cycle |
| `roles` | a version per change (`VersionMoves`); undisturbed checks suffice (`ChecksSuffice`), the last SUPER_ADMIN stays (`LastAdminStays`), an assignment is whole (`ReplaceIsWhole`) | two requests, three roles, two users, two version changes after at most one earlier inheritance: a chain of three, and every pair of overlapping changes |
| `permissions` | what was computed while the version stood still is right and the short way agrees with the long one (`ReadInv`); every commit that changes what is permitted has a version (`VersionMoves`); undisturbed checks leave no reference to a deleted resource (`ChecksSuffice`); a replacement is complete on live resources (`ReplaceCoversLive`) | two requests of which one reads, two roles, a page, a menu below it, a field of it and an API, two field levels, two versions: a change before and one during a computation |
| `organization` | the scope of several roles is their union, for departments and users, in SQL and in Python (`ScopeInv`); undisturbed checks keep the tree sound (`ChecksSuffice`); nobody acts outside his scope (`ActsInScope`); an operator is shown all of his tree (`TreeIsWhole`) | three departments, so that there is a child of a child, two users, two roles with every kind of scope between them, two requests |
| `crud` | an update writes what it names (`WritesWhatItNames`); an error stores nothing (`FailureStoresNothing`); a deleted key is free (`DeletedKeyIsFree`); records of success and the table agree (`AuditInv`); a walk over the pages misses nothing that was there throughout (`WalkMissesNothing`) | every shape that some of the 44 entities has; two overlapping requests of three, two keys, two rows, a target that is deleted meanwhile, one commit that is lost |
| `services` | identifiers never repeat (`IdsAreUnique`); an undisturbed change refuses the last passwords and remembers the one it replaces (`UndisturbedRemembers`); in a window's time a subject passes at most its limit in each of the lives of its keys, and a refused one who waits as told, and a second longer, meets a new window (`LimitHolds`); an undisturbed edit of a dictionary is complete and meets no unique index (`UndisturbedIsDone`); inboxes are kept (`InboxIsKept`) | identifiers: two processes, two numbers per millisecond, a clock that jumps between -1 and 4, three identifiers each; passwords: four, two kept, four requests; limit: four logins, what is sent again counted among them, on a clock of half seconds up to 5, a window of 4 (two seconds) and a delay of 2, so that three lives are met (three times a limit is reached) and remaining lives are rounded, a window's time that begins right after a window does or right before the next; dictionaries: two, two items, two values, two overlapping edits on every table that earlier edits have left (up to which of the dictionaries is which), one with an item below a deleted dictionary included; notices: two users, three requests |
| `services_reset_forces_change` | a finding: a reset that overlaps with the user's own change leaves no duty to change the password (`ResetForcesChange`) | as above |

`ReadInv`, `ScopeInv` and `AuditInv` are a property (`UndisturbedVouches`,
`ScopeIsUnion`, `AuditTells`) with the type invariant. The types of `Sessions`,
`SecondFactor`, `AuditBuffer`, `Roles`, `Snowflake`, `RateLimit`,
`Notices`, `Passwords` and `Dictionaries` are proved; those of all parts of `MCServices` are `TypesOK` there.

The bounds that are not the code's own: `MaxNow` (clock), `MaxLogs` (records
per actor), `MaxWrong` (wrong passwords per user), `MaxVersion` (changes of
permissions), `MaxReaders`, `MaxRequests`, `MaxRows`, `MaxLost` (commits that are
lost), `MaxIds`, `Event` (messages about accounts), and the sizes of the sets.
`MaxDepth`, `MaxAttempts`, `MaxFailed`, `Threshold`, `Timeout`, `Cooldown`, `TTL`,
`LockFor`, `AccessTTL`, `RefreshTTL`, `Kept`, `Limit`, `Window`, `Numbers`, `Nodes`
and `Times` are the code's constants with small values. `Delay` bounds how long a
call of Redis takes with its client's retries; the run takes half a window, the
theorem any bound. `Second` says how many ticks of the clock a second has.

Deadlock is checked in the runs of `Sessions` and `SecondFactor`. In
`AuditBuffer` and `RoleClosure` everything ends; in the others the bound on
requests or versions stops the system.

### Fairness

* `Sessions`: strong fairness of each request's next statement, because
  PostgreSQL queues the waiters of a lock, so one that can run again and again
  does; weak fairness of the end of a lock cycle, because PostgreSQL detects
  deadlocks and aborts a member. Nothing is assumed of clients.
* `AuditBuffer`: time passes, an expired time limit is noticed and an answer is
  sent, all by asyncio. Nothing is assumed of the database: `DbCommit` and
  `Success` need not happen.
* `RoleClosure`: the walk is one loop that is not suspended for good.

No other property needs fairness.

## 4. Proofs

All for every number of requests, sessions, pairs, users, roles and processes,
every lifetime and every limit, from the assumptions on constants that the
modules name and nothing else.

**Sessions** (`SessionsProofs`). The invariants the runs check are not inductive:
whether a commit keeps the tables consistent depends on what the request has
remembered since it read them. `IInv` adds three things. `Stored`: the tables
agree with each other and with what was handed out. `Local(r)`: what request
`r` remembers was once in the tables (`Memory`), its place in the handler says
what it knows (`Place`), and what it is about to write fits the tables as they
are *now*, not as it read them (`Pending`) - a pending row is a new one, the
stored one with at most a revocation added, or the stored one rotated from the
very pair the request presented. `Apart`: no two requests hold one lock or are
given one pair. A step before the commit changes only its own request's memory
and writes, so the others' `Local` stands (`OwnStep`, `EndStep`, `ReadStep`);
only `Commit` changes tables, and there `Apart` is what keeps the others' pending
writes fitting (`CommitLocal`). Lemma `CommitPublishes` says what a commit can do
to a row; the action properties and the refinement follow from it and from
`OnlyCommitPublishes`.

Proved: types, `HandedOutIsTracked`, `LoginSupersedes`, `LifeIsFixed`,
`RevokedIsFinal`, `RotatedByHolder`, `HistoryIsAppendOnly`, and that `Sessions`
implements `SessionLife`.

**Second factor** (`SecondFactorProofs`). Writes are sets of columns over rows
that others change meanwhile, so `IInv` says for each request that what it will
write has the right columns and fits the rows *as they are when it commits*: the
mark of a redemption and the session it grants are in one transaction, the mark
was computed before the end of life, and that end never moves. `Apart`: two
logins never write one challenge. `GrantUsesUp` and `RedeemedInTime` follow,
and `NeverLocked`: because the columns of the lock are written only by requests
that end in a rollback, or reset to what they are.

**Log buffer** (`AuditBufferProofs`). A record is in one place at a time: the
buffer of its request, the batch of one flush, the fallback buffer, the tables,
or lost (`Home`, `Fallback`); batches are disjoint (`Apart`), and what the
database may have committed without answering is known (`Written`, `NotYet`).
`StoredOnce` and `SentIsSettled` follow. For `LossIsCounted` the lost records are
shown to be at most as many as the counter says unless a flush was cut short;
`OpenIsEarned` needs the count of failures since the last success.

**Role expansion** (`PermissionsProofs`). `WalkInv` says that the query has all
edges it will need or has them as work (`Query`), that whatever contains the
roles asked for and is closed contains what was seen (`Sound`), that everything
seen came over an edge (`Traced`), that the parents of everything seen are
seen or wait in the queue (`Covered`), and that the depth on the queue is the
length of a chain from a role asked for (`Deep`). At the end nothing waits, so
what was seen is closed and least: `Exact`. The error needs a chain that is too
long: `ErrorMeansDeep`. The sets closed under inheritance are the same in
`Permissions`, so what the walk has found is `Expand` of the roles it began
with (`WalkIsExpand`).

**Role administration** (`RolesProofs`). An undisturbed request's checks hold of
the tables as they are until somebody else commits (`Fresh` in `Local`): only
`Commit` changes tables, and it marks everybody else stale. Who is about to
commit a change of permissions holds the lock on the version row (`Locked`), so
two of them cannot share a version: `VersionMoves`. For `ChecksSuffice` the
ancestors of a role are the least set closed under parents, so that an edge from
a role to one that is not below it closes no cycle (lemmas on `Ancestors`).

**Identifiers** (`ServicesProofs`). A bound above everything a generator has
returned, computed from its last time and sequence, never falls, whatever the
clock does; different processes differ in a digit. `IdsAreUnique` and the
increase within a process.

**The limit on logins** (`ServicesProofs`). A time as long as a window meets two
windows of the code. In each, what has passed is accounted for by the lives of the
key (`Fits`): every life lets at most the limit pass, and the next one is met only
if a login is counted a whole window after it. Keys of the two are made for a window's
time together and counted for as long as a call of the back end takes besides
(`Span`, `TwoWindows`), so that `MostLives` are met (`LivesAreFew`): two if the
back end answers at once, three if it takes up to half a window, and so on. Nothing
is assumed of that time but that it is bounded (`Delay`): `db/redis.py` limits a
connection and an answer to `redis_socket_timeout` each, and the client's retries
come on top. For the answer to a refusal, a key that is still alive when it is looked
at again lives for a window from when it was made (`Timely`), and whole seconds are
less than a second short of that (`WholeIsClose`). `LimitHolds`, with the invariant
`IInv` of `RateLimit`, from windows of whole seconds (`RateAssumption`).

**Inboxes** (`ServicesProofs`). Where a request is (`Phase`) and what it has
flushed (`Flushed`, `Written`) fit the tables as they are now: a row that it has
written is as it was when it wrote it, for no two requests write a row in common
(`Apart`; rows lock, and two announcements have different numbers). So a commit
changes a row in one of five ways (`Flushes`), always from "not sent" to "in the inbox" to
"taken out" and from unread to read: `Final`. A revocation has locked all rows
that are still in an inbox and no others can appear, since an announcement's rows
come with the announcement (`Tables`): `Withdrawals`. What a request has read stays
true until another commits (`Fresh`): `Served`. Together `InboxIsKept`, with the
invariant `IInv` of `Notices`.

**Passwords** (`ServicesProofs`). The rows of a history are told apart by their
identifiers, which grow (`Ordered`), and the row a request appends is above all it
sees and is no other request's (`Apart`). So there are never more
than `n` newest rows, each having a different number of rows above it
(`NewestAreFew`), and the row appended is always among them (`OneNewest`). What a
request has read of the account and of the history, and the rows it means to prune,
are those of the tables until another commits (`Fresh` in `Local`); hence what is
pruned is never among the newest and the hash replaced stays in the history:
`UndisturbedRemembers`, with the invariant `IInv` of `Passwords`. The one assumption
is `PasswordAssumption`: at least one password is kept (`PASSWORD_HISTORY_SIZE` is 5).

**Dictionaries** (`ServicesProofs`). Each table keeps to its unique indexes, as it
is committed and as every request sees it with what it has flushed (`Unique`). For
that, what two requests have written must be apart, in rows and in keys
(`Disjoint`): a statement waits for whoever has touched a row, or a key as it was
or will be, that it needs (`Meets`), and a commit leaves the others' writes apart
(`CommitIsDisjoint`). What a request has found is marked stale by the commit of
another; until then its copies are the rows, the value it has asked for is free, the
items it has cleared are all that had to be (`Fresh`). So a deletion and a clearing
only give keys back (`FewerKeys`), and an item that is inserted or changed takes up a
value nobody has and a default nobody has any more (`OneFits`): no index refuses
what is written, and what is committed is complete: `UndisturbedIsDone`, with the
invariant `IInv` of `Dictionaries`. The one assumption is `DictionariesAssumption`:
`None` is no identifier.

**Effective permissions** (`PermissionsProofs`). Two kinds of requests, two kinds
of knowledge. A change has checked something and is marked stale by whoever
commits after that: `Found` says what each of its statements has established,
and that it holds of the tables as they are, as long as it is not stale. A reader
is never marked; `Reading` says what it has read so far, statement by statement,
and that it is what the tables give now, as long as the version has not moved.
That works because a commit that does not move the version is the creation of a
resource, or changes nothing (`QuietCommit`): nobody has been granted what did
not exist, so every set a reader computes stays (`GrantedStays`, `ReadingStays`).
It needs that rows of grants and menus exist only for resources that were once
created (`Tables`), that a resource that is being created is known to its
creator only (`Alone`), and that exactly the requests with a change that needs a
version hold the lock when they commit (`Locked`). A writer moves the version once
at most (`Counted`), which bounds it. `ReadInv`, `VersionMoves`, `ChecksSuffice` and
`ReplaceCoversLive` follow.

**Departments and scopes** (`OrganizationProofs`). Trees first, of any map to
parents and with no induction: ancestors and subtrees are least closed sets
(`Up`, `Down`), and the effect of an addition, a move or a deletion on them is
shown from that alone (`GoodAdd`, `GoodMove`, `GoodDrop`). That a department of a
cycle-free tree lies below a top is the one place where the number of departments
must be finite (`GoodIsRooted`). Then the requests: `Fresh` and stale marks as
in `RolesProofs`, what a request writes fits what it has found out (`Writes`), and a scope
resolved from tables that nobody has changed is still the scope. `ScopeInv`,
`TreeIsWhole`, `ChecksSuffice` and `ActsInScope`.

**Generated domains** (`CrudProofs`). For every entity of the catalogues (the proof
uses only what `Shapes` has of them). `Local`: what a request has read or flushed
fits the row as it is now; `Apart`: a row that is being created is its creator's
alone; an id is never a gap again once its row was created. `AuditInv` needs that
records are written in the transaction of the change. For `WalkMissesNothing`
the rows that are not older than the one still looked for never become fewer than
the pages read, for new rows are put in front and, while nothing is deleted, none
leaves (`WalkInv`). With `WritesWhatItNames`,
`FailureStoresNothing` and `DeletedKeyIsFree`.

**Second factor, one at a time.** `OneByOne` speaks of `together`, which
`MCSecondFactor` adds: while no two requests have overlapped, what the only
request at work remembers is what the tables say (`Serial`, with `Alone` and
`Current`), so that a challenge logs in once.

How the models are written for this. What is the least set with some property
(ancestors, subtrees, expansions) is defined as the members common to all
sets with it, not by recursion; a row after an UPDATE is `Set(row, columns)`; a
sum or a count is a cardinality. The assumptions are those that the modules name;
beside types they say that the number of departments is finite
(`OrganizationAssumption`) and that a list of the generated domains has room for
a row (`CrudBounds`).

Only model-checked: liveness (`EveryRequestEnds`, `FlushEnds`, `Terminates`), which
is beyond the prover.

## 5. Where code and comments disagree

Shown by a run:

* **The account lock never engages** (`services/auth.py:254-271`). Count and lock
  are rolled back with the refusal.
* **A reset does not force a change** (`services/user.py:591`). A reset that read
  `must_change_password` TRUE writes only the hash; an overlapping change by the
  user that commits first has cleared the column, and the administrator's
  password stays in force.

Met while modelling. The definition named states the promise; put into the
configuration of its module it is violated:

* `OneValidSession` (`Sessions`): `services/session.py:172` promises one valid
  session per account; two overlapping logins do not see each other's.
* `ReuseRevokes` (`Sessions`): `api/v1/endpoints/auth.py:301` says a replayed
  refresh token ends the session; the revocation is flushed and then rolled back
  with the refusal (`services/session.py:488`). Only the audit event remains.
* `OneTime` (`SecondFactor`): a challenge is one-time (`models/mfa.py:161`); two
  overlapping redemptions both pass the test on their own copy
  (`repositories/mfa.py:226`).
* `UsableAdminStays` (`Roles`): a usable SUPER_ADMIN must remain
  (`services/user.py:505`); disabled ones are counted as remaining, so all of
  them can be disabled in turn.
* `PromisedKeysHold` (`Crud`): `models/blog.py:289` calls the composite primary
  key (id, user, article) a unique constraint on who likes what; the id makes
  every row unique. Likewise favourites and `models/biz_user.py:134`.
* `VersionVouches` (`Permissions`): `api/v1/endpoints/auth.py:481` lets clients
  keep a contract by its version; the version is read last
  (`services/effective_permission.py:320`), so a contract computed across a
  commit bears the new version.
* `ReplaceIsWhole` (`Permissions`): an empty list clears
  (`api/v1/endpoints/role_permissions.py:172`); grants on disabled resources are
  not seen and come back with them (`repositories/permission.py:489`).
* `ListedCanBeRead` (`Organization`): the test in Python is "the same as in SQL"
  (`core/scope.py`, `allows_user`); `services/user.py:231-235` ignores
  `include_self`, so a user without a department who has a SELF and a DEPARTMENT
  role is listed to himself and refused when he opens the entry.
* `PassesAreBounded` with twice the limit (`RateLimit`): `core/rate_limit.py:28`
  says at most 2 x the limit; a key that is counted after it has expired starts
  again, so three times with a slow back end, and more with a slower one.
* `RetryIsEnough` without the second more (`RateLimit`): `core/rate_limit.py:82`
  says that Retry-After is what is left of the window; it is in whole seconds,
  truncated in memory (`:133`) and the nearest in Redis (behind `:159`), so who
  was refused at the beginning of a window and comes back as told may meet the
  end of the same window and be refused again.

And without a definition of their own:

* `services/mfa_management.py:424`: failed attempts on a challenge are rolled
  back with the refusal as well, the limit of attempts is never reached.
* `repositories/session.py:268`: of two overlapping revocations the later one
  overwrites the reason; the comment says the first is kept.
* `repositories/session.py:307`: a session that is rotated between read and
  revocation has the old hash archived again and the current one never.
* `services/session.py:407`: a refresh that loses to a logout is reported as
  theft, of a session whose token was never rotated.
* `repositories/session.py:307`: revocation locks row then history key, refresh
  key then row; PostgreSQL aborts one of the two.
* `models/enums.py:194-216` lists `REVOKE_ALL` for the revocation of all sessions;
  `services/session_management.py:290-334` writes `ADMIN_REVOKE`.
* `services/mfa_management.py:303`: a set-up that commits during the enabling
  leaves a secret ENABLED that nobody has verified; `:280`: a set-up that
  overlaps with a disabling leaves a DISABLED credential with a secret; and a
  set-up on an enabled credential ends it without a code.
* `repositories/mfa.py:227`: the second of two overlapping redemptions moves the
  time of use.
* `audit/buffer.py:401`: a cancelled flush counts nothing as dropped;
  `:390`: after the cooldown everybody may try until the first attempt fails, not
  one attempt.
* `repositories/permission.py:818-820` says the depth limit exposes cycles as an
  error; the walk visits a role once, so a short cycle ends without one. The
  result is the set of ancestors either way (`Exact`).
* `services/role_inheritance.py:23` says that the check guarantees no cycle comes
  about; two overlapping grants, or a grant overlapping with a deletion, each pass
  their checks (`ChecksSuffice` needs them not to overlap).
* `services/authorization.py:219` and `repositories/role.py:223`: likewise for the
  last two SUPER_ADMINs and for two replacements of one user's roles.
* `services/user.py:415` and `crud/base.py:251`: the audit record says success
  before the endpoint has committed, and stays when the commit fails.
* `services/user.py:752`: overlapping changes of one password lose the
  overwritten one from the history, and may leave a row too many until the next
  change prunes it; a user's own change may override a reset although the old
  password it verified is no longer valid.
* `core/rate_limit.py`: each hit renews a key's life, so Retry-After is about a
  window from the last attempt rather than the rest of the window; who is
  refused by address has used up his name's quota as well; who passes because
  Redis fails is not counted.
* `core/snowflake.py`: a time past 41 bits raises, but only after the generator
  has moved; a clock before the epoch raises. A restart forgets the last time, so
  uniqueness across a restart with the clock set back is not claimed.
* `crud/base.py`: the response is built after the commit, and a nullable foreign
  key is typed as an int, so a row without it is stored, answered with 500, and
  breaks every page it is on. `BizUserPasswordHistory` can never be created,
  every operation on `BlogArticleTag` (no `id`) fails, and
  `BlogAuthor.approved_by` and `BlogAuthorApplication.reviewed_by` can never be
  set. NOT NULL, foreign key and unique violations are 500s. Updating a row that
  was hard-deleted meanwhile is a 500, one that was soft-deleted succeeds, and a
  live row may refer to a soft-deleted one. Ledgers are said to be insert-only
  and have PUT and DELETE routes. A deletion during paging skips a row.
* `services/permission_resource.py`: a resource that was granted while it is
  disabled can neither be deleted nor its grant be revoked until it is enabled
  again; `field_key` is compared with the first hundred FIELD resources only;
  creating a resource moves no version although a SUPER_ADMIN's contract has all.
* `services/department.py:405`: two overlapping moves can close a cycle, or move
  below a department that is being deleted; `list_tree` loses the nodes of a
  cycle. Department changes move no permission version although
  DEPARTMENT_CHILDREN depends on the tree; nothing looks at a DISABLED
  department; `services/role_data_scope.py`: two overlapping changes of a role's
  scope can leave CUSTOM rows on a role that is not CUSTOM.
  `ActorFactory.build_role_scopes` enforces with the direct ACTIVE roles only,
  while the preview uses the expanded ones.
* `services/dict.py:29-33` argues that undeleted items would come back when a
  dictionary is created again; items refer to the row, not its code, so they
  would not. A creation of an item that overlaps with the deletion of its
  dictionary leaves a live item below a deleted one, which can still be changed
  and deleted. An update that makes an item the default while the item is being
  deleted leaves a deleted row that is one, which `repositories/dict.py:198` means to
  rule out; the indexes look at live rows only. Of two overlapping defaults
  the second is refused by the unique index with a 500 instead of winning
  (`repositories/dict.py:158`); an update that asks for the default on a copy
  that has it already writes nothing although it was cleared meanwhile.
* `repositories/notification.py:130` keeps the time of the first reading; of two
  overlapping requests that mark one notice the second overwrites it. Two
  overlapping disablings of one user tell him twice.

## 6. What is not modelled

Which policy demands a second factor and whether the provider is available; TOTP
windows and replay of a code inside its window; the encryption of secrets; the
wording, masking and classification of log records; HTTP validation; the scope of
the operator in `Roles` and `Passwords` (he is a SUPER_ADMIN there, `Organization`
has the checks); password complexity and ageing; the deletion of a role's grants
with the role in `Permissions`, where roles stay; the tree of resources for
display; list filters and pages of the administration. `last_active_at` is only a
possible write of an authenticated request. An update in `Crud` names one key and
one reference at a time.

Rows that were inserted by scripts are outside: every model starts from tables
the program itself can produce. Where PostgreSQL may abort one of two statements
that lock several rows in opposite orders, `Sessions` models the abort; in
`Permissions`, `Organization`, `Dictionaries` and `Notices` a statement takes all
its locks at once, and an aborted request is one that changed nothing.

System parameters are single rows that nothing refers to, with a type that never
changes and a value parsed before it is written; log queries, statistics and the
session overview read; retention is a deletion by age run by hand; codes and
ciphers are functions over bytes; configuration, migrations, seeds and schemas
have no state at run time. The frontend's single-flight refresh is not modelled:
`Sessions` admits every overlap of refreshes a client can cause.

## 7. What is left

In order of worth: the frontend's client over `Sessions`; TOTP windows as an arithmetic lemma.
