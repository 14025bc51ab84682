----------------------------- MODULE SecondFactor -----------------------------
(***************************************************************************)
(* Password check, account lock and second factor of a login               *)
(* (app/services/auth.py, app/services/mfa_management.py and               *)
(* app/repositories/mfa.py).                                               *)
(*                                                                         *)
(* A request reads rows into its memory (job), collects the columns its    *)
(* UPDATEs set (txn) and publishes them with Commit, or raises and has     *)
(* them rolled back by get_db.  SQLAlchemy writes the columns whose value  *)
(* differs from the copy that was read, with WHERE id only, so what is     *)
(* written does not depend on what the row has become: an UPDATE can be    *)
(* merged with its commit, which is when others see it.                    *)
(*                                                                         *)
(* A code is represented by the secret it was computed from.  The session  *)
(* rows created by a login are counted (granted); Sessions models them.    *)
(***************************************************************************)
EXTENDS Integers, TLC

CONSTANTS User, Secret, Chal, Req, None,
          MaxAttempts,    \* MAX_CHALLENGE_ATTEMPTS
          MaxFailed,      \* MAX_FAILED_LOGIN_ATTEMPTS
          TTL,            \* CHALLENGE_TTL_SECONDS
          LockFor,        \* LOCKOUT_DURATION
          MaxNow,         \* bound on the clock
          MaxWrong        \* bound on wrong passwords per user

ASSUME BoundAssumption == /\ MaxAttempts \in Nat \ {0} /\ MaxFailed \in Nat \ {0}
                          /\ TTL \in Nat \ {0} /\ LockFor \in Nat \ {0}
                          /\ MaxNow \in Nat /\ MaxWrong \in Nat

VARIABLES now,      \* utc_now()
          active,   \* users whose status is ACTIVE
          lock,     \* failed_login_count and locked_until of each user
          cred,     \* user_mfa: the credential of each user, or None
          chal,     \* mfa_challenges: the row of each challenge token, or None
          granted,  \* sessions created with each challenge
          bad,      \* "wrong password" answers to each user since the last login
          shown,    \* secrets a user has shown a code of since their setup
          job, txn

vars   == <<now, active, lock, cred, chal, granted, bad, shown, job, txn>>
tables == <<lock, cred, chal>>
ghosts == <<granted, bad, shown>>

Status    == {"DISABLED", "SETUP", "ENABLED"}
Cred      == [status : Status, secret : Secret \union {None}]
Challenge == [user : User, exp : Nat, attempts : 0..MaxAttempts, consumed : Nat \union {None}]
Lock      == [count : 0..MaxFailed, until : Nat \union {None}]
PC        == {"idle", "factor", "verify", "user", "commit", "raise", "bad"}
Op        == {"none", "login", "redeem", "setup", "enable", "disable"}

\* An absent row or value is none of the rows or values there are.
ASSUME NoneAssumption == None \notin Chal \union Nat \union Cred \union Challenge

\* The columns a transaction sets, per table.
NoWrite == [lock |-> <<>>, cred |-> <<>>, chal |-> <<>>]
Blank   == [op |-> "none", pc |-> "idle", user |-> None, chal |-> None, code |-> None,
            at |-> 0, row |-> None]

Set(row, cols) == [c \in DOMAIN row |-> IF c \in DOMAIN cols THEN cols[c] ELSE row[c]]
Insert(cols)   == cols

\* The columns of new whose value differs from the copy old.
Changed(old, new) == [c \in {c \in DOMAIN new : new[c] # old[c]} |-> new[c]]

TypeOK == /\ now \in 0..MaxNow
          /\ active \subseteq User
          /\ \A u \in User : lock[u] \in Lock /\ cred[u] \in Cred \union {None}
          /\ \A c \in Chal : chal[c] \in Challenge \union {None}
          /\ \A r \in Req : job[r].op \in Op /\ job[r].pc \in PC

-------------------------------------------------------------------------------
Idle(r)  == job[r].pc = "idle"
At(r, l) == job[r].pc = l

Begin(r, j, w) == /\ Idle(r)
                  /\ job' = [job EXCEPT ![r] = j]
                  /\ txn' = [txn EXCEPT ![r] = w]

Goto(r, l, w) == /\ job' = [job EXCEPT ![r].pc = l]
                 /\ txn' = [txn EXCEPT ![r] = w]

End(r) == /\ job' = [job EXCEPT ![r] = Blank]
          /\ txn' = [txn EXCEPT ![r] = NoWrite]

-------------------------------------------------------------------------------
\* Login with a password.

\* The failure count goes up by one and the account is locked at the limit.
Failure(x) == LET n == x.count + 1
              IN  [count |-> n, until |-> IF n >= MaxFailed THEN now + LockFor ELSE None]

\* Status, lock and password: a lock that has run out is lifted, its count is kept.
BeginLogin(r, u, good) ==
    /\ u \in active
    /\ ~ (lock[u].until # None /\ lock[u].until > now)
    /\ bad[u] < MaxWrong
    /\ LET x == [lock[u] EXCEPT !.until = None]
           y == IF good THEN [count |-> 0, until |-> None] ELSE Failure(x)
       IN  Begin(r, [Blank EXCEPT !.op = "login", !.user = u, !.at = now,
                                  !.pc = IF good THEN "factor" ELSE "bad"],
                    [NoWrite EXCEPT !.lock = Changed(lock[u], y)])
    /\ UNCHANGED <<now, active, tables, ghosts>>

\* With an enabled credential the answer is a challenge, without one a session.
ChooseFactor(r) ==
    /\ At(r, "factor")
    /\ LET u == job[r].user
       IN  IF cred[u] # None /\ cred[u].status = "ENABLED"
             THEN \E c \in {c \in Chal : chal[c] = None /\ \A q \in Req : job[q].chal # c} :
                    /\ job' = [job EXCEPT ![r].pc = "commit", ![r].chal = c]
                    /\ txn' = [txn EXCEPT ![r].chal =
                                 Insert([user |-> u, exp |-> job[r].at + TTL,
                                         attempts |-> 0, consumed |-> None])]
             ELSE Goto(r, "commit", txn[r])
    /\ UNCHANGED <<now, active, tables, ghosts>>

-------------------------------------------------------------------------------
\* The second step of a login: redeem_challenge and complete_mfa_login.

\* Seeded fault: an expired challenge is looked up as if it were open.
OpenIfUnused(x, t) == x.consumed = None

Open(x, t) == x.consumed = None /\ x.exp > t

BeginRedeem(r, c, code) ==
    /\ chal[c] # None
    /\ LET x    == chal[c]
           done == x.attempts >= MaxAttempts
       IN  Begin(r, [Blank EXCEPT !.op = "redeem", !.user = x.user, !.chal = c, !.code = code,
                                  !.at = now, !.row = x,
                                  !.pc = IF ~Open(x, now) \/ done THEN "raise" ELSE "verify"],
                    [NoWrite EXCEPT !.chal = IF Open(x, now) /\ done
                                               THEN [consumed |-> now] ELSE <<>>])
    /\ UNCHANGED <<now, active, tables, ghosts>>

\* Seeded fault: a right code does not use the challenge up.
Reusable(x, t) == <<>>

\* consume_challenge: consumed_at is set unless the copy that was read has one.
Consume(x, t) == IF x.consumed = None THEN [consumed |-> t] ELSE <<>>

\* The columns a wrong code sets: attempts, and consumed_at at the limit.
CountAttempt(x, t) == [attempts |-> x.attempts + 1]
                         @@ IF x.attempts + 1 >= MaxAttempts THEN Consume(x, t) ELSE <<>>

VerifyCode(r) ==
    /\ At(r, "verify")
    /\ LET k == cred[job[r].user]
           x == job[r].row
           t == job[r].at
       IN  \/ /\ k = None \/ k.status # "ENABLED"
              /\ Goto(r, "raise", [txn[r] EXCEPT !.chal = Consume(x, t)])
           \/ /\ k # None /\ k.status = "ENABLED" /\ k.secret = None
              /\ Goto(r, "raise", txn[r])
           \/ /\ k # None /\ k.status = "ENABLED" /\ k.secret # None
              /\ IF job[r].code = k.secret
                   THEN Goto(r, "user", [txn[r] EXCEPT !.chal = Consume(x, t)])
                   ELSE Goto(r, "raise", [txn[r] EXCEPT !.chal = CountAttempt(x, t)])
    /\ UNCHANGED <<now, active, tables, ghosts>>

CheckUser(r) ==
    /\ At(r, "user")
    /\ Goto(r, IF job[r].user \in active THEN "commit" ELSE "raise", txn[r])
    /\ UNCHANGED <<now, active, tables, ghosts>>

-------------------------------------------------------------------------------
\* The life of a credential.

\* A new secret; the row may be absent, and its status is not looked at.
BeginSetup(r, u, s) ==
    /\ s \notin shown[u]
    /\ \A v \in User : cred[v] # None => cred[v].secret # s
    /\ \A q \in Req : job[q].code # s
    /\ LET y == [status |-> "SETUP", secret |-> s]
       IN  Begin(r, [Blank EXCEPT !.op = "setup", !.pc = "commit", !.user = u, !.code = s,
                                  !.row = cred[u]],
                    [NoWrite EXCEPT !.cred = IF cred[u] = None THEN Insert(y)
                                                               ELSE Changed(cred[u], y)])
    /\ UNCHANGED <<now, active, tables, ghosts>>

\* Seeded fault: enabling does not verify the code.
EnableUnseen(r, u, code) ==
    /\ cred[u] # None /\ cred[u].status = "SETUP" /\ cred[u].secret # None
    /\ Begin(r, [Blank EXCEPT !.op = "enable", !.pc = "commit", !.user = u, !.code = code,
                              !.row = cred[u]],
                [NoWrite EXCEPT !.cred = [status |-> "ENABLED"]])
    /\ UNCHANGED <<now, active, tables, ghosts>>

BeginEnable(r, u, code) ==
    /\ cred[u] # None /\ cred[u].status = "SETUP" /\ cred[u].secret # None
    /\ LET right == code = cred[u].secret
       IN  Begin(r, [Blank EXCEPT !.op = "enable", !.user = u, !.code = code, !.row = cred[u],
                                  !.pc = IF right THEN "commit" ELSE "raise"],
                    [NoWrite EXCEPT !.cred = IF right THEN [status |-> "ENABLED"] ELSE <<>>])
    /\ UNCHANGED <<now, active, tables, ghosts>>

ClearSecret(k) == Changed(k, [status |-> "DISABLED", secret |-> None])

BeginDisable(r, u, code) ==
    /\ cred[u] # None /\ cred[u].status = "ENABLED" /\ cred[u].secret # None
    /\ LET right == code = cred[u].secret
       IN  Begin(r, [Blank EXCEPT !.op = "disable", !.user = u, !.code = code, !.row = cred[u],
                                  !.pc = IF right THEN "commit" ELSE "raise"],
                    [NoWrite EXCEPT !.cred = IF right THEN ClearSecret(cred[u]) ELSE <<>>])
    /\ UNCHANGED <<now, active, tables, ghosts>>

-------------------------------------------------------------------------------
\* The end of a request.

\* Two setups that both found no row: uq_user_mfa_user_provider refuses the second.
Conflict(r) == job[r].op = "setup" /\ job[r].row = None /\ cred[job[r].user] # None

Commit(r) ==
    /\ At(r, "commit") /\ ~Conflict(r)
    /\ LET u == job[r].user
           c == job[r].chal
           w == txn[r]
       IN  /\ lock' = [lock EXCEPT ![u] = Set(@, w.lock)]
           /\ cred' = [cred EXCEPT ![u] = IF @ = None
                                            THEN IF w.cred = <<>> THEN None ELSE w.cred
                                            ELSE Set(@, w.cred)]
           /\ chal' = IF c = None THEN chal
                      ELSE [chal EXCEPT ![c] = IF @ = None THEN w.chal ELSE Set(@, w.chal)]
           /\ granted' = IF job[r].op = "redeem" THEN [granted EXCEPT ![c] = @ + 1] ELSE granted
           /\ bad' = IF job[r].op = "login" THEN [bad EXCEPT ![u] = 0] ELSE bad
           /\ shown' = IF job[r].op = "enable"
                         THEN [shown EXCEPT ![u] = @ \union {job[r].code}] ELSE shown
    /\ End(r)
    /\ UNCHANGED <<now, active>>

\* An exception: the answer goes out and get_db rolls the writes back.
Raise(r) ==
    /\ At(r, "raise") \/ At(r, "bad") \/ (At(r, "commit") /\ Conflict(r))
    /\ bad' = IF At(r, "bad") THEN [bad EXCEPT ![job[r].user] = @ + 1] ELSE bad
    /\ End(r)
    /\ UNCHANGED <<now, active, tables, granted, shown>>

-------------------------------------------------------------------------------
Tick == /\ now < MaxNow
        /\ now' = now + 1
        /\ UNCHANGED <<active, tables, ghosts, job, txn>>

ChangeStatus(u) ==
    /\ active' = IF u \in active THEN active \ {u} ELSE active \union {u}
    /\ UNCHANGED <<now, tables, ghosts, job, txn>>

Init == /\ now = 0
        /\ active = User
        /\ lock = [u \in User |-> [count |-> 0, until |-> None]]
        /\ cred = [u \in User |-> None]
        /\ chal = [c \in Chal |-> None]
        /\ granted = [c \in Chal |-> 0]
        /\ bad = [u \in User |-> 0]
        /\ shown = [u \in User |-> {}]
        /\ job = [r \in Req |-> Blank]
        /\ txn = [r \in Req |-> NoWrite]

Code == Secret \union {None}

Start(r) == \/ \E u \in User, good \in BOOLEAN : BeginLogin(r, u, good)
            \/ \E c \in Chal, code \in Code : BeginRedeem(r, c, code)
            \/ \E u \in User, s \in Secret : BeginSetup(r, u, s)
            \/ \E u \in User, code \in Code : BeginEnable(r, u, code) \/ BeginDisable(r, u, code)

Next == \/ \E r \in Req : \/ Start(r)
                          \/ ChooseFactor(r)
                          \/ VerifyCode(r)
                          \/ CheckUser(r)
                          \/ Commit(r)
                          \/ Raise(r)
        \/ Tick
        \/ \E u \in User : ChangeStatus(u)

Spec == Init /\ [][Next]_vars

-------------------------------------------------------------------------------
\* What holds however requests overlap.

\* The session of a redeemed challenge and the mark that uses the challenge up
\* appear together: no login without the mark, no mark without a login.
GrantUsesUp == \A c \in Chal : chal[c] # None => (granted[c] > 0 <=> chal[c].consumed # None)

\* A challenge is redeemed before its end of life, by the clock of the request.
RedeemedInTime == \A c \in Chal : chal[c] # None /\ chal[c].consumed # None =>
                      chal[c].consumed < chal[c].exp

-------------------------------------------------------------------------------
\* What holds while requests of one user do not overlap, and fails when they do.

\* "A one-time MFA challenge."
OneTime == \A c \in Chal : granted[c] <= 1

\* "Confirm by a real verification that the user has a usable credential."
EnabledIsProven == \A u \in User : cred[u] # None /\ cred[u].status = "ENABLED" =>
                       cred[u].secret \in shown[u]

\* "After disabling, no ciphertext that can be decrypted shall remain."
DisabledKeepsNothing == \A u \in User : cred[u] # None /\ cred[u].status = "DISABLED" =>
                            cred[u].secret = None

-------------------------------------------------------------------------------
\* What the comments promise and the rollback undoes.

\* "Five failures in a row lock the account for thirty minutes."
LockoutEngages == \A u \in User : bad[u] >= MaxFailed => lock[u].until # None
===============================================================================
