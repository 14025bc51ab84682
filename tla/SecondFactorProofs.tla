-------------------------- MODULE SecondFactorProofs --------------------------
(***************************************************************************)
(* What the overlap of requests cannot undo in the second step of a login, *)
(* and that the rollback of a refusal keeps every account unlocked: for    *)
(* any number of requests, users and challenges and every limit.           *)
(*                                                                         *)
(* The columns a request is about to write fit the rows as they are now,   *)
(* not only as they were read: a challenge to be inserted is nobody        *)
(* else's, and one to be used up has the end of life that was checked.     *)
(*                                                                         *)
(* What overlap does undo holds as long as one request follows the other:  *)
(* then the row that was read is the row as it is (Serial).                *)
(***************************************************************************)
EXTENDS MCSecondFactor, TLAPS

-------------------------------------------------------------------------------
\* The types of what a request remembers and writes.
Job == [op : Op, pc : PC, user : User \union {None}, chal : Chal \union {None},
        code : Code, at : Nat, row : Cred \union Challenge \union {None}]

Columns(w) == w = [lock |-> w.lock, cred |-> w.cred, chal |-> w.chal]

CredColumns(w) == /\ DOMAIN w \subseteq {"status", "secret"}
                  /\ "status" \in DOMAIN w => w["status"] \in Status
                  /\ "secret" \in DOMAIN w => w["secret"] \in Secret \union {None}

Zero == [count |-> 0, until |-> None]

Types == /\ now \in 0..MaxNow
         /\ active \subseteq User
         /\ lock = [u \in User |-> Zero]
         /\ cred \in [User -> Cred \union {None}]
         /\ chal \in [Chal -> Challenge \union {None}]
         /\ granted \in [Chal -> Nat]
         /\ job \in [Req -> Job]
         /\ DOMAIN txn = Req
         /\ \A r \in Req : Columns(txn[r])

\* Which requests are where in their handlers.
Place(j) == /\ j.op = "none" => j.pc = "idle"
            /\ j.pc = "factor" => j.op = "login" /\ j.chal = None
            /\ j.pc \in {"verify", "user"} => j.op = "redeem"
            /\ j.pc # "idle" => j.user \in User

\* What a request writes to a credential keeps it a credential.
CredFits(j, w) ==
    /\ j.op \in {"none", "login", "redeem"} => w.cred = <<>>
    /\ j.op = "setup" /\ j.row = None => w.cred \in Cred
    /\ j.pc = "commit" /\ (j.op = "setup" => j.row # None) /\ w.cred # <<>> =>
         CredColumns(w.cred) /\ cred[j.user] # None

\* What a request writes to a challenge is a new row, or the mark that uses it up
\* with a time before the end of its life.
ChalFits(j, w) ==
    /\ j.op = "login" /\ j.chal # None =>
         /\ j.pc = "commit"
         /\ chal[j.chal] = None
         /\ w.chal \in Challenge /\ w.chal.consumed = None
    /\ j.op = "redeem" =>
         /\ j.chal # None /\ chal[j.chal] # None
         /\ j.pc \in {"verify", "user", "commit"} =>
              /\ j.row \in Challenge /\ j.row.consumed = None
              /\ j.at < j.row.exp /\ j.row.exp = chal[j.chal].exp
         /\ j.pc \in {"user", "commit"} => w.chal = [consumed |-> j.at]
    /\ j.op \notin {"login", "redeem"} => j.chal = None

\* A refusal sets the count and the lock, an answer sets neither.
LockFits(j, w) == j.pc \in {"factor", "verify", "user", "commit"} => DOMAIN w.lock = {}

Local(j, w) == Place(j) /\ CredFits(j, w) /\ ChalFits(j, w) /\ LockFits(j, w)

\* A challenge that is about to be inserted is nobody else's.
Apart == \A r, q \in Req : r # q /\ job[r].op = "login" /\ job[r].chal # None =>
            job[q].chal # job[r].chal

IInv == /\ Types
        /\ \A r \in Req : Local(job[r], txn[r])
        /\ Apart
        /\ \A c \in Chal : chal[c] = None => granted[c] = 0
        /\ GrantUsesUp
        /\ RedeemedInTime

-------------------------------------------------------------------------------
\* What the columns of an UPDATE make of a row.
LEMMA SetEmpty == ASSUME NEW w, DOMAIN w = {}
                  PROVE  Set(Zero, w) = Zero
<1>1. DOMAIN Zero = {"count", "until"} /\ Zero = [c \in {"count", "until"} |-> Zero[c]]
  BY DEF Zero
<1>. QED BY <1>1 DEF Set

LEMMA SetCred == ASSUME NEW x \in Cred, NEW w, CredColumns(w)
                 PROVE  Set(x, w) \in Cred
<1>. DEFINE y == Set(x, w)
<1>1. y = [c \in {"status", "secret"} |-> y[c]]
  BY DEF Set, Cred
<1>2. y["status"] \in Status /\ y["secret"] \in Secret \union {None}
  BY DEF Set, Cred, CredColumns
<1>3. y = [status |-> y["status"], secret |-> y["secret"]]
  BY <1>1
<1>. QED BY <1>2, <1>3 DEF Cred

LEMMA SetConsumed == ASSUME NEW x \in Challenge, NEW t \in Nat
                     PROVE  /\ Set(x, [consumed |-> t]) \in Challenge
                            /\ Set(x, [consumed |-> t]).consumed = t
                            /\ Set(x, [consumed |-> t]).exp = x.exp
<1>. DEFINE w == [consumed |-> t]
            D == {"user", "exp", "attempts", "consumed"}
            y == Set(x, w)
<1>1. DOMAIN w = {"consumed"} /\ w["consumed"] = t /\ DOMAIN x = D
  BY DEF Challenge
<1>2. y = [c \in D |-> IF c \in {"consumed"} THEN w[c] ELSE x[c]]
  <2>. HIDE DEF w, D
  <2>. QED BY <1>1 DEF Set
<1>. HIDE DEF w
<1>3. /\ y["consumed"] = t /\ y["exp"] = x["exp"]
      /\ y["user"] = x["user"] /\ y["attempts"] = x["attempts"]
  BY <1>1, <1>2
<1>. HIDE DEF y
<1>4. y = [user |-> y["user"], exp |-> y["exp"], attempts |-> y["attempts"],
           consumed |-> y["consumed"]]
  BY <1>2
<1>5. x.user \in User /\ x.exp \in Nat /\ x.attempts \in 0..MaxAttempts
  BY DEF Challenge
<1>. QED BY <1>3, <1>4, <1>5 DEF Challenge, y, w

-------------------------------------------------------------------------------
LEMMA InitIInv == Init => IInv
<1>. SUFFICES ASSUME Init PROVE IInv
  OBVIOUS
<1>1. Types
  <2>1. Blank \in Job
    BY DEF Blank, Job, Op, PC, Code
  <2>2. Columns(NoWrite)
    BY DEF Columns, NoWrite
  <2>. QED BY <2>1, <2>2, BoundAssumption DEF Init, Types, Zero
<1>2. \A r \in Req : job[r] = Blank /\ txn[r] = NoWrite
  BY DEF Init
<1>3. Local(Blank, NoWrite)
  BY NoneAssumption DEF Blank, NoWrite, Local, Place, CredFits, ChalFits, LockFits
<1>4. Apart
  BY <1>2 DEF Apart, Blank
<1>5. \A c \in Chal : chal[c] = None /\ granted[c] = 0
  BY DEF Init
<1>. QED BY <1>1, <1>2, <1>3, <1>4, <1>5 DEF IInv, GrantUsesUp, RedeemedInTime

-------------------------------------------------------------------------------
\* A step of one request that changes no table keeps the invariant if what the
\* request remembers and writes afterwards fits.
LEMMA OwnStep ==
    ASSUME IInv, NEW r \in Req, NEW j \in Job, NEW w, Columns(w), Local(j, w),
           \A q \in Req \ {r} : j.op = "login" /\ j.chal # None => job[q].chal # j.chal,
           \A q \in Req \ {r} : job[q].op = "login" /\ job[q].chal # None =>
               j.chal # job[q].chal,
           job' = [job EXCEPT ![r] = j], txn' = [txn EXCEPT ![r] = w],
           UNCHANGED <<now, active, tables, granted>>
    PROVE  IInv'
<1>1. Types /\ job' \in [Req -> Job] /\ DOMAIN txn' = Req
      /\ job'[r] = j /\ txn'[r] = w
      /\ \A q \in Req \ {r} : job'[q] = job[q] /\ txn'[q] = txn[q]
  BY DEF IInv, Types
<1>2. Types'
  BY <1>1 DEF Types, tables, Columns
<1>3. ASSUME NEW q \in Req
      PROVE  Local(job[q], txn[q])'
  <2>1. cred' = cred /\ chal' = chal
    BY DEF tables
  <2>2. PICK i, v : job'[q] = i /\ txn'[q] = v /\ Local(i, v)
    <3>1. CASE q = r
      BY <3>1, <1>1
    <3>2. CASE q # r
      BY <3>2, <1>1 DEF IInv
    <3>. QED BY <3>1, <3>2
  <2>3. Place(job'[q]) /\ LockFits(job'[q], txn'[q])
    BY <2>2 DEF Local
  <2>4. CredFits(job[q], txn[q])'
    BY <2>1, <2>2 DEF Local, CredFits
  <2>5. ChalFits(job[q], txn[q])'
    BY <2>1, <2>2 DEF Local, ChalFits
  <2>6. Place(job[q])' /\ LockFits(job[q], txn[q])'
    BY <2>3 DEF Place, LockFits
  <2>. QED BY <2>4, <2>5, <2>6 DEF Local
<1>4. Apart'
  BY <1>1 DEF IInv, Apart
<1>5. (\A c \in Chal : chal[c] = None => granted[c] = 0)' /\ GrantUsesUp' /\ RedeemedInTime'
  BY DEF IInv, GrantUsesUp, RedeemedInTime, tables
<1>. QED BY <1>2, <1>3, <1>4, <1>5 DEF IInv

-------------------------------------------------------------------------------
\* The start of a request.  What it remembers is its operation, a place in its
\* handler and the row it has read; it is given a challenge when it redeems one.
LEMMA StartStep ==
    ASSUME IInv, NEW r \in Req, NEW j \in Job, NEW w, Columns(w), Begin(r, j, w), Local(j, w),
           j.op = "login" => j.chal = None,
           j.chal # None => chal[j.chal] # None,
           UNCHANGED <<now, active, tables, ghosts>>
    PROVE  IInv'
<1>1. \A q \in Req : job[q].op = "login" /\ job[q].chal # None => chal[job[q].chal] = None
  BY DEF IInv, Local, ChalFits
<1>. QED BY <1>1, OwnStep, NoneAssumption DEF Begin, ghosts

LEMMA BeginLoginStep == ASSUME IInv, NEW r \in Req, NEW u \in User, NEW good \in BOOLEAN,
                               BeginLogin(r, u, good)
                        PROVE  IInv'
<1>. DEFINE x == [lock[u] EXCEPT !.until = None]
            y == IF good THEN [count |-> 0, until |-> None] ELSE Failure(x)
            j == [Blank EXCEPT !.op = "login", !.user = u, !.at = now,
                               !.pc = IF good THEN "factor" ELSE "bad"]
            w == [NoWrite EXCEPT !.lock = Changed(lock[u], y)]
<1>1. Begin(r, j, w) /\ UNCHANGED <<now, active, tables, ghosts>>
  BY DEF BeginLogin
<1>2. /\ j \in Job /\ j.op = "login" /\ j.user = u /\ j.chal = None
      /\ j.pc = IF good THEN "factor" ELSE "bad"
  <2>1. now \in Nat
    BY BoundAssumption DEF IInv, Types
  <2>2. (IF good THEN "factor" ELSE "bad") \in PC
    BY DEF PC
  <2>. HIDE DEF PC
  <2>. QED BY <2>1, <2>2 DEF Blank, Job, Op, Code
<1>3. Columns(w) /\ w.cred = <<>> /\ w.lock = Changed(lock[u], y)
  <2>. HIDE DEF y
  <2>. QED BY DEF NoWrite, Columns
<1>4. good => DOMAIN w.lock = {}
  <2>1. lock[u] = Zero
    BY DEF IInv, Types
  <2>2. good => y = Zero
    BY DEF Zero
  <2>3. DOMAIN Changed(Zero, Zero) = {}
    BY DEF Changed
  <2>. HIDE DEF y
  <2>. QED BY <1>3, <2>1, <2>2, <2>3
<1>. HIDE DEF j, w
<1>5. Local(j, w)
  BY <1>2, <1>3, <1>4 DEF Local, Place, CredFits, ChalFits, LockFits
<1>. QED BY <1>1, <1>2, <1>3, <1>5, StartStep

LEMMA BeginRedeemStep == ASSUME IInv, NEW r \in Req, NEW c \in Chal, NEW code \in Code,
                                BeginRedeem(r, c, code)
                         PROVE  IInv'
<1>. DEFINE x == chal[c]
            done == x.attempts >= MaxAttempts
            j == [Blank EXCEPT !.op = "redeem", !.user = x.user, !.chal = c, !.code = code,
                               !.at = now, !.row = x,
                               !.pc = IF ~Open(x, now) \/ done THEN "raise" ELSE "verify"]
            w == [NoWrite EXCEPT !.chal = IF Open(x, now) /\ done
                                            THEN [consumed |-> now] ELSE <<>>]
<1>1. Begin(r, j, w) /\ UNCHANGED <<now, active, tables, ghosts>> /\ chal[c] # None
  BY DEF BeginRedeem
<1>2. x \in Challenge /\ x.user \in User /\ now \in Nat
  BY <1>1, BoundAssumption DEF IInv, Types, Challenge
<1>3. /\ j \in Job /\ j.op = "redeem" /\ j.user \in User /\ j.chal = c /\ j.at = now
      /\ j.row = x /\ j.pc = IF ~Open(x, now) \/ done THEN "raise" ELSE "verify"
  <2>. HIDE DEF x, done
  <2>. QED BY <1>2 DEF Blank, Job, Op, PC, Code
<1>4. Columns(w) /\ w.cred = <<>> /\ w.lock = <<>>
  <2>. HIDE DEF done
  <2>. QED BY DEF NoWrite, Columns
<1>. HIDE DEF j, w, done
<1>5. Local(j, w)
  BY <1>1, <1>2, <1>3, <1>4, NoneAssumption
     DEF Local, Place, CredFits, ChalFits, LockFits, Open
<1>. QED BY <1>1, <1>3, <1>4, <1>5, StartStep

LEMMA BeginSetupStep == ASSUME IInv, NEW r \in Req, NEW u \in User, NEW s \in Secret,
                               BeginSetup(r, u, s)
                        PROVE  IInv'
<1>. DEFINE y == [status |-> "SETUP", secret |-> s]
            j == [Blank EXCEPT !.op = "setup", !.pc = "commit", !.user = u, !.code = s,
                               !.row = cred[u]]
            v == IF cred[u] = None THEN Insert(y) ELSE Changed(cred[u], y)
            w == [NoWrite EXCEPT !.cred = v]
<1>1. Begin(r, j, w) /\ UNCHANGED <<now, active, tables, ghosts>>
  BY DEF BeginSetup
<1>2. cred[u] \in Cred \union {None}
  BY DEF IInv, Types
<1>3. /\ j \in Job /\ j.op = "setup" /\ j.pc = "commit" /\ j.user = u /\ j.chal = None
      /\ j.row = cred[u]
  <2>1. cred[u] \in Cred \union Challenge \union {None}
    BY <1>2
  <2>. QED BY <2>1 DEF Blank, Job, Op, PC, Code
<1>4. Columns(w) /\ w.cred = v /\ w.lock = <<>>
  <2>. HIDE DEF v
  <2>. QED BY DEF NoWrite, Columns
<1>5. cred[u] = None => v \in Cred
  BY DEF Insert, Cred, Status
<1>6. cred[u] # None => CredColumns(v)
  BY DEF Changed, CredColumns, Status
<1>. HIDE DEF j, w, v
<1>7. Local(j, w)
  BY <1>3, <1>4, <1>5, <1>6, NoneAssumption DEF Local, Place, CredFits, ChalFits, LockFits
<1>. QED BY <1>1, <1>3, <1>4, <1>7, StartStep

\* Enabling and disabling: a right code sets columns of the row that was read.
LEMMA BeginChangeStep == ASSUME IInv, NEW r \in Req, NEW u \in User, NEW code \in Code,
                                BeginEnable(r, u, code) \/ BeginDisable(r, u, code)
                         PROVE  IInv'
<1>1. cred[u] \in Cred /\ cred[u] # None
  BY DEF BeginEnable, BeginDisable, IInv, Types
<1>2. ASSUME NEW op \in {"enable", "disable"}, NEW v, CredColumns(v) \/ v = <<>>,
             NEW pc \in {"commit", "raise"},
             Begin(r, [Blank EXCEPT !.op = op, !.user = u, !.code = code, !.row = cred[u],
                                    !.pc = pc],
                      [NoWrite EXCEPT !.cred = v]),
             UNCHANGED <<now, active, tables, ghosts>>
      PROVE  IInv'
  <2>. DEFINE j == [Blank EXCEPT !.op = op, !.user = u, !.code = code, !.row = cred[u], !.pc = pc]
              w == [NoWrite EXCEPT !.cred = v]
  <2>1. /\ j \in Job /\ j.op = op /\ j.pc = pc /\ j.user = u /\ j.chal = None
        /\ j.row = cred[u]
    BY <1>1 DEF Blank, Job, Op, PC, Code
  <2>2. Columns(w) /\ w.cred = v /\ w.lock = <<>>
    BY DEF NoWrite, Columns
  <2>3. Begin(r, j, w)
    BY <1>2
  <2>. HIDE DEF j, w
  <2>4. Local(j, w)
    BY <1>1, <1>2, <2>1, <2>2, NoneAssumption DEF Local, Place, CredFits, ChalFits, LockFits
  <2>. QED BY <1>2, <2>1, <2>2, <2>3, <2>4, StartStep
<1>3. CASE BeginEnable(r, u, code)
  <2>1. CredColumns([status |-> "ENABLED"])
    BY DEF CredColumns, Status
  <2>. QED BY <1>2, <1>3, <2>1 DEF BeginEnable
<1>4. CASE BeginDisable(r, u, code)
  <2>1. CredColumns(ClearSecret(cred[u]))
    BY DEF CredColumns, Status, ClearSecret, Changed
  <2>. QED BY <1>2, <1>4, <2>1 DEF BeginDisable
<1>. QED BY <1>3, <1>4

-------------------------------------------------------------------------------
\* The steps inside a handler.
LEMMA GotoIs == ASSUME IInv, NEW r \in Req, NEW l \in PC, NEW w, Goto(r, l, w)
                PROVE  /\ job' = [job EXCEPT ![r] = [job[r] EXCEPT !.pc = l]]
                       /\ txn' = [txn EXCEPT ![r] = w]
                       /\ [job[r] EXCEPT !.pc = l] \in Job
BY DEF Goto, IInv, Types, Job

\* A request that has no challenge to insert, or none of its own yet, is apart.
LEMMA GoStep ==
    ASSUME IInv, NEW r \in Req, NEW l \in PC, NEW w, Goto(r, l, w), Columns(w),
           Local([job[r] EXCEPT !.pc = l], w),
           UNCHANGED <<now, active, tables, ghosts>>
    PROVE  IInv'
<1>. DEFINE j == [job[r] EXCEPT !.pc = l]
<1>1. j \in Job /\ job' = [job EXCEPT ![r] = j] /\ txn' = [txn EXCEPT ![r] = w]
  BY GotoIs
<1>2. j.op = job[r].op /\ j.chal = job[r].chal
  BY DEF IInv, Types, Job
<1>. HIDE DEF j
<1>3. Local(j, w)
  BY DEF j
<1>4. /\ \A q \in Req \ {r} : j.op = "login" /\ j.chal # None => job[q].chal # j.chal
      /\ \A q \in Req \ {r} : job[q].op = "login" /\ job[q].chal # None =>
               j.chal # job[q].chal
  BY <1>2 DEF IInv, Apart
<1>. QED BY <1>1, <1>3, <1>4, OwnStep DEF ghosts

LEMMA JobFields == ASSUME IInv, NEW r \in Req, NEW l \in PC
                   PROVE  LET j == [job[r] EXCEPT !.pc = l]
                          IN  /\ j.pc = l /\ j.op = job[r].op /\ j.user = job[r].user
                              /\ j.chal = job[r].chal /\ j.at = job[r].at /\ j.row = job[r].row
BY DEF IInv, Types, Job

LEMMA ChooseFactorStep == ASSUME IInv, NEW r \in Req, ChooseFactor(r)
                          PROVE  IInv'
<1>1. /\ job[r] \in Job /\ Local(job[r], txn[r]) /\ Columns(txn[r]) /\ job[r].pc = "factor"
      /\ UNCHANGED <<now, active, tables, ghosts>>
  BY DEF ChooseFactor, At, IInv, Types
<1>2. /\ job[r].op = "login" /\ job[r].chal = None /\ job[r].user \in User
      /\ txn[r].cred = <<>> /\ DOMAIN txn[r].lock = {} /\ job[r].at \in Nat
  BY <1>1 DEF Local, Place, CredFits, LockFits, Job
<1>3. CASE Goto(r, "commit", txn[r])
  <2>1. "commit" \in PC
    BY DEF PC
  <2>. DEFINE j == [job[r] EXCEPT !.pc = "commit"]
  <2>2. j.pc = "commit" /\ j.op = "login" /\ j.chal = None /\ j.user \in User
    BY <1>2, <2>1, JobFields
  <2>. HIDE DEF j
  <2>3. Local(j, txn[r])
    BY <1>2, <2>2 DEF Local, Place, CredFits, ChalFits, LockFits
  <2>. QED BY <1>1, <1>3, <2>1, <2>3, GoStep DEF j
<1>4. ASSUME NEW c \in Chal, chal[c] = None, \A q \in Req : job[q].chal # c,
             job' = [job EXCEPT ![r].pc = "commit", ![r].chal = c],
             txn' = [txn EXCEPT ![r].chal = Insert([user |-> job[r].user, exp |-> job[r].at + TTL,
                                                    attempts |-> 0, consumed |-> None])]
      PROVE  IInv'
  <2>. DEFINE x == [user |-> job[r].user, exp |-> job[r].at + TTL, attempts |-> 0, consumed |-> None]
              j == [job[r] EXCEPT !.pc = "commit", !.chal = c]
              w == [txn[r] EXCEPT !.chal = x]
  <2>1. x \in Challenge /\ x.consumed = None
    BY <1>2, BoundAssumption DEF Challenge
  <2>. HIDE DEF x
  <2>2. /\ j \in Job /\ j.pc = "commit" /\ j.chal = c /\ j.op = "login" /\ j.user = job[r].user
    BY <1>1, <1>2 DEF Job, PC
  <2>3. Columns(w) /\ w.chal = x /\ w.cred = <<>> /\ DOMAIN w.lock = {}
    BY <1>1, <1>2 DEF Columns
  <2>4. job' = [job EXCEPT ![r] = j] /\ txn' = [txn EXCEPT ![r] = w]
    BY <1>4 DEF IInv, Types, Insert, x
  <2>. HIDE DEF j, w
  <2>5. Local(j, w)
    BY <1>2, <1>4, <2>1, <2>2, <2>3 DEF Local, Place, CredFits, ChalFits, LockFits
  <2>6. \A q \in Req \ {r} : job[q].chal # j.chal
    BY <1>4, <2>2
  <2>. QED BY <1>1, <2>2, <2>3, <2>4, <2>5, <2>6, OwnStep DEF ghosts
<1>. QED BY <1>3, <1>4 DEF ChooseFactor

LEMMA VerifyCodeStep == ASSUME IInv, NEW r \in Req, VerifyCode(r)
                        PROVE  IInv'
<1>1. /\ job[r] \in Job /\ Local(job[r], txn[r]) /\ Columns(txn[r]) /\ job[r].pc = "verify"
      /\ UNCHANGED <<now, active, tables, ghosts>>
  BY DEF VerifyCode, At, IInv, Types
<1>2. /\ job[r].op = "redeem" /\ job[r].chal # None /\ chal[job[r].chal] # None
      /\ job[r].user \in User /\ txn[r].cred = <<>> /\ DOMAIN txn[r].lock = {}
      /\ job[r].row \in Challenge /\ job[r].row.consumed = None
      /\ job[r].at < job[r].row.exp /\ job[r].row.exp = chal[job[r].chal].exp
  BY <1>1 DEF Local, Place, CredFits, ChalFits, LockFits
<1>3. "raise" \in PC /\ "user" \in PC
  BY DEF PC
<1>4. ASSUME NEW v, Goto(r, "raise", [txn[r] EXCEPT !.chal = v])
      PROVE  IInv'
  <2>. DEFINE j == [job[r] EXCEPT !.pc = "raise"]
              w == [txn[r] EXCEPT !.chal = v]
  <2>1. j.pc = "raise" /\ j.op = "redeem" /\ j.chal = job[r].chal /\ j.user \in User
    BY <1>2, <1>3, JobFields
  <2>2. Columns(w) /\ w.cred = <<>>
    BY <1>1, <1>2 DEF Columns
  <2>. HIDE DEF j, w
  <2>3. Local(j, w)
    BY <1>2, <2>1, <2>2 DEF Local, Place, CredFits, ChalFits, LockFits
  <2>. QED BY <1>1, <1>3, <1>4, <2>2, <2>3, GoStep DEF j, w
<1>5. ASSUME Goto(r, "user", [txn[r] EXCEPT !.chal = Consume(job[r].row, job[r].at)])
      PROVE  IInv'
  <2>. DEFINE j == [job[r] EXCEPT !.pc = "user"]
              v == Consume(job[r].row, job[r].at)
              w == [txn[r] EXCEPT !.chal = v]
  <2>1. /\ j.pc = "user" /\ j.op = "redeem" /\ j.chal = job[r].chal /\ j.user \in User
        /\ j.row = job[r].row /\ j.at = job[r].at
    BY <1>2, <1>3, JobFields
  <2>2. v = [consumed |-> job[r].at]
    BY <1>2 DEF Consume
  <2>. HIDE DEF v
  <2>3. Columns(w) /\ w.cred = <<>> /\ w.chal = v /\ DOMAIN w.lock = {}
    BY <1>1, <1>2 DEF Columns
  <2>. HIDE DEF j, w
  <2>4. Local(j, w)
    BY <1>2, <2>1, <2>2, <2>3 DEF Local, Place, CredFits, ChalFits, LockFits
  <2>. QED BY <1>1, <1>3, <1>5, <2>3, <2>4, GoStep DEF j, w, v
<1>6. CASE Goto(r, "raise", txn[r])
  <2>1. txn[r] = [txn[r] EXCEPT !.chal = txn[r].chal]
    BY <1>1 DEF Columns
  <2>. QED BY <1>4, <1>6, <2>1
<1>. QED BY <1>4, <1>5, <1>6 DEF VerifyCode

LEMMA CheckUserStep == ASSUME IInv, NEW r \in Req, CheckUser(r)
                       PROVE  IInv'
<1>1. /\ job[r] \in Job /\ Local(job[r], txn[r]) /\ Columns(txn[r]) /\ job[r].pc = "user"
      /\ UNCHANGED <<now, active, tables, ghosts>>
  BY DEF CheckUser, At, IInv, Types
<1>2. PICK l \in {"commit", "raise"} : Goto(r, l, txn[r])
  BY DEF CheckUser
<1>. DEFINE j == [job[r] EXCEPT !.pc = l]
<1>3. l \in PC
  BY DEF PC
<1>4. /\ j.pc = l /\ j.op = job[r].op /\ j.user = job[r].user
      /\ j.chal = job[r].chal /\ j.at = job[r].at /\ j.row = job[r].row
  BY <1>3, JobFields
<1>. HIDE DEF j
<1>5. Local(j, txn[r])
  BY <1>1, <1>4 DEF Local, Place, CredFits, ChalFits, LockFits
<1>. QED BY <1>1, <1>2, <1>3, <1>5, GoStep DEF j

-------------------------------------------------------------------------------
\* The end of a request leaves nothing behind but its commit.
LEMMA BlankFits == /\ Blank \in Job /\ Columns(NoWrite) /\ Local(Blank, NoWrite)
                   /\ Blank.chal = None
<1>1. Blank \in Job /\ Columns(NoWrite) /\ Blank.chal = None
  BY DEF Blank, Job, Op, PC, Code, Columns, NoWrite
<1>. QED BY <1>1 DEF Blank, NoWrite, Local, Place, CredFits, ChalFits, LockFits

LEMMA RaiseStep == ASSUME IInv, NEW r \in Req, Raise(r)
                   PROVE  IInv'
BY BlankFits, OwnStep DEF Raise, End

\* A commit of a challenge: a new row, or one that is used up before its end.
LEMMA CommitChallenge ==
    ASSUME IInv, NEW r \in Req, Commit(r)
    PROVE  /\ chal' \in [Chal -> Challenge \union {None}] /\ granted' \in [Chal -> Nat]
           /\ \A c \in Chal : chal[c] # None => chal'[c] # None /\ chal'[c].exp = chal[c].exp
           /\ \A c \in Chal : chal[c] = None /\ c # job[r].chal => chal'[c] = None
           /\ (\A c \in Chal : chal[c] = None => granted[c] = 0)'
           /\ GrantUsesUp' /\ RedeemedInTime'
<1>. DEFINE c == job[r].chal
            w == txn[r]
            old == chal[c]
            new == IF old = None THEN w.chal ELSE Set(old, w.chal)
<1>1. /\ job[r] \in Job /\ Local(job[r], txn[r]) /\ job[r].pc = "commit"
      /\ chal \in [Chal -> Challenge \union {None}] /\ granted \in [Chal -> Nat]
      /\ \A d \in Chal : chal[d] = None => granted[d] = 0
      /\ GrantUsesUp /\ RedeemedInTime
  BY DEF Commit, At, IInv, Types
<1>2. chal' = IF c = None THEN chal ELSE [chal EXCEPT ![c] = new]
  BY DEF Commit
<1>3. granted' = IF job[r].op = "redeem" THEN [granted EXCEPT ![c] = @ + 1] ELSE granted
  BY DEF Commit
<1>4. CASE c = None
  <2>1. job[r].op # "redeem"
    BY <1>1, <1>4 DEF Local, ChalFits
  <2>2. chal' = chal /\ granted' = granted
    BY <2>1, <1>2, <1>3, <1>4
  <2>. QED BY <1>1, <1>4, <2>2, NoneAssumption DEF GrantUsesUp, RedeemedInTime
<1>5. CASE c # None /\ job[r].op = "login"
  <2>1. c \in Chal /\ old = None /\ w.chal \in Challenge /\ w.chal.consumed = None
    BY <1>1, <1>5 DEF Local, ChalFits, Job
  <2>2. chal' = [chal EXCEPT ![c] = w.chal] /\ granted' = granted /\ granted[c] = 0
    BY <2>1, <1>1, <1>2, <1>3, <1>5
  <2>3. w.chal # None
    BY <2>1, NoneAssumption
  <2>. HIDE DEF c, w, old, new
  <2>4. chal'[c] = w.chal /\ \A d \in Chal \ {c} : chal'[d] = chal[d]
    BY <1>1, <2>1, <2>2
  <2>5. chal' \in [Chal -> Challenge \union {None}]
    BY <1>1, <2>1, <2>2
  <2>6. \A d \in Chal : chal[d] # None => d # c
    BY <2>1 DEF old
  <2>7. GrantUsesUp'
    BY <1>1, <2>1, <2>2, <2>4 DEF GrantUsesUp
  <2>8. RedeemedInTime'
    BY <1>1, <2>1, <2>2, <2>4 DEF RedeemedInTime
  <2>9. (\A d \in Chal : chal[d] = None => granted[d] = 0)'
    BY <1>1, <2>2, <2>3, <2>4
  <2>. QED BY <1>1, <2>2, <2>4, <2>5, <2>6, <2>7, <2>8, <2>9 DEF c
<1>6. CASE c # None /\ job[r].op = "redeem"
  <2>1. /\ c \in Chal /\ old # None /\ old \in Challenge
        /\ w.chal = [consumed |-> job[r].at] /\ job[r].at \in Nat /\ job[r].at < old.exp
    BY <1>1, <1>6 DEF Local, ChalFits, Job
  <2>2. /\ new \in Challenge /\ new.consumed = job[r].at /\ new.exp = old.exp
    BY <2>1, SetConsumed
  <2>3. new # None /\ job[r].at # None
    BY <2>1, <2>2, NoneAssumption
  <2>4. chal' = [chal EXCEPT ![c] = new] /\ granted' = [granted EXCEPT ![c] = @ + 1]
    BY <1>2, <1>3, <1>6
  <2>. HIDE DEF c, w, new
  <2>5. chal'[c] = new /\ \A d \in Chal \ {c} : chal'[d] = chal[d]
    BY <1>1, <2>1, <2>4
  <2>6. granted'[c] = granted[c] + 1 /\ \A d \in Chal \ {c} : granted'[d] = granted[d]
    BY <1>1, <2>1, <2>4
  <2>7. granted' \in [Chal -> Nat] /\ granted[c] \in Nat
    BY <1>1, <2>1, <2>4
  <2>8. chal' \in [Chal -> Challenge \union {None}]
    BY <1>1, <2>1, <2>2, <2>4
  <2>9. \A d \in Chal : chal[d] # None => chal'[d] # None /\ chal'[d].exp = chal[d].exp
    BY <2>2, <2>3, <2>5 DEF old
  <2>10. GrantUsesUp'
    BY <1>1, <2>2, <2>3, <2>5, <2>6, <2>7 DEF GrantUsesUp
  <2>11. RedeemedInTime'
    BY <1>1, <2>1, <2>2, <2>3, <2>5 DEF RedeemedInTime
  <2>12. (\A d \in Chal : chal[d] = None => granted[d] = 0)'
    BY <1>1, <2>3, <2>5, <2>6
  <2>. QED BY <2>5, <2>7, <2>8, <2>9, <2>10, <2>11, <2>12 DEF c
<1>7. c # None => job[r].op \in {"login", "redeem"}
  BY <1>1 DEF Local, ChalFits
<1>. HIDE DEF new, old, w
<1>. QED BY <1>4, <1>5, <1>6, <1>7

\* A commit of a credential: it stays one, and stays.
LEMMA CommitCredential ==
    ASSUME IInv, NEW r \in Req, Commit(r)
    PROVE  /\ cred' \in [User -> Cred \union {None}]
           /\ \A u \in User : cred[u] # None => cred'[u] # None
<1>. DEFINE u == job[r].user
            v == txn[r].cred
            new == IF cred[u] = None THEN IF v = <<>> THEN None ELSE v ELSE Set(cred[u], v)
<1>1. /\ job[r] \in Job /\ Local(job[r], txn[r]) /\ job[r].pc = "commit"
      /\ cred \in [User -> Cred \union {None}] /\ u \in User
  BY DEF Commit, At, IInv, Types, Local, Place
<1>2. cred' = [cred EXCEPT ![u] = new]
  BY DEF Commit
<1>3. ~Conflict(r)
  BY DEF Commit
<1>4. new \in Cred \/ (cred[u] = None /\ new = None)
  <2>1. CASE v = <<>>
    <3>1. CredColumns(v)
      BY <2>1 DEF CredColumns
    <3>. QED BY <1>1, <2>1, <3>1, SetCred
  <2>2. CASE v # <<>> /\ job[r].op = "setup" /\ job[r].row = None
    BY <1>1, <1>3, <2>2 DEF Conflict, Local, CredFits
  <2>3. CASE v # <<>> /\ (job[r].op = "setup" => job[r].row # None)
    <3>1. CredColumns(v) /\ cred[u] # None
      BY <1>1, <2>3 DEF Local, CredFits
    <3>. QED BY <1>1, <3>1, SetCred
  <2>. QED BY <2>1, <2>2, <2>3
<1>. HIDE DEF u, v, new
<1>. QED BY <1>1, <1>2, <1>4, NoneAssumption

\* A commit leaves every account unlocked and every count at zero.
LEMMA CommitLock == ASSUME IInv, NEW r \in Req, Commit(r)
                    PROVE  lock' = [u \in User |-> Zero]
<1>1. /\ job[r].user \in User /\ lock = [u \in User |-> Zero] /\ DOMAIN txn[r].lock = {}
  BY DEF Commit, At, IInv, Types, Local, Place, LockFits
<1>2. lock' = [lock EXCEPT ![job[r].user] = Set(lock[job[r].user], txn[r].lock)]
  BY DEF Commit
<1>3. Set(lock[job[r].user], txn[r].lock) = Zero
  BY <1>1, SetEmpty
<1>. QED BY <1>1, <1>2, <1>3

LEMMA CommitStep == ASSUME IInv, NEW r \in Req, Commit(r)
                    PROVE  IInv'
<1>1. /\ Types /\ job' = [job EXCEPT ![r] = Blank] /\ txn' = [txn EXCEPT ![r] = NoWrite]
      /\ UNCHANGED <<now, active>>
  BY DEF Commit, End, IInv
<1>2. /\ job' \in [Req -> Job] /\ DOMAIN txn' = Req /\ job'[r] = Blank /\ txn'[r] = NoWrite
      /\ \A q \in Req \ {r} : job'[q] = job[q] /\ txn'[q] = txn[q]
  BY <1>1, BlankFits DEF Types
<1>3. Types'
  BY <1>1, <1>2, BlankFits, CommitChallenge, CommitCredential, CommitLock DEF Types, Columns
<1>4. Local(Blank, NoWrite)'
  BY BlankFits DEF Blank, NoWrite, Local, Place, CredFits, ChalFits, LockFits
<1>5. Local(job[r], txn[r])'
  BY <1>2, <1>4 DEF Local, Place, CredFits, ChalFits, LockFits
<1>6. ASSUME NEW q \in Req \ {r}
      PROVE  Local(job[q], txn[q])'
  <2>1. Local(job[q], txn[q]) /\ job[q] \in Job /\ job'[q] = job[q] /\ txn'[q] = txn[q]
    BY <1>1, <1>2 DEF IInv, Types
  <2>2. Place(job[q])' /\ LockFits(job[q], txn[q])'
    BY <2>1 DEF Local, Place, LockFits
  <2>3. CredFits(job[q], txn[q])'
    <3>1. job[q].pc = "commit" => job[q].user \in User
      BY <2>1 DEF Local, Place
    <3>2. job[q].pc = "commit" /\ cred[job[q].user] # None => cred'[job[q].user] # None
      BY <3>1, CommitCredential
    <3>. QED BY <2>1, <3>2 DEF Local, CredFits
  <2>4. ChalFits(job[q], txn[q])'
    <3>1. job[q].chal # None => job[q].chal \in Chal
      BY <2>1 DEF Job
    <3>2. job[q].op = "login" /\ job[q].chal # None /\ chal[job[q].chal] = None
             => chal'[job[q].chal] = None
      BY <3>1, CommitChallenge DEF IInv, Apart
    <3>3. job[q].chal # None /\ chal[job[q].chal] # None
             => chal'[job[q].chal] # None /\ chal'[job[q].chal].exp = chal[job[q].chal].exp
      BY <3>1, CommitChallenge
    <3>. QED BY <2>1, <3>2, <3>3 DEF Local, ChalFits
  <2>. QED BY <2>2, <2>3, <2>4 DEF Local
<1>7. Apart'
  BY <1>2, BlankFits DEF IInv, Apart
<1>. QED BY <1>3, <1>5, <1>6, <1>7, CommitChallenge DEF IInv

-------------------------------------------------------------------------------
\* Time, changes of status and stuttering.
LEMMA AsideStep == ASSUME IInv, now' \in 0..MaxNow, active' \subseteq User,
                          UNCHANGED <<tables, ghosts, job, txn>>
                   PROVE  IInv'
<1>1. UNCHANGED <<lock, cred, chal, granted, job, txn>>
  BY DEF tables, ghosts
<1>2. Types' /\ Apart'
  BY <1>1 DEF IInv, Types, Columns, Apart
<1>3. \A r \in Req : Local(job[r], txn[r])'
  BY <1>1 DEF IInv, Local, Place, CredFits, ChalFits, LockFits
<1>4. (\A c \in Chal : chal[c] = None => granted[c] = 0)' /\ GrantUsesUp' /\ RedeemedInTime'
  BY <1>1 DEF IInv, GrantUsesUp, RedeemedInTime
<1>. QED BY <1>2, <1>3, <1>4 DEF IInv

LEMMA StepIInv == ASSUME IInv, [Next]_vars PROVE IInv'
<1>1. CASE Tick
  <2>1. now' \in 0..MaxNow
    BY <1>1, BoundAssumption DEF Tick, IInv, Types
  <2>. QED BY <1>1, <2>1, AsideStep DEF Tick, IInv, Types
<1>2. ASSUME NEW u \in User, ChangeStatus(u) PROVE IInv'
  BY <1>2, AsideStep DEF ChangeStatus, IInv, Types
<1>3. CASE UNCHANGED vars
  BY <1>3, AsideStep DEF vars, tables, ghosts, IInv, Types
<1>4. ASSUME NEW r \in Req, Start(r) PROVE IInv'
  BY <1>4, BeginLoginStep, BeginRedeemStep, BeginSetupStep, BeginChangeStep DEF Start
<1>5. ASSUME NEW r \in Req,
             ChooseFactor(r) \/ VerifyCode(r) \/ CheckUser(r) \/ Commit(r) \/ Raise(r)
      PROVE  IInv'
  BY <1>5, ChooseFactorStep, VerifyCodeStep, CheckUserStep, CommitStep, RaiseStep
<1>. QED BY <1>1, <1>2, <1>3, <1>4, <1>5 DEF Next

-------------------------------------------------------------------------------
\* What requests remember and write fits the rows as they are, in every reachable
\* state of password checks, redemptions and changes of credentials.
THEOREM Invariant == Spec => []IInv
BY InitIInv, StepIInv, PTL DEF Spec

\* Rows keep their types, whichever columns of whichever stale copy are written.
THEOREM TypeCorrect == Spec => []TypeOK
<1>1. ASSUME IInv PROVE TypeOK
  <2>1. Zero \in Lock
    BY BoundAssumption DEF Zero, Lock
  <2>2. \A r \in Req : job[r].op \in Op /\ job[r].pc \in PC
    BY <1>1 DEF IInv, Types, Job
  <2>. QED BY <1>1, <2>1, <2>2 DEF IInv, Types, TypeOK
<1>. QED BY <1>1, Invariant, PTL

\* The session of a redeemed challenge and its used-up mark appear together
\* (GrantUsesUp), however redemptions overlap.
THEOREM GrantsUseUp == Spec => []GrantUsesUp
<1>1. IInv => GrantUsesUp
  BY DEF IInv
<1>. QED BY <1>1, Invariant, PTL

\* A challenge is used up before the end of its life, if at all (RedeemedInTime).
THEOREM InTime == Spec => []RedeemedInTime
<1>1. IInv => RedeemedInTime
  BY DEF IInv
<1>. QED BY <1>1, Invariant, PTL

\* No account is ever locked and no failure ever counted: the refusal of a wrong
\* password raises, and get_db rolls the count back (services/auth.py).
THEOREM NeverLocked == Spec => [](\A u \in User : lock[u] = [count |-> 0, until |-> None])
<1>1. IInv => \A u \in User : lock[u] = [count |-> 0, until |-> None]
  BY DEF IInv, Types, Zero
<1>. QED BY <1>1, Invariant, PTL

-------------------------------------------------------------------------------
\* One request after the other.  The row a request has read is still the row, and
\* its writes make of it what the operation is for.
Alone == \A q, r \in Req : q # r => job[q].pc = "idle" \/ job[r].pc = "idle"

Fresh(secret) == [status |-> "SETUP", secret |-> secret]
Cleared       == [status |-> "DISABLED", secret |-> None]

Current(j, w) ==
    /\ j.op = "redeem" /\ j.pc \in {"verify", "user", "commit"} => j.row = chal[j.chal]
    /\ j.op \in {"setup", "enable", "disable"} /\ j.pc = "commit" =>
         /\ j.row = cred[j.user]
         /\ j.op = "setup" => w.cred = IF j.row = None THEN Fresh(j.code)
                                                       ELSE Changed(j.row, Fresh(j.code))
         /\ j.op = "enable" => /\ j.row # None /\ j.row.secret = j.code
                               /\ w.cred = [status |-> "ENABLED"]
         /\ j.op = "disable" => j.row # None /\ w.cred = Changed(j.row, Cleared)

Serial == ~together =>
    /\ Alone
    /\ \A r \in Req : Current(job[r], txn[r])
    /\ DOMAIN shown = User
    /\ OneTime /\ EnabledIsProven /\ DisabledKeepsNothing

\* The columns that differ make the old row the new one; no columns leave it.
LEMMA SetChanged == ASSUME NEW x \in Cred, NEW y \in Cred
                    PROVE  Set(x, Changed(x, y)) = y /\ Set(x, <<>>) = x
<1>. DEFINE D == {"status", "secret"}
            w == Changed(x, y)
<1>1. DOMAIN x = D /\ DOMAIN y = D /\ x = [c \in D |-> x[c]] /\ y = [c \in D |-> y[c]]
  BY DEF Cred
<1>2. w = [c \in {c \in D : y[c] # x[c]} |-> y[c]]
  BY <1>1 DEF Changed
<1>. HIDE DEF D, w
<1>3. DOMAIN w = {c \in D : y[c] # x[c]} /\ \A c \in DOMAIN w : w[c] = y[c]
  BY <1>2
<1>4. Set(x, w) = [c \in D |-> y[c]]
  BY <1>1, <1>3 DEF Set
<1>5. Set(x, <<>>) = [c \in D |-> x[c]]
  BY <1>1 DEF Set
<1>. QED BY <1>1, <1>4, <1>5 DEF w

LEMMA SetEnabled == ASSUME NEW x \in Cred
                    PROVE  /\ Set(x, [status |-> "ENABLED"]).status = "ENABLED"
                           /\ Set(x, [status |-> "ENABLED"]).secret = x.secret
<1>1. DOMAIN x = {"status", "secret"}
  BY DEF Cred
<1>. QED BY <1>1 DEF Set

\* While one follows the other, all that a step before the commit must keep is
\* that what its request remembers is current.
LEMMA SerialOwn ==
    ASSUME IInv, Serial, NEW r \in Req, ~together' => ~together /\ Alone',
           UNCHANGED <<cred, chal, granted, shown>>,
           \A q \in Req \ {r} : job'[q] = job[q] /\ txn'[q] = txn[q],
           ~together => Current(job[r], txn[r])'
    PROVE  Serial'
<1>. SUFFICES ASSUME ~together' PROVE Serial'
  BY DEF Serial
<1>1. ~together /\ Alone' /\ DOMAIN shown' = User
  BY DEF Serial
<1>2. OneTime' /\ EnabledIsProven' /\ DisabledKeepsNothing'
  BY <1>1 DEF Serial, OneTime, EnabledIsProven, DisabledKeepsNothing
<1>3. ASSUME NEW q \in Req PROVE Current(job[q], txn[q])'
  <2>1. CASE q = r
    BY <1>1, <2>1
  <2>2. CASE q # r
    <3>1. Current(job[q], txn[q])
      BY <1>1 DEF Serial
    <3>2. job'[q] = job[q] /\ txn'[q] = txn[q]
      BY <2>2
    <3>. QED BY <3>1, <3>2 DEF Current
  <2>. QED BY <2>1, <2>2
<1>. QED BY <1>1, <1>2, <1>3 DEF Serial

\* The start of a request: it has just read what it remembers.
LEMMA SerialStart ==
    ASSUME IInv, Serial, NEW r \in Req, ~together' => ~together /\ Alone', Start(r)
    PROVE  Serial'
<1>1. job \in [Req -> Job] /\ DOMAIN txn = Req /\ cred \in [User -> Cred \union {None}]
  BY DEF IInv, Types
<1>2. ASSUME NEW j, NEW w, Begin(r, j, w), UNCHANGED <<now, active, tables, ghosts>>,
             Current(j, w)
      PROVE  Serial'
  <2>1. job'[r] = j /\ txn'[r] = w /\ \A q \in Req \ {r} : job'[q] = job[q] /\ txn'[q] = txn[q]
    BY <1>1, <1>2 DEF Begin
  <2>2. UNCHANGED <<cred, chal, granted, shown>>
    BY <1>2 DEF tables, ghosts
  <2>3. Current(job[r], txn[r])'
    BY <1>2, <2>1, <2>2 DEF Current
  <2>. QED BY <2>1, <2>2, <2>3, SerialOwn
<1>3. ASSUME NEW u \in User, NEW good \in BOOLEAN, BeginLogin(r, u, good) PROVE Serial'
  <2>. DEFINE y == IF good THEN [count |-> 0, until |-> None]
                           ELSE Failure([lock[u] EXCEPT !.until = None])
              j == [Blank EXCEPT !.op = "login", !.user = u, !.at = now,
                                 !.pc = IF good THEN "factor" ELSE "bad"]
              w == [NoWrite EXCEPT !.lock = Changed(lock[u], y)]
  <2>1. Begin(r, j, w) /\ UNCHANGED <<now, active, tables, ghosts>>
    BY <1>3 DEF BeginLogin
  <2>2. j.op = "login"
    BY DEF Blank
  <2>. HIDE DEF j, w
  <2>. QED BY <1>2, <2>1, <2>2 DEF Current
<1>4. ASSUME NEW c \in Chal, NEW code \in Code, BeginRedeem(r, c, code) PROVE Serial'
  <2>. DEFINE x == chal[c]
              done == x.attempts >= MaxAttempts
              j == [Blank EXCEPT !.op = "redeem", !.user = x.user, !.chal = c, !.code = code,
                                 !.at = now, !.row = x,
                                 !.pc = IF ~Open(x, now) \/ done THEN "raise" ELSE "verify"]
              w == [NoWrite EXCEPT !.chal = IF Open(x, now) /\ done
                                              THEN [consumed |-> now] ELSE <<>>]
  <2>1. Begin(r, j, w) /\ UNCHANGED <<now, active, tables, ghosts>>
    BY <1>4 DEF BeginRedeem
  <2>2. j.op = "redeem" /\ j.row = chal[j.chal]
    BY DEF Blank
  <2>. HIDE DEF j, w
  <2>. QED BY <1>2, <2>1, <2>2 DEF Current
<1>5. ASSUME NEW u \in User, NEW s \in Secret, BeginSetup(r, u, s) PROVE Serial'
  <2>. DEFINE j == [Blank EXCEPT !.op = "setup", !.pc = "commit", !.user = u, !.code = s,
                                 !.row = cred[u]]
              v == IF cred[u] = None THEN Fresh(s) ELSE Changed(cred[u], Fresh(s))
              w == [NoWrite EXCEPT !.cred = v]
  <2>1. Begin(r, j, w) /\ UNCHANGED <<now, active, tables, ghosts>>
    BY <1>5 DEF BeginSetup, Fresh, Insert
  <2>2. j.op = "setup" /\ j.row = cred[j.user] /\ j.code = s /\ j.user = u
    BY DEF Blank
  <2>3. w.cred = v
    <3>. HIDE DEF v
    <3>. QED BY DEF NoWrite
  <2>. HIDE DEF j, w
  <2>. QED BY <1>2, <2>1, <2>2, <2>3 DEF Current
<1>6. ASSUME NEW u \in User, NEW code \in Code, BeginEnable(r, u, code) PROVE Serial'
  <2>. DEFINE right == code = cred[u].secret
              j == [Blank EXCEPT !.op = "enable", !.user = u, !.code = code, !.row = cred[u],
                                 !.pc = IF right THEN "commit" ELSE "raise"]
              w == [NoWrite EXCEPT !.cred = IF right THEN [status |-> "ENABLED"] ELSE <<>>]
  <2>1. Begin(r, j, w) /\ UNCHANGED <<now, active, tables, ghosts>> /\ cred[u] # None
    BY <1>6 DEF BeginEnable
  <2>2. j.op = "enable" /\ j.row = cred[u] /\ j.code = code /\ j.user = u
        /\ (j.pc = "commit" => right)
    <3>. HIDE DEF right
    <3>. QED BY DEF Blank
  <2>3. right => w.cred = [status |-> "ENABLED"]
    BY DEF NoWrite
  <2>. HIDE DEF j, w
  <2>. QED BY <1>2, <2>1, <2>2, <2>3 DEF Current
<1>7. ASSUME NEW u \in User, NEW code \in Code, BeginDisable(r, u, code) PROVE Serial'
  <2>. DEFINE right == code = cred[u].secret
              j == [Blank EXCEPT !.op = "disable", !.user = u, !.code = code, !.row = cred[u],
                                 !.pc = IF right THEN "commit" ELSE "raise"]
              w == [NoWrite EXCEPT !.cred = IF right THEN ClearSecret(cred[u]) ELSE <<>>]
  <2>1. Begin(r, j, w) /\ UNCHANGED <<now, active, tables, ghosts>> /\ cred[u] # None
    BY <1>7 DEF BeginDisable
  <2>2. j.op = "disable" /\ j.row = cred[u] /\ j.user = u /\ (j.pc = "commit" => right)
    <3>. HIDE DEF right
    <3>. QED BY DEF Blank
  <2>3. right => w.cred = Changed(cred[u], Cleared)
    BY DEF NoWrite, ClearSecret, Cleared
  <2>. HIDE DEF j, w
  <2>. QED BY <1>2, <2>1, <2>2, <2>3 DEF Current
<1>. QED BY <1>3, <1>4, <1>5, <1>6, <1>7 DEF Start

\* The steps inside a handler remember what they knew.
LEMMA SerialGo ==
    ASSUME IInv, Serial, NEW r \in Req, ~together' => ~together /\ Alone',
           ChooseFactor(r) \/ VerifyCode(r) \/ CheckUser(r) \/ Raise(r)
    PROVE  Serial'
<1>1. /\ job \in [Req -> Job] /\ DOMAIN txn = Req /\ Local(job[r], txn[r])
      /\ ~together => Current(job[r], txn[r])
  BY DEF IInv, Types, Serial
<1>2. UNCHANGED <<cred, chal, granted, shown>>
  BY DEF ChooseFactor, VerifyCode, CheckUser, Raise, tables, ghosts
<1>3. \A q \in Req \ {r} : job'[q] = job[q] /\ txn'[q] = txn[q]
  BY <1>1 DEF ChooseFactor, VerifyCode, CheckUser, Raise, Goto, End
<1>4. CASE ChooseFactor(r)
  <2>1. job[r].op = "login"
    BY <1>1, <1>4 DEF ChooseFactor, At, Local, Place
  <2>2. job'[r].op = "login"
    BY <1>1, <1>4, <2>1 DEF ChooseFactor, Goto, Job
  <2>. QED BY <1>2, <1>3, <2>2, SerialOwn DEF Current
<1>5. CASE VerifyCode(r) \/ CheckUser(r)
  <2>1. job[r].op = "redeem" /\ job[r].pc \in {"verify", "user"}
    BY <1>1, <1>5 DEF VerifyCode, CheckUser, At, Local, Place
  <2>2. PICK l \in PC : \E w : Goto(r, l, w)
    BY <1>5 DEF VerifyCode, CheckUser, PC
  <2>3. job'[r].op = "redeem" /\ job'[r].row = job[r].row /\ job'[r].chal = job[r].chal
    BY <1>1, <2>1, <2>2 DEF Goto, Job
  <2>. QED BY <1>1, <1>2, <1>3, <2>1, <2>3, SerialOwn DEF Current
<1>6. CASE Raise(r)
  <2>1. job'[r] = Blank
    BY <1>1, <1>6 DEF Raise, End
  <2>. QED BY <1>2, <1>3, <2>1, SerialOwn DEF Current, Blank
<1>. QED BY <1>4, <1>5, <1>6

\* A challenge that is redeemed was unused when it was read, and is so still.
LEMMA SerialGrant ==
    ASSUME IInv, Serial, ~together, NEW r \in Req, Commit(r)
    PROVE  OneTime'
<1>. DEFINE c == job[r].chal
<1>1. /\ granted \in [Chal -> Nat] /\ OneTime /\ GrantUsesUp /\ job[r] \in Job
      /\ Local(job[r], txn[r]) /\ Current(job[r], txn[r]) /\ job[r].pc = "commit"
  BY DEF IInv, Types, Serial, Commit, At
<1>2. CASE job[r].op # "redeem"
  BY <1>1, <1>2 DEF Commit, OneTime
<1>3. CASE job[r].op = "redeem"
  <2>1. c \in Chal /\ chal[c] # None /\ chal[c].consumed = None
    BY <1>1, <1>3 DEF Local, ChalFits, Current, Job
  <2>2. granted[c] = 0
    BY <1>1, <2>1 DEF GrantUsesUp
  <2>3. granted' = [granted EXCEPT ![c] = @ + 1]
    BY <1>3 DEF Commit
  <2>. QED BY <1>1, <2>1, <2>2, <2>3 DEF OneTime
<1>. QED BY <1>2, <1>3

\* What becomes of the credential: a login and a redemption leave it, the others
\* make of it what they are for, with the code they were given.
LEMMA SerialCredential ==
    ASSUME IInv, Serial, ~together, NEW r \in Req, Commit(r)
    PROVE  LET j == job[r]
           IN  /\ j.user \in User /\ \A u \in User \ {j.user} : cred'[u] = cred[u]
               /\ j.op \in {"none", "login", "redeem"} => cred'[j.user] = cred[j.user]
               /\ j.op = "setup"   => cred'[j.user] = Fresh(j.code)
               /\ j.op = "enable"  => cred'[j.user].status = "ENABLED" /\ cred'[j.user].secret = j.code
               /\ j.op = "disable" => cred'[j.user] = Cleared
<1>. DEFINE j == job[r]
            u == j.user
            v == txn[r].cred
            new == IF cred[u] = None THEN IF v = <<>> THEN None ELSE v ELSE Set(cred[u], v)
<1>1. /\ j \in Job /\ Local(j, txn[r]) /\ j.pc = "commit" /\ Current(j, txn[r])
      /\ cred \in [User -> Cred \union {None}] /\ u \in User
  BY DEF Commit, At, IInv, Types, Local, Place, Serial
<1>2. cred' = [cred EXCEPT ![u] = new]
  BY DEF Commit
<1>3. ~Conflict(r)
  BY DEF Commit
<1>4. cred'[u] = new /\ \A x \in User \ {u} : cred'[x] = cred[x]
  BY <1>1, <1>2
<1>5. cred[u] # None => cred[u] \in Cred
  BY <1>1
<1>6. CASE j.op \in {"none", "login", "redeem"}
  <2>1. v = <<>>
    BY <1>1, <1>6 DEF Local, CredFits
  <2>2. new = cred[u]
    BY <1>5, <2>1, SetChanged
  <2>. QED BY <1>1, <1>4, <1>6, <2>2
<1>7. CASE j.op = "setup"
  <2>1. j.row = cred[u] /\ v = IF cred[u] = None THEN Fresh(j.code)
                                                 ELSE Changed(cred[u], Fresh(j.code))
    BY <1>1, <1>7 DEF Current
  <2>2. CASE cred[u] = None
    <3>1. v \in Cred /\ v = Fresh(j.code)
      BY <1>1, <1>7, <2>1, <2>2 DEF Local, CredFits
    <3>2. v # <<>>
      <4>1. "status" \in DOMAIN v
        BY <3>1 DEF Fresh
      <4>. QED BY <4>1
    <3>. QED BY <1>1, <1>4, <1>7, <2>2, <3>1, <3>2
  <2>3. CASE cred[u] # None
    <3>1. j.code \in Secret \union {None}
      BY <1>1 DEF Job, Code
    <3>2. Fresh(j.code) \in Cred
      BY <3>1 DEF Fresh, Cred, Status
    <3>3. new = Fresh(j.code)
      BY <1>5, <2>1, <2>3, <3>2, SetChanged
    <3>. QED BY <1>1, <1>4, <1>7, <3>3
  <2>. QED BY <2>2, <2>3
<1>8. CASE j.op = "enable"
  <2>1. j.row = cred[u] /\ cred[u] # None /\ cred[u].secret = j.code /\ v = [status |-> "ENABLED"]
    BY <1>1, <1>8 DEF Current
  <2>2. new = Set(cred[u], [status |-> "ENABLED"])
    BY <2>1
  <2>3. new.status = "ENABLED" /\ new.secret = j.code
    BY <1>5, <2>1, <2>2, SetEnabled
  <2>. QED BY <1>1, <1>4, <1>8, <2>3
<1>9. CASE j.op = "disable"
  <2>1. j.row = cred[u] /\ cred[u] # None /\ v = Changed(cred[u], Cleared)
    BY <1>1, <1>9 DEF Current
  <2>2. Cleared \in Cred
    BY DEF Cleared, Cred, Status
  <2>3. new = Cleared
    BY <1>5, <2>1, <2>2, SetChanged
  <2>. QED BY <1>1, <1>4, <1>9, <2>3
<1>10. j.op \in {"none", "login", "redeem", "setup", "enable", "disable"}
  BY <1>1 DEF Job, Op
<1>. QED BY <1>6, <1>7, <1>8, <1>9, <1>10

\* A request that commits alone leaves nobody with a row that is no longer so.
LEMMA SerialCommit ==
    ASSUME IInv, Serial, NEW r \in Req, ~together' => ~together /\ Alone', Commit(r)
    PROVE  Serial'
<1>. SUFFICES ASSUME ~together' PROVE Serial'
  BY DEF Serial
<1>. DEFINE j == job[r]
<1>1. /\ ~together /\ Alone /\ DOMAIN shown = User /\ EnabledIsProven /\ DisabledKeepsNothing
      /\ job \in [Req -> Job] /\ DOMAIN txn = Req /\ job[r].pc = "commit"
  BY DEF Serial, IInv, Types, Commit, At
<1>2. ASSUME NEW q \in Req PROVE Current(job[q], txn[q])'
  <2>1. job'[q].pc = "idle"
    <3>1. CASE q = r
      BY <1>1, <3>1 DEF Commit, End, Blank
    <3>2. CASE q # r
      BY <1>1, <3>2 DEF Commit, End, Alone
    <3>. QED BY <3>1, <3>2
  <2>. QED BY <2>1 DEF Current
<1>3. shown' = IF j.op = "enable" THEN [shown EXCEPT ![j.user] = @ \union {j.code}] ELSE shown
  BY DEF Commit
<1>4. j.op \in {"none", "login", "redeem", "setup", "enable", "disable"}
  BY <1>1 DEF Job, Op
<1>5. /\ j.user \in User /\ \A u \in User \ {j.user} : cred'[u] = cred[u]
      /\ j.op \in {"none", "login", "redeem"} => cred'[j.user] = cred[j.user]
      /\ j.op = "setup"   => cred'[j.user] = Fresh(j.code)
      /\ j.op = "enable"  => cred'[j.user].status = "ENABLED" /\ cred'[j.user].secret = j.code
      /\ j.op = "disable" => cred'[j.user] = Cleared
  BY <1>1, SerialCredential
<1>. HIDE DEF j
<1>6. DOMAIN shown' = User /\ \A u \in User : shown[u] \subseteq shown'[u]
  BY <1>1, <1>3, <1>5
<1>7. j.op = "enable" => j.code \in shown'[j.user]
  BY <1>1, <1>3, <1>5
<1>8. EnabledIsProven'
  <2>. SUFFICES ASSUME NEW u \in User, cred'[u] # None, cred'[u].status = "ENABLED"
                PROVE  cred'[u].secret \in shown'[u]
    BY DEF EnabledIsProven
  <2>1. CASE cred'[u] = cred[u]
    BY <1>1, <1>6, <2>1 DEF EnabledIsProven
  <2>2. CASE u = j.user /\ j.op = "enable"
    BY <1>5, <1>7, <2>2
  <2>3. CASE u = j.user /\ j.op \in {"setup", "disable"}
    BY <1>5, <2>3 DEF Fresh, Cleared
  <2>. QED BY <1>4, <1>5, <2>1, <2>2, <2>3
<1>9. DisabledKeepsNothing'
  <2>. SUFFICES ASSUME NEW u \in User, cred'[u] # None, cred'[u].status = "DISABLED"
                PROVE  cred'[u].secret = None
    BY DEF DisabledKeepsNothing
  <2>1. CASE cred'[u] = cred[u]
    BY <1>1, <2>1 DEF DisabledKeepsNothing
  <2>2. CASE u = j.user /\ j.op \in {"setup", "enable"}
    BY <1>5, <2>2 DEF Fresh
  <2>3. CASE u = j.user /\ j.op = "disable"
    BY <1>5, <2>3 DEF Cleared
  <2>. QED BY <1>4, <1>5, <2>1, <2>2, <2>3
<1>10. OneTime'
  BY <1>1, SerialGrant
<1>. QED BY <1>2, <1>6, <1>8, <1>9, <1>10 DEF Serial

LEMMA InitSerial == MCInit => Serial
BY DEF MCInit, Init, Blank, Serial, Alone, Current, OneTime, EnabledIsProven, DisabledKeepsNothing

LEMMA StepSerial == ASSUME IInv, Serial, [MCNext]_MCVars PROVE Serial'
<1>1. CASE UNCHANGED MCVars
  <2>1. UNCHANGED <<cred, chal, granted, shown, job, txn, together>>
    BY <1>1 DEF MCVars, vars
  <2>2. (\A r \in Req : Current(job[r], txn[r]))' <=> \A r \in Req : Current(job[r], txn[r])
    BY <2>1 DEF Current
  <2>. QED BY <2>1, <2>2 DEF Serial, Alone, OneTime, EnabledIsProven, DisabledKeepsNothing
<1>2. CASE MCNext
  <2>1. ~together' => ~together /\ Alone'
    BY <1>2 DEF MCNext, Alone
  <2>2. ASSUME NEW r \in Req, Start(r) PROVE Serial'
    BY <2>1, <2>2, SerialStart
  <2>3. ASSUME NEW r \in Req, ChooseFactor(r) \/ VerifyCode(r) \/ CheckUser(r) \/ Raise(r)
        PROVE  Serial'
    BY <2>1, <2>3, SerialGo
  <2>4. ASSUME NEW r \in Req, Commit(r) PROVE Serial'
    BY <2>1, <2>4, SerialCommit
  <2>5. CASE Tick \/ \E u \in User : ChangeStatus(u)
    <3>1. UNCHANGED <<cred, chal, granted, shown, job, txn>>
      BY <2>5 DEF Tick, ChangeStatus, tables, ghosts
    <3>2. (\A r \in Req : Current(job[r], txn[r]))' <=> \A r \in Req : Current(job[r], txn[r])
      BY <3>1 DEF Current
    <3>. QED BY <2>1, <3>1, <3>2 DEF Serial, OneTime, EnabledIsProven, DisabledKeepsNothing
  <2>. QED BY <1>2, <2>2, <2>3, <2>4, <2>5 DEF MCNext, Next
<1>. QED BY <1>1, <1>2

\* As long as one request has followed the other, a challenge logs in once, what
\* is enabled was proven and what is disabled keeps nothing (OneByOne): the three
\* promises of mfa_management.py and mfa.py need nothing but that.
THEOREM OneAfterAnother == MCSpec => []OneByOne
<1>1. MCInit => Init
  BY DEF MCInit
<1>2. [MCNext]_MCVars => [Next]_vars
  BY DEF MCNext, MCVars
<1>3. Serial => OneByOne
  BY DEF Serial, OneByOne
<1>. QED BY <1>1, <1>2, <1>3, InitIInv, StepIInv, InitSerial, StepSerial, PTL DEF MCSpec
==============================================================================
