---------------------------- MODULE SessionsProofs ----------------------------
(***************************************************************************)
(* Proofs about Sessions for every number of users, sessions, token pairs  *)
(* and concurrent requests, and every pair of lifetimes.                   *)
(***************************************************************************)
EXTENDS SessionsInv, TLAPS

-------------------------------------------------------------------------------
\* Types.

\* What a request writes down at its start has the type of a job.
LEMMA BlankType == Blank \in Job /\ Clean \in Txn
BY DEF Blank, Clean, Job, Txn, Op, PC

\* The copies a request takes of stored rows have the type of its memory.
LEMMA VictimsType == ASSUME TypeOK, NEW S
                     PROVE  Victims(S) \in [Sess -> Row \union {None}]
BY DEF TypeOK, Victims

\* A new row, a row with a reason added and a row with a new pair are rows.
LEMMA RowType == /\ \A u \in User, p \in Pair, t \in Nat : NewRow(u, p, t) \in Row
                 /\ \A x \in Row, why \in Reason : [x EXCEPT !.reason = why] \in Row
                 /\ \A x \in Row, p \in Pair, t \in Nat :
                       [x EXCEPT !.pair = p, !.exp = t] \in Row
<1>1. \A u \in User, p \in Pair, t \in Nat : NewRow(u, p, t) \in Row
  <2>. SUFFICES ASSUME NEW u \in User, NEW p \in Pair, NEW t \in Nat
                PROVE  NewRow(u, p, t) \in Row
    OBVIOUS
  <2>1. t + AccessTTL \in Nat /\ t + RefreshTTL \in Nat
    BY TTLAssumption
  <2>2. "NONE" \in Reason
    BY DEF Reason
  <2>. QED BY <2>1, <2>2 DEF NewRow, Row
<1>2. \A x \in Row, why \in Reason : [x EXCEPT !.reason = why] \in Row
  BY DEF Row
<1>3. \A x \in Row, p \in Pair, t \in Nat : [x EXCEPT !.pair = p, !.exp = t] \in Row
  BY DEF Row
<1>. QED BY <1>1, <1>2, <1>3

LEMMA ReasonType == ASSUME NEW r PROVE RevokeReason(r) \in Reason \ {"NONE"}
BY DEF RevokeReason, Reason

LEMMA EndType == ASSUME TypeOK, NEW r \in Req, End(r)
                 PROVE  job' \in [Req -> Job] /\ txn' \in [Req -> Txn]
BY BlankType DEF TypeOK, End

LEMMA InsertType == ASSUME TypeOK, NEW r \in Req, NEW p \in Pair, NEW e \in Entry, Insert(r, p, e)
                    PROVE  txn' \in [Req -> Txn]
BY DEF TypeOK, Insert, Txn

LEMMA GotoType == ASSUME TypeOK, NEW r \in Req, NEW l \in PC, Goto(r, l)
                  PROVE  job' \in [Req -> Job]
<1>1. job[r] \in Job
  BY DEF TypeOK
<1>2. [job[r] EXCEPT !.pc = l] \in Job
  BY <1>1 DEF Job
<1>3. job' = [job EXCEPT ![r] = [job[r] EXCEPT !.pc = l]]
  BY DEF Goto
<1>. QED BY <1>2, <1>3 DEF TypeOK

LEMMA WriteType == ASSUME TypeOK, NEW r \in Req, NEW s \in Sess, NEW x \in Row,
                          txn' = [txn EXCEPT ![r].rows[s] = x]
                   PROVE  txn' \in [Req -> Txn]
BY DEF TypeOK, Txn

\* Writing one job and leaving the rest alone.
LEMMA StartType == ASSUME TypeOK, NEW r \in Req, NEW j \in Job, job' = [job EXCEPT ![r] = j]
                   PROVE  job' \in [Req -> Job]
BY DEF TypeOK

LEMMA EndingType == ASSUME TypeOK, NEW op \in Op, NEW p \in Pair \union {None}, NEW s \in Sess
                    PROVE  Ending(op, p, s) \in Job
<1>1. Victims({s}) \in [Sess -> Row \union {None}]
  BY VictimsType
<1>2. now \in Nat
  BY TTLAssumption DEF TypeOK
<1>3. (IF Revoked(row[s]) THEN "commit" ELSE "update") \in PC
  BY DEF PC
<1>. QED BY <1>1, <1>2, <1>3, BlankType DEF Ending, Job

\* Every step keeps the types.
LEMMA TypeStep == ASSUME IInv, [Next]_vars PROVE TypeOK'
<1>. USE DEF IInv
<1>0. now \in Nat
  BY TTLAssumption DEF TypeOK
<1>00. /\ \A r \in Req : job[r] \in Job
       /\ "update" \in PC /\ "commit" \in PC /\ "alarm" \in PC
  BY DEF TypeOK, PC
<1>1. ASSUME NEW r \in Req, NEW u \in User, BeginLogin(r, u) PROVE TypeOK'
  <2>1. PICK s \in FreshSess, p \in FreshPair :
          /\ Start(r, [Blank EXCEPT !.op = "login", !.pc = "list", !.sess = s,
                                   !.new = p, !.at = now, !.prior = ValidOf(u, now)])
          /\ txn' = [txn EXCEPT ![r].rows[s] = NewRow(u, p, now)]
    BY <1>1 DEF BeginLogin
  <2>2. s \in Sess /\ p \in Pair /\ ValidOf(u, now) \subseteq Sess
    BY DEF FreshSess, FreshPair, ValidOf
  <2>3. [Blank EXCEPT !.op = "login", !.pc = "list", !.sess = s, !.new = p,
                      !.at = now, !.prior = ValidOf(u, now)] \in Job
    BY <1>0, <2>2, BlankType DEF Job, Op, PC
  <2>4. job' \in [Req -> Job]
    BY <2>1, <2>3, StartType DEF Start
  <2>5. txn' \in [Req -> Txn]
    BY <1>0, <2>1, <2>2, RowType, WriteType
  <2>. QED BY <1>1, <2>4, <2>5 DEF TypeOK, BeginLogin, db
<1>2. ASSUME NEW r \in Req, ListOthers(r) PROVE TypeOK'
  <2>. DEFINE S == ValidOf(txn[r].rows[job[r].sess].user, job[r].at)
  <2>1. CASE S = {}
    <3>1. Goto(r, "commit")
      BY <1>2, <2>1 DEF ListOthers
    <3>2. job' \in [Req -> Job]
      BY <3>1, GotoType DEF PC
    <3>. QED BY <1>2, <3>2 DEF TypeOK, ListOthers, db
  <2>2. CASE S # {}
    <3>1. PICK s \in S :
            job' = [job EXCEPT ![r].pc = "update", ![r].todo = S,
                               ![r].cur = s, ![r].seen = Victims(S)]
      BY <1>2, <2>2 DEF ListOthers
    <3>2. S \in SUBSET Sess /\ s \in Sess /\ Victims(S) \in [Sess -> Row \union {None}]
      BY VictimsType DEF ValidOf
    <3>. DEFINE j == [job[r] EXCEPT !.pc = "update", !.todo = S, !.cur = s, !.seen = Victims(S)]
    <3>3. j \in Job
      BY <1>00, <3>2 DEF Job
    <3>4. job' = [job EXCEPT ![r] = j]
      BY <3>1
    <3>. HIDE DEF j
    <3>5. job' \in [Req -> Job]
      BY <3>3, <3>4, StartType
    <3>. QED BY <1>2, <3>5 DEF TypeOK, ListOthers, db
  <2>. QED BY <2>1, <2>2
<1>3. ASSUME NEW r \in Req, Revoke(r) PROVE TypeOK'
  <2>. DEFINE s == job[r].cur
  <2>1. s \in Sess /\ row[s] \in Row
    BY <1>3 DEF TypeOK, Revoke, At, Local, Place, Memory, Job
  <2>2. [row[s] EXCEPT !.reason = RevokeReason(r)] \in Row
    BY <2>1, RowType, ReasonType
  <2>3. txn' \in [Req -> Txn]
    BY <1>3, <2>1, <2>2, WriteType DEF Revoke
  <2>4. job' \in [Req -> Job]
    BY <1>3, GotoType DEF Revoke, PC
  <2>. QED BY <1>3, <2>3, <2>4 DEF TypeOK, Revoke, db
<1>4. ASSUME NEW r \in Req, Archive(r) PROVE TypeOK'
  <2>. DEFINE s == job[r].cur
              rest == job[r].todo \ {s}
  <2>0. /\ s \in job[r].todo /\ job[r].seen[s] # None
        /\ job[r].todo \in SUBSET Sess
        /\ job[r].seen \in [Sess -> Row \union {None}]
    BY <1>00, <1>4 DEF Archive, At, Local, Place, Job
  <2>1. /\ s \in Sess /\ rest \in SUBSET Sess
        /\ job[r].seen[s] \in Row
    BY <2>0
  <2>2. job[r].seen[s].pair \in Pair /\ [sess |-> s, why |-> "SESSION_REVOKED"] \in Entry
    BY <2>1 DEF Row, Entry
  <2>3. txn' \in [Req -> Txn]
    BY <1>4, <2>2, InsertType DEF Archive
  <2>4. CASE rest = {}
    <3>. DEFINE l == IF job[r].op = "refresh" THEN "alarm" ELSE "commit"
    <3>1. job' = [job EXCEPT ![r].todo = {}, ![r].pc = l]
      BY <1>4, <2>4 DEF Archive
    <3>. DEFINE j == [job[r] EXCEPT !.todo = {}, !.pc = l]
    <3>2. j \in Job
      BY <1>00 DEF Job
    <3>3. job' = [job EXCEPT ![r] = j]
      BY <3>1
    <3>. HIDE DEF j
    <3>4. job' \in [Req -> Job]
      BY <3>2, <3>3, StartType
    <3>. QED BY <1>4, <2>3, <3>4 DEF TypeOK, Archive, db
  <2>5. CASE rest # {}
    <3>1. PICK n \in rest :
            job' = [job EXCEPT ![r].todo = rest, ![r].cur = n, ![r].pc = "update"]
      BY <1>4, <2>5 DEF Archive
    <3>. DEFINE j == [job[r] EXCEPT !.todo = rest, !.cur = n, !.pc = "update"]
    <3>2. n \in Sess
      BY <2>1
    <3>3. j \in Job
      BY <1>00, <2>1, <3>2 DEF Job
    <3>4. job' = [job EXCEPT ![r] = j]
      BY <3>1
    <3>. HIDE DEF j
    <3>5. job' \in [Req -> Job]
      BY <3>3, <3>4, StartType
    <3>. QED BY <1>4, <2>3, <3>5 DEF TypeOK, Archive, db
  <2>. QED BY <2>4, <2>5
<1>5. ASSUME NEW r \in Req, NEW p \in Pair, BeginLogout(r, p) PROVE TypeOK'
  <2>1. PICK s \in Sess : Start(r, Ending("logout", p, s))
    BY <1>5 DEF BeginLogout, CurrentOf
  <2>2. Ending("logout", p, s) \in Job
    BY EndingType DEF Op
  <2>3. job' \in [Req -> Job]
    BY <2>1, <2>2, StartType DEF Start
  <2>. QED BY <1>5, <2>3 DEF TypeOK, BeginLogout, db
<1>6. ASSUME NEW r \in Req, NEW s \in Sess, BeginRevoke(r, s) PROVE TypeOK'
  <2>1. Ending("revoke", None, s) \in Job
    BY EndingType DEF Op
  <2>2. job' \in [Req -> Job]
    BY <1>6, <2>1, StartType DEF Start, BeginRevoke
  <2>. QED BY <1>6, <2>2 DEF TypeOK, BeginRevoke, db
<1>7. ASSUME NEW r \in Req, NEW u \in User, BeginRevokeAll(r, u) PROVE TypeOK'
  <2>. DEFINE S == ValidOf(u, now)
  <2>1. PICK s \in S :
          Start(r, [Blank EXCEPT !.op = "revokeAll", !.pc = "update", !.at = now, !.cur = s,
                                 !.todo = S, !.seen = Victims(S)])
    BY <1>7 DEF BeginRevokeAll
  <2>2. S \subseteq Sess /\ s \in Sess
    BY DEF ValidOf
  <2>3. [Blank EXCEPT !.op = "revokeAll", !.pc = "update", !.at = now, !.cur = s,
                      !.todo = S, !.seen = Victims(S)] \in Job
    BY <1>0, <2>2, BlankType, VictimsType DEF Job, Op, PC
  <2>4. job' \in [Req -> Job]
    BY <2>1, <2>3, StartType DEF Start
  <2>. QED BY <1>7, <2>4 DEF TypeOK, BeginRevokeAll, db
<1>8. ASSUME NEW r \in Req, NEW p \in Pair, BeginRefresh(r, p) PROVE TypeOK'
  <2>. DEFINE j == [Blank EXCEPT !.op = "refresh", !.tok = p, !.at = now]
  <2>1. j \in Job
    BY <1>0, BlankType DEF Job, Op
  <2>2. CASE Start(r, [j EXCEPT !.pc = "retired"])
    <3>1. [j EXCEPT !.pc = "retired"] \in Job
      BY <2>1 DEF Job, PC
    <3>2. job' \in [Req -> Job]
      BY <2>2, <3>1, StartType DEF Start
    <3>. QED BY <1>8, <3>2 DEF TypeOK, BeginRefresh, db
  <2>3. ASSUME NEW s \in CurrentOf(p), NEW q \in FreshPair \ {p}, NEW l \in {"abort", "user"},
               Start(r, [j EXCEPT !.sess = s, !.seen = Victims({s}), !.new = q, !.pc = l])
        PROVE  TypeOK'
    <3>1. s \in Sess /\ q \in Pair /\ l \in PC
      BY DEF CurrentOf, FreshPair, PC
    <3>2. [j EXCEPT !.sess = s, !.seen = Victims({s}), !.new = q, !.pc = l] \in Job
      BY <2>1, <3>1, VictimsType DEF Job
    <3>3. job' \in [Req -> Job]
      BY <2>3, <3>2, StartType DEF Start
    <3>. QED BY <1>8, <3>3 DEF TypeOK, BeginRefresh, db
  <2>. QED BY <1>8, <2>2, <2>3 DEF BeginRefresh
<1>9. ASSUME NEW r \in Req, LookupRetired(r) PROVE TypeOK'
  <2>. DEFINE e == hist[job[r].tok]
  <2>1. CASE Goto(r, "abort")
    <3>1. job' \in [Req -> Job]
      BY <2>1, GotoType DEF PC
    <3>. QED BY <1>9, <3>1 DEF TypeOK, LookupRetired, db
  <2>2. CASE ~Goto(r, "abort")
    <3>1. /\ e # None
          /\ job' = [job EXCEPT ![r].pc = "update", ![r].sess = e.sess, ![r].cur = e.sess,
                                ![r].todo = {e.sess}, ![r].seen = Victims({e.sess})]
      BY <1>9, <2>2 DEF LookupRetired
    <3>2. job[r].tok \in Pair
      BY <1>9 DEF LookupRetired, At, Local, Place
    <3>3. e.sess \in Sess
      BY <3>1, <3>2 DEF TypeOK, Entry
    <3>. DEFINE j == [job[r] EXCEPT !.pc = "update", !.sess = e.sess, !.cur = e.sess,
                                    !.todo = {e.sess}, !.seen = Victims({e.sess})]
    <3>4. Victims({e.sess}) \in [Sess -> Row \union {None}]
      BY VictimsType
    <3>5. j \in Job
      BY <1>00, <3>3, <3>4 DEF Job
    <3>6. job' = [job EXCEPT ![r] = j]
      BY <3>1
    <3>. HIDE DEF j
    <3>7. job' \in [Req -> Job]
      BY <3>5, <3>6, StartType
    <3>. QED BY <1>9, <3>7 DEF TypeOK, LookupRetired, db
  <2>. QED BY <2>1, <2>2
<1>10. ASSUME NEW r \in Req, CheckUser(r) PROVE TypeOK'
  <2>1. job' \in [Req -> Job]
    BY <1>10, GotoType DEF CheckUser, PC
  <2>. QED BY <1>10, <2>1 DEF TypeOK, CheckUser, db
<1>11. ASSUME NEW r \in Req, RetirePresented(r) PROVE TypeOK'
  <2>1. job' \in [Req -> Job]
    BY <1>11, GotoType DEF RetirePresented, PC
  <2>2. job[r].tok \in Pair /\ job[r].sess \in Sess
    BY <1>11 DEF RetirePresented, At, Local, Place
  <2>3. [sess |-> job[r].sess, why |-> "ROTATED"] \in Entry
    BY <2>2 DEF Entry
  <2>4. txn' \in [Req -> Txn]
    BY <1>11, <2>2, <2>3, InsertType DEF RetirePresented
  <2>. QED BY <1>11, <2>1, <2>4 DEF TypeOK, RetirePresented, db
<1>12. ASSUME NEW r \in Req, Rotate(r) PROVE TypeOK'
  <2>. DEFINE s == job[r].sess
  <2>1. /\ s \in Sess /\ job[r].new \in Pair
        /\ row[s] \in Row /\ job[r].seen[s] \in Row
    BY <1>12 DEF Rotate, At, Local, Place, Memory, TypeOK, Job
  <2>2. CASE Swaps(r)
    <3>. DEFINE t == RotatedExpiry(job[r].at, job[r].seen[s].rexp)
    <3>1. job[r].at \in Nat /\ job[r].seen[s].rexp \in Nat
      BY <2>1 DEF TypeOK, Job, Row
    <3>2. t \in Nat
      BY <3>1, TTLAssumption DEF RotatedExpiry, Earlier
    <3>3. [row[s] EXCEPT !.pair = job[r].new, !.exp = t] \in Row
      BY <2>1, <3>2, RowType
    <3>4. txn' = [txn EXCEPT ![r].rows[s] = [row[s] EXCEPT !.pair = job[r].new, !.exp = t]]
      BY <1>12, <2>2 DEF Rotate
    <3>5. txn' \in [Req -> Txn]
      BY <2>1, <3>3, <3>4, WriteType
    <3>6. job' \in [Req -> Job]
      BY <1>12, <2>2, GotoType DEF Rotate, PC
    <3>. QED BY <1>12, <3>5, <3>6 DEF TypeOK, Rotate, db
  <2>3. CASE ~Swaps(r)
    <3>. DEFINE j == [job[r] EXCEPT !.pc = "update", !.cur = s, !.todo = {s}]
    <3>1. j \in Job
      BY <1>00, <2>1 DEF Job
    <3>2. job' = [job EXCEPT ![r] = j]
      BY <1>12, <2>3 DEF Rotate
    <3>. HIDE DEF j
    <3>3. job' \in [Req -> Job]
      BY <3>1, <3>2, StartType
    <3>. QED BY <1>12, <2>3, <3>3 DEF TypeOK, Rotate, db
  <2>. QED BY <2>2, <2>3
<1>13. ASSUME NEW r \in Req, NEW p \in Pair, BeginAuth(r, p) PROVE TypeOK'
  <2>1. PICK s \in CurrentOf(p), l \in {"abort", "user"} :
          Start(r, [Blank EXCEPT !.op = "auth", !.tok = p, !.sess = s, !.at = now,
                                 !.seen = Victims({s}), !.pc = l])
    BY <1>13 DEF BeginAuth
  <2>2. s \in Sess /\ l \in PC
    BY DEF CurrentOf, PC
  <2>3. [Blank EXCEPT !.op = "auth", !.tok = p, !.sess = s, !.at = now,
                      !.seen = Victims({s}), !.pc = l] \in Job
    BY <1>0, <2>2, BlankType, VictimsType DEF Job, Op
  <2>4. job' \in [Req -> Job]
    BY <2>1, <2>3, StartType DEF Start
  <2>. QED BY <1>13, <2>4 DEF TypeOK, BeginAuth, db
<1>14. ASSUME NEW r \in Req, Touch(r) PROVE TypeOK'
  <2>1. job' \in [Req -> Job]
    BY <1>14, GotoType DEF Touch, PC
  <2>2. job[r].sess \in Sess /\ row[job[r].sess] \in Row
    BY <1>14 DEF Touch, At, Local, Place, Memory, TypeOK
  <2>3. txn' \in [Req -> Txn]
    BY <1>14, <2>2, WriteType DEF Touch, TypeOK
  <2>. QED BY <1>14, <2>1, <2>3 DEF TypeOK, Touch, db
<1>15. ASSUME NEW r \in Req, Serve(r) PROVE TypeOK'
  <2>1. job' \in [Req -> Job]
    BY <1>15, GotoType DEF Serve, PC
  <2>. QED BY <1>15, <2>1 DEF TypeOK, Serve, db
<1>16. ASSUME NEW r \in Req, Commit(r) PROVE TypeOK'
  <2>1. job' \in [Req -> Job] /\ txn' \in [Req -> Txn]
    BY <1>16, EndType DEF Commit
  <2>2. row' \in [Sess -> Row \union {None}] /\ hist' \in [Pair -> Entry \union {None}]
    BY <1>16 DEF Commit, TypeOK, Txn
  <2>3. job[r].new \in Pair => job[r].sess \in Sess
    BY NoneAssumption DEF Local, Memory
  <2>4. issued' \in [Pair -> Sess \union {None}]
    BY <1>16, <2>3 DEF Commit, TypeOK
  <2>. QED BY <1>16, <2>1, <2>2, <2>4 DEF TypeOK, Commit
<1>17. ASSUME NEW r \in Req, Abort(r) \/ Cancel(r) PROVE TypeOK'
  BY <1>17, EndType DEF TypeOK, Abort, Cancel, db
<1>18. ASSUME NEW r \in Req, AbortWithAlarm(r) PROVE TypeOK'
  <2>1. job[r].sess \in Sess
    BY <1>18 DEF AbortWithAlarm, At, Local, Place
  <2>. QED BY <1>18, <2>1, EndType DEF TypeOK, AbortWithAlarm
<1>19. CASE Tick \/ \E u \in User : ChangeStatus(u)
  BY <1>19, TTLAssumption DEF TypeOK, Tick, ChangeStatus, db
<1>20. CASE UNCHANGED vars
  BY <1>20 DEF TypeOK, vars
<1>. QED
  BY <1>1, <1>2, <1>3, <1>4, <1>5, <1>6, <1>7, <1>8, <1>9, <1>10, <1>11, <1>12, <1>13,
     <1>14, <1>15, <1>16, <1>17, <1>18, <1>19, <1>20 DEF Next, Begin, Step

-------------------------------------------------------------------------------
\* The inductive invariant.

\* The initial state satisfies the invariant.
LEMMA InitInv == Init => IInv
<1>. SUFFICES ASSUME Init PROVE IInv
  OBVIOUS
<1>1. TypeOK
  BY BlankType, TTLAssumption DEF Init, TypeOK
<1>2. Stored
  BY DEF Init, Stored
<1>3. Apart
  BY DEF Init, Apart, Clean, Blank
<1>4. ASSUME NEW r \in Req PROVE Local(r)
  BY <1>4 DEF Init, Local, Memory, Place, Pending, Superseding, Clean, Blank
<1>. QED BY <1>1, <1>2, <1>3, <1>4 DEF IInv

\* A step of r that changes no table keeps the invariant if r keeps its own part
\* and takes no lock and no pair that somebody else has.
LEMMA OwnStep ==
    ASSUME IInv, TypeOK', NEW r \in Req, UNCHANGED <<row, hist, issued>>,
           \A q \in Req \ {r} : job'[q] = job[q] /\ txn'[q] = txn[q],
           \A q \in Req \ {r} :
              /\ \A s \in Sess : txn[q].rows[s] = None \/ txn'[r].rows[s] = None
              /\ \A p \in Pair : txn[q].hist[p] = None \/ txn'[r].hist[p] = None
              /\ job'[r].new # None => job[q].new # job'[r].new,
           Local(r)'
    PROVE  IInv'
<1>1. Stored'
  BY DEF IInv, Stored
<1>2. Apart'
  BY DEF IInv, Apart
<1>3. ASSUME NEW q \in Req \ {r} PROVE Local(q)'
  <2>1. Local(q) /\ job'[q] = job[q] /\ txn'[q] = txn[q]
    BY DEF IInv
  <2>2. Memory(q)'
    BY <2>1 DEF Local, Memory
  <2>3. Place(q)'
    BY <2>1 DEF Local, Place
  <2>4. Pending(q)'
    BY <2>1 DEF Local, Pending, PendingRow, PendingEntry
  <2>5. Superseding(q)'
    BY <2>1 DEF Local, Superseding
  <2>. QED BY <2>2, <2>3, <2>4, <2>5 DEF Local
<1>. QED BY <1>1, <1>2, <1>3 DEF IInv

\* The same for a step that writes nothing and is given no new pair.
LEMMA ReadStep ==
    ASSUME IInv, TypeOK', NEW r \in Req, UNCHANGED <<row, hist, issued, txn>>,
           \A q \in Req \ {r} : job'[q] = job[q],
           job'[r].new = job[r].new,
           Local(r)'
    PROVE  IInv'
<1>1. \A q \in Req \ {r} :
         /\ \A s \in Sess : txn[q].rows[s] = None \/ txn'[r].rows[s] = None
         /\ \A p \in Pair : txn[q].hist[p] = None \/ txn'[r].hist[p] = None
         /\ job'[r].new # None => job[q].new # job'[r].new
  BY DEF IInv, Apart
<1>. QED BY <1>1, OwnStep

\* A step that ends a request without publishing its writes.
LEMMA EndStep ==
    ASSUME IInv, TypeOK', NEW r \in Req, UNCHANGED <<row, hist, issued>>, End(r)
    PROVE  IInv'
<1>1. job'[r] = Blank /\ txn'[r] = Clean
  BY DEF End, IInv, TypeOK
<1>2. \A q \in Req \ {r} : job'[q] = job[q] /\ txn'[q] = txn[q]
  BY DEF End, IInv, TypeOK
<1>3. Local(r)'
  BY <1>1 DEF Local, Memory, Place, Pending, Superseding, Clean, Blank
<1>4. job'[r].new = None /\ \A s \in Sess : txn'[r].rows[s] = None
  BY <1>1 DEF Blank, Clean
<1>5. \A p \in Pair : txn'[r].hist[p] = None
  BY <1>1 DEF Clean
<1>. QED BY <1>2, <1>3, <1>4, <1>5, OwnStep

-------------------------------------------------------------------------------
\* One lemma per action: the invariant is kept.

LEMMA BeginLoginInv == ASSUME IInv, TypeOK', NEW r \in Req, NEW u \in User, BeginLogin(r, u)
                       PROVE  IInv'
<1>1. PICK s \in FreshSess, p \in FreshPair :
        /\ Start(r, [Blank EXCEPT !.op = "login", !.pc = "list", !.sess = s,
                                 !.new = p, !.at = now, !.prior = ValidOf(u, now)])
        /\ txn' = [txn EXCEPT ![r].rows[s] = NewRow(u, p, now)]
  BY DEF BeginLogin
<1>2. /\ s \in Sess /\ row[s] = None /\ \A q \in Req : txn[q].rows[s] = None
      /\ p \in Pair /\ issued[p] = None /\ \A q \in Req : job[q].new # p
  BY DEF FreshSess, FreshPair
<1>3. job[r] = Blank /\ txn[r] = Clean
  BY <1>1 DEF Start, Idle, IInv, Local, Place
<1>4. job'[r] = [Blank EXCEPT !.op = "login", !.pc = "list", !.sess = s,
                              !.new = p, !.at = now, !.prior = ValidOf(u, now)]
  BY <1>1 DEF Start, IInv, TypeOK
<1>5. /\ job'[r].op = "login" /\ job'[r].pc = "list" /\ job'[r].sess = s /\ job'[r].new = p
      /\ job'[r].at = now /\ job'[r].prior = ValidOf(u, now) /\ job'[r].todo = {}
      /\ job'[r].seen = [z \in Sess |-> None]
  BY <1>4 DEF Blank
<1>6. /\ txn'[r].rows = [z \in Sess |-> IF z = s THEN NewRow(u, p, now) ELSE None]
      /\ txn'[r].hist = [z \in Pair |-> None]
  <2>1. txn'[r] = [txn[r] EXCEPT !.rows[s] = NewRow(u, p, now)]
    BY <1>1 DEF IInv, TypeOK
  <2>2. txn'[r] = [Clean EXCEPT !.rows[s] = NewRow(u, p, now)]
    BY <1>3, <2>1
  <2>. QED BY <1>2, <2>2 DEF Clean
<1>7. \A q \in Req \ {r} : job'[q] = job[q] /\ txn'[q] = txn[q]
  BY <1>1 DEF Start, IInv, TypeOK
<1>8. UNCHANGED <<row, hist, issued>>
  BY DEF BeginLogin, db
<1>9. NewRow(u, p, now) # None
  <2>1. now \in Nat
    BY TTLAssumption DEF IInv, TypeOK
  <2>2. NewRow(u, p, now) \in Row
    BY <1>2, <2>1, RowType
  <2>. QED BY <2>2, NoneAssumption
<1>10. Local(r)'
  <2>1. Memory(r)'
    BY <1>2, <1>5, <1>8 DEF Memory
  <2>2. Place(r)'
    BY <1>2, <1>5, <1>6, <1>8, <1>9 DEF Place
  <2>3. Pending(r)'
    <3>1. NewRow(u, p, now).exp <= NewRow(u, p, now).rexp
      BY TTLAssumption DEF NewRow, IInv, TypeOK
    <3>2. NewRow(u, p, now).pair = p
      BY DEF NewRow
    <3>. QED BY <1>2, <1>5, <1>6, <1>8, <3>1, <3>2 DEF Pending, PendingRow
  <2>4. Superseding(r)'
    <3>1. NewRow(u, p, now).user = u
      BY DEF NewRow
    <3>. QED BY <1>2, <1>5, <1>6, <1>8, <3>1 DEF Superseding, ValidOf, Valid
  <2>. QED BY <2>1, <2>2, <2>3, <2>4 DEF Local
<1>11. \A q \in Req \ {r} :
         /\ \A z \in Sess : txn[q].rows[z] = None \/ txn'[r].rows[z] = None
         /\ \A z \in Pair : txn[q].hist[z] = None \/ txn'[r].hist[z] = None
         /\ job'[r].new # None => job[q].new # job'[r].new
  BY <1>2, <1>5, <1>6
<1>. QED BY <1>7, <1>8, <1>10, <1>11, OwnStep

LEMMA ListOthersInv == ASSUME IInv, TypeOK', NEW r \in Req, ListOthers(r) PROVE IInv'
<1>. DEFINE u == txn[r].rows[job[r].sess].user
            S == ValidOf(u, job[r].at)
<1>1. Local(r) /\ job[r] \in Job /\ job[r].pc = "list"
  BY DEF IInv, TypeOK, ListOthers, At
<1>2. UNCHANGED <<row, hist, issued, txn>>
  BY DEF ListOthers, db
<1>3. \A q \in Req \ {r} : job'[q] = job[q]
  BY DEF ListOthers, Goto, IInv, TypeOK
<1>4. job[r].op = "login"
  BY <1>1 DEF Local, Place
<1>5. \A s \in job[r].prior : s \in S \/ Revoked(row[s])
  BY <1>1, <1>4 DEF Local, Superseding, ValidOf, Valid, Job
<1>6. job[r].sess \in Sess /\ txn[r].rows[job[r].sess] # None /\ row[job[r].sess] = None
  BY <1>1, <1>4 DEF Local, Place
<1>7. CASE S = {}
  <2>1. job'[r] = [job[r] EXCEPT !.pc = "commit"]
    BY <1>7 DEF ListOthers, Goto, IInv, TypeOK
  <2>2. /\ job'[r].pc = "commit" /\ job'[r].op = job[r].op /\ job'[r].sess = job[r].sess
        /\ job'[r].new = job[r].new /\ job'[r].at = job[r].at /\ job'[r].prior = job[r].prior
        /\ job'[r].todo = job[r].todo /\ job'[r].seen = job[r].seen
    BY <1>1, <2>1 DEF Job
  <2>3. Memory(r)'
    BY <1>1, <1>2, <2>2 DEF Local, Memory
  <2>4. Place(r)'
    BY <1>1, <1>2, <1>4, <1>6, <2>2 DEF Local, Place
  <2>5. Pending(r)'
    BY <1>1, <1>2, <1>4, <2>2 DEF Local, Pending, PendingRow, PendingEntry
  <2>6. Superseding(r)'
    BY <1>1, <1>2, <1>4, <1>5, <1>7, <2>2 DEF Local, Superseding
  <2>7. Local(r)'
    BY <2>3, <2>4, <2>5, <2>6 DEF Local
  <2>. QED BY <1>2, <1>3, <2>2, <2>7, ReadStep
<1>8. CASE S # {}
  <2>1. PICK c \in S : job' = [job EXCEPT ![r].pc = "update", ![r].todo = S,
                                          ![r].cur = c, ![r].seen = Victims(S)]
    BY <1>8 DEF ListOthers
  <2>2. job'[r] = [job[r] EXCEPT !.pc = "update", !.todo = S, !.cur = c, !.seen = Victims(S)]
    BY <2>1 DEF IInv, TypeOK
  <2>3. /\ job'[r].pc = "update" /\ job'[r].op = job[r].op /\ job'[r].sess = job[r].sess
        /\ job'[r].new = job[r].new /\ job'[r].at = job[r].at /\ job'[r].prior = job[r].prior
        /\ job'[r].todo = S /\ job'[r].cur = c /\ job'[r].seen = Victims(S)
    BY <1>1, <2>2 DEF Job
  <2>4. S \subseteq Sess /\ \A s \in S : row[s] # None
    BY DEF ValidOf
  <2>5. Memory(r)'
    <3>1. \A s \in Sess : /\ s \in S => /\ Victims(S)[s] = row[s]
                                        /\ issued[row[s].pair] = s
                          /\ s \notin S => Victims(S)[s] = None
      BY <2>4 DEF Victims, IInv, Stored
    <3>. HIDE DEF S
    <3>. QED BY <1>1, <1>2, <2>3, <2>4, <3>1 DEF Local, Memory
  <2>6. Place(r)'
    <3>1. \A s \in S : Victims(S)[s] # None
      BY <2>4 DEF Victims
    <3>. HIDE DEF S
    <3>. QED BY <1>1, <1>2, <1>4, <1>6, <2>3, <2>4, <3>1 DEF Local, Place
  <2>7. Pending(r)'
    BY <1>1, <1>2, <1>4, <2>3 DEF Local, Pending, PendingRow, PendingEntry
  <2>8. Superseding(r)'
    BY <1>1, <1>2, <1>4, <1>5, <2>3 DEF Local, Superseding
  <2>9. Local(r)'
    BY <2>5, <2>6, <2>7, <2>8 DEF Local
  <2>. QED BY <1>2, <1>3, <2>3, <2>9, ReadStep
<1>. QED BY <1>7, <1>8

\* What the moves of a request leave alone.
LEMMA GotoFields == ASSUME TypeOK, NEW r \in Req, NEW l \in PC, Goto(r, l)
                    PROVE  /\ job'[r].pc = l /\ job'[r].op = job[r].op
                           /\ job'[r].tok = job[r].tok /\ job'[r].sess = job[r].sess
                           /\ job'[r].cur = job[r].cur /\ job'[r].new = job[r].new
                           /\ job'[r].at = job[r].at /\ job'[r].todo = job[r].todo
                           /\ job'[r].seen = job[r].seen /\ job'[r].prior = job[r].prior
                           /\ \A q \in Req \ {r} : job'[q] = job[q]
<1>1. job[r] \in Job /\ job' = [job EXCEPT ![r] = [job[r] EXCEPT !.pc = l]]
  BY DEF TypeOK, Goto
<1>. QED BY <1>1 DEF TypeOK, Job

LEMMA InsertFields ==
    ASSUME TypeOK, NEW r \in Req, NEW p \in Pair, NEW e \in Entry, Insert(r, p, e)
    PROVE  /\ txn'[r].rows = txn[r].rows
           /\ \A z \in Pair \ {p} : txn'[r].hist[z] = txn[r].hist[z]
           /\ IF hist[p] = None /\ txn[r].hist[p] = None
                THEN txn'[r].hist[p] = e ELSE txn'[r].hist[p] = txn[r].hist[p]
           /\ \A q \in Req \ {r} : txn'[q] = txn[q] /\ txn[q].hist[p] = None
<1>1. CASE hist[p] = None /\ txn[r].hist[p] = None
  <2>1. txn[r] \in Txn /\ txn' = [txn EXCEPT ![r] = [txn[r] EXCEPT !.hist[p] = e]]
    BY <1>1 DEF TypeOK, Insert
  <2>2. /\ txn'[r].rows = txn[r].rows
        /\ txn'[r].hist = [txn[r].hist EXCEPT ![p] = e]
    BY <2>1 DEF TypeOK, Txn
  <2>3. \A q \in Req \ {r} : txn'[q] = txn[q] /\ txn[q].hist[p] = None
    BY <2>1 DEF TypeOK, Insert, KeyFree
  <2>. QED BY <1>1, <2>1, <2>2, <2>3 DEF Txn
<1>2. CASE ~(hist[p] = None /\ txn[r].hist[p] = None)
  BY <1>2 DEF Insert, KeyFree
<1>. QED BY <1>1, <1>2

LEMMA WriteFields ==
    ASSUME TypeOK, NEW r \in Req, NEW s \in Sess, NEW x \in Row,
           txn' = [txn EXCEPT ![r].rows[s] = x]
    PROVE  /\ txn'[r].hist = txn[r].hist
           /\ txn'[r].rows[s] = x
           /\ \A z \in Sess \ {s} : txn'[r].rows[z] = txn[r].rows[z]
           /\ \A q \in Req \ {r} : txn'[q] = txn[q]
<1>1. txn[r] \in Txn /\ txn' = [txn EXCEPT ![r] = [txn[r] EXCEPT !.rows[s] = x]]
  BY DEF TypeOK
<1>2. /\ txn'[r].hist = txn[r].hist
      /\ txn'[r].rows = [txn[r].rows EXCEPT ![s] = x]
  BY <1>1 DEF TypeOK, Txn
<1>. QED BY <1>1, <1>2 DEF TypeOK, Txn

LEMMA RevokeInv == ASSUME IInv, TypeOK', NEW r \in Req, Revoke(r) PROVE IInv'
<1>. DEFINE s == job[r].cur
            x == [row[s] EXCEPT !.reason = RevokeReason(r)]
<1>1. Local(r) /\ job[r].pc = "update" /\ Goto(r, "archive") /\ TypeOK /\ Stored
  BY DEF IInv, Revoke, At
<1>2. UNCHANGED <<row, hist, issued>>
  BY DEF Revoke, db
<1>3. s \in Sess /\ row[s] \in Row /\ s \in job[r].todo
  BY <1>1 DEF Local, Memory, Place, TypeOK, Job
<1>4. /\ x.user = row[s].user /\ x.pair = row[s].pair /\ x.exp = row[s].exp
      /\ x.rexp = row[s].rexp /\ Revoked(x) /\ x \in Row /\ x # None
  BY <1>3, RowType, ReasonType, NoneAssumption DEF Row, Revoked
<1>5. txn' = [txn EXCEPT ![r].rows[s] = x] /\ RowFree(r, s)
  BY DEF Revoke
<1>. HIDE DEF x
<1>6. /\ txn'[r].hist = txn[r].hist /\ txn'[r].rows[s] = x
      /\ \A z \in Sess \ {s} : txn'[r].rows[z] = txn[r].rows[z]
      /\ \A q \in Req \ {r} : txn'[q] = txn[q]
  BY <1>1, <1>3, <1>4, <1>5, WriteFields
<1>7. /\ job'[r].pc = "archive" /\ job'[r].op = job[r].op
      /\ job'[r].tok = job[r].tok /\ job'[r].sess = job[r].sess
      /\ job'[r].cur = job[r].cur /\ job'[r].new = job[r].new
      /\ job'[r].at = job[r].at /\ job'[r].todo = job[r].todo
      /\ job'[r].seen = job[r].seen /\ job'[r].prior = job[r].prior
      /\ \A q \in Req \ {r} : job'[q] = job[q]
  BY <1>1, GotoFields DEF PC
<1>8. Memory(r)'
  BY <1>1, <1>2, <1>7 DEF Local, Memory
<1>9. Place(r)'
  BY <1>1, <1>2, <1>3, <1>4, <1>6, <1>7 DEF Local, Place
<1>10. Pending(r)'
  <2>1. ASSUME NEW z \in Sess, txn'[r].rows[z] # None PROVE PendingRow(r, z)'
    <3>1. CASE z = s
      BY <1>1, <1>2, <1>3, <1>4, <1>6, <3>1, NoneAssumption DEF PendingRow, Stored, Revoked
    <3>2. CASE z # s
      BY <1>1, <1>2, <1>6, <1>7, <2>1, <3>2 DEF Local, Pending, PendingRow
    <3>. QED BY <3>1, <3>2
  <2>2. ASSUME NEW p \in Pair, txn'[r].hist[p] # None PROVE PendingEntry(r, p)'
    <3>1. PendingEntry(r, p) /\ txn'[r].hist[p] = txn[r].hist[p]
      BY <1>1, <1>6, <2>2 DEF Local, Pending
    <3>2. txn[r].hist[p] \in Entry
      BY <1>1, <1>6, <2>2 DEF TypeOK, Txn
    <3>3. txn[r].hist[p].sess \in Sess
      BY <3>2 DEF Entry
    <3>. QED BY <1>1, <1>2, <1>4, <1>6, <1>7, <3>1, <3>3 DEF PendingEntry
  <2>. QED BY <2>1, <2>2 DEF Pending
<1>11. Superseding(r)'
  BY <1>1, <1>2, <1>3, <1>4, <1>6, <1>7, <1>9 DEF Local, Superseding, TypeOK, Job
<1>12. \A q \in Req \ {r} :
         /\ \A z \in Sess : txn[q].rows[z] = None \/ txn'[r].rows[z] = None
         /\ \A z \in Pair : txn[q].hist[z] = None \/ txn'[r].hist[z] = None
         /\ job'[r].new # None => job[q].new # job'[r].new
  BY <1>5, <1>6, <1>7 DEF IInv, Apart, RowFree
<1>13. Local(r)'
  BY <1>8, <1>9, <1>10, <1>11 DEF Local
<1>. QED BY <1>2, <1>6, <1>7, <1>12, <1>13, OwnStep

\* r goes on with the same task: only its place and its list of victims may move.
SameTask(r) == /\ job'[r].op = job[r].op /\ job'[r].tok = job[r].tok
               /\ job'[r].sess = job[r].sess /\ job'[r].new = job[r].new
               /\ job'[r].at = job[r].at /\ job'[r].seen = job[r].seen
               /\ job'[r].prior = job[r].prior

LEMMA ArchiveInv == ASSUME IInv, TypeOK', NEW r \in Req, Archive(r) PROVE IInv'
<1>. DEFINE s == job[r].cur
            p == job[r].seen[s].pair
            rest == job[r].todo \ {s}
<1>1. Local(r) /\ job[r].pc = "archive" /\ TypeOK /\ Stored /\ job[r] \in Job
  BY DEF IInv, Archive, At, TypeOK
<1>2. UNCHANGED <<row, hist, issued>>
  BY DEF Archive, db
<1>3. /\ s \in Sess /\ s \in job[r].todo /\ job[r].seen[s] # None
      /\ txn[r].rows[s] # None /\ Revoked(txn[r].rows[s])
  BY <1>1 DEF Local, Place, Job
<1>4. /\ job[r].seen[s] \in Row /\ row[s] # None /\ issued[p] = s
      /\ \A z \in job[r].todo : z \in Sess /\ job[r].seen[z] # None
  BY <1>1, <1>3 DEF Local, Memory, Place, Job
<1>5. p \in Pair /\ Ended(s) \in Entry /\ Insert(r, p, Ended(s))
  BY <1>3, <1>4 DEF Row, Entry, Ended, Archive
<1>6. /\ txn'[r].rows = txn[r].rows
      /\ \A z \in Pair \ {p} : txn'[r].hist[z] = txn[r].hist[z]
      /\ IF hist[p] = None /\ txn[r].hist[p] = None
           THEN txn'[r].hist[p] = Ended(s) ELSE txn'[r].hist[p] = txn[r].hist[p]
      /\ \A q \in Req \ {r} : txn'[q] = txn[q] /\ txn[q].hist[p] = None
  BY <1>1, <1>5, InsertFields
<1>7. /\ SameTask(r)
      /\ job'[r].todo = rest
      /\ \A q \in Req \ {r} : job'[q] = job[q]
      /\ \/ rest = {} /\ job'[r].pc = "alarm" /\ job[r].op = "refresh"
         \/ rest = {} /\ job'[r].pc = "commit" /\ job[r].op # "refresh"
         \/ job'[r].pc = "update" /\ job'[r].cur \in rest
  <2>1. CASE rest = {}
    <3>. DEFINE l == IF job[r].op = "refresh" THEN "alarm" ELSE "commit"
    <3>1. job' = [job EXCEPT ![r].todo = {}, ![r].pc = l]
      BY <2>1 DEF Archive
    <3>2. job' = [job EXCEPT ![r] = [job[r] EXCEPT !.todo = {}, !.pc = l]]
      BY <3>1
    <3>3. /\ job'[r].todo = {} /\ job'[r].pc = l /\ SameTask(r)
          /\ \A q \in Req \ {r} : job'[q] = job[q]
      BY <1>1, <3>2 DEF SameTask, Job, TypeOK
    <3>. QED BY <2>1, <3>3
  <2>2. CASE rest # {}
    <3>1. PICK n \in rest : job' = [job EXCEPT ![r].todo = rest, ![r].cur = n,
                                               ![r].pc = "update"]
      BY <2>2 DEF Archive
    <3>2. job' = [job EXCEPT ![r] = [job[r] EXCEPT !.todo = rest, !.cur = n, !.pc = "update"]]
      BY <3>1
    <3>3. /\ job'[r].todo = rest /\ job'[r].cur = n /\ job'[r].pc = "update" /\ SameTask(r)
          /\ \A q \in Req \ {r} : job'[q] = job[q]
      BY <1>1, <3>2 DEF SameTask, Job, TypeOK
    <3>. QED BY <3>3
  <2>. QED BY <2>1, <2>2
<1>. HIDE DEF p
<1>8. Memory(r)'
  BY <1>1, <1>2, <1>7 DEF Local, Memory, SameTask
<1>9. Place(r)'
  BY <1>1, <1>2, <1>3, <1>4, <1>6, <1>7 DEF Local, Place, SameTask
<1>10. Pending(r)'
  <2>1. ASSUME NEW z \in Sess, txn'[r].rows[z] # None PROVE PendingRow(r, z)'
    BY <1>1, <1>2, <1>6, <1>7, <2>1 DEF Local, Pending, PendingRow, SameTask
  <2>2. ASSUME NEW z \in Pair, txn'[r].hist[z] # None PROVE PendingEntry(r, z)'
    <3>1. CASE txn'[r].hist[z] = txn[r].hist[z]
      <4>1. PendingEntry(r, z)
        BY <1>1, <2>2, <3>1 DEF Local, Pending
      <4>. QED BY <1>1, <1>2, <1>6, <1>7, <3>1, <4>1 DEF PendingEntry, SameTask
    <3>2. CASE txn'[r].hist[z] # txn[r].hist[z]
      <4>1. z = p /\ hist[p] = None /\ txn'[r].hist[p] = Ended(s)
        BY <1>6, <3>2
      <4>2. row[s].pair = p
        <5>1. Rotated(s) \in Entry /\ s # None
          BY <1>3, NoneAssumption DEF Rotated, Entry
        <5>. QED BY <1>1, <1>4, <1>5, <4>1, <5>1, NoneAssumption DEF Stored
      <4>3. job'[r].pc \notin {"rotate", "retire"}
        BY <1>7
      <4>. QED BY <1>2, <1>3, <1>4, <1>6, <4>1, <4>2, <4>3 DEF PendingEntry, Ended
    <3>. QED BY <3>1, <3>2
  <2>. QED BY <2>1, <2>2 DEF Pending
<1>11. Superseding(r)'
  BY <1>1, <1>2, <1>3, <1>6, <1>7 DEF Local, Superseding, SameTask
<1>12. \A q \in Req \ {r} :
         /\ \A z \in Sess : txn[q].rows[z] = None \/ txn'[r].rows[z] = None
         /\ \A z \in Pair : txn[q].hist[z] = None \/ txn'[r].hist[z] = None
         /\ job'[r].new # None => job[q].new # job'[r].new
  BY <1>6, <1>7 DEF IInv, Apart, SameTask
<1>13. Local(r)'
  BY <1>8, <1>9, <1>10, <1>11 DEF Local
<1>. QED BY <1>2, <1>6, <1>7, <1>12, <1>13, OwnStep

\* A request that begins by reading, with copies of stored rows in its memory.
LEMMA BeginStep ==
    ASSUME IInv, TypeOK', NEW r \in Req, NEW j \in Job, Start(r, j),
           UNCHANGED <<row, hist, issued, txn>>,
           j.op \in {"refresh", "logout", "revoke", "revokeAll", "auth"},
           j.prior = {},
           \A s \in Sess : j.seen[s] # None => row[s] # None /\ j.seen[s] = row[s],
           \A s \in j.todo : j.seen[s] # None,
           \/ j.pc = "abort"
           \/ j.pc = "commit" /\ j.op # "refresh"
           \/ j.pc = "update" /\ j.op # "refresh" /\ j.cur \in j.todo
           \/ j.pc = "retired" /\ j.op = "refresh" /\ j.tok \in Pair
           \/ /\ j.pc = "user" /\ j.op \in {"refresh", "auth"}
              /\ j.sess \in Sess /\ j.seen[j.sess] # None
              /\ j.op = "refresh" => /\ j.tok \in Pair /\ j.new \in Pair
                                     /\ j.seen[j.sess].pair = j.tok,
           j.new # None => /\ j.op = "refresh" /\ j.sess \in Sess /\ issued[j.new] = None
                           /\ \A q \in Req : job[q].new # j.new
    PROVE  IInv'
<1>1. job[r] = Blank /\ txn[r] = Clean
  BY DEF Start, Idle, IInv, Local, Place
<1>2. job'[r] = j /\ \A q \in Req \ {r} : job'[q] = job[q]
  BY DEF Start, IInv, TypeOK
<1>3. /\ txn'[r] = Clean
      /\ \A z \in Sess : txn'[r].rows[z] = None
      /\ \A z \in Pair : txn'[r].hist[z] = None
  BY <1>1 DEF Clean
<1>4. Memory(r)'
  <2>1. \A s \in Sess : j.seen[s] # None => issued[j.seen[s].pair] = s
    BY DEF IInv, Stored
  <2>. QED BY <1>2, <2>1 DEF Memory
<1>5. Place(r)'
  BY <1>2, <1>3 DEF Place
<1>6. Pending(r)'
  BY <1>3 DEF Pending
<1>7. Superseding(r)'
  BY <1>2 DEF Superseding
<1>8. Local(r)'
  BY <1>4, <1>5, <1>6, <1>7 DEF Local
<1>. QED BY <1>2, <1>3, <1>8, OwnStep

LEMMA BeginReadersInv ==
    ASSUME IInv, TypeOK', NEW r \in Req,
           \/ \E u \in User : BeginRevokeAll(r, u)
           \/ \E p \in Pair : BeginLogout(r, p) \/ BeginRefresh(r, p) \/ BeginAuth(r, p)
           \/ \E s \in Sess : BeginRevoke(r, s)
    PROVE  IInv'
<1>. USE DEF db
<1>0. TypeOK /\ now \in Nat
  BY TTLAssumption DEF IInv, TypeOK
<1>1. ASSUME NEW op \in {"logout", "revoke"}, NEW p \in Pair \union {None}, NEW s \in Sess,
             row[s] # None, Start(r, Ending(op, p, s)), UNCHANGED <<row, hist, issued, txn>>
      PROVE  IInv'
  <2>. DEFINE j == Ending(op, p, s)
  <2>1. j \in Job
    BY <1>0, EndingType DEF Op
  <2>2. /\ j.op = op /\ j.prior = {} /\ j.seen = Victims({s}) /\ j.todo = {s} /\ j.new = None
        /\ j.cur = s /\ j.pc \in {"commit", "update"}
    BY DEF Ending, Blank
  <2>3. Victims({s}) = [z \in Sess |-> IF z = s THEN row[z] ELSE None]
    BY DEF Victims
  <2>4. Start(r, j)
    BY <1>1
  <2>5. UNCHANGED <<row, hist, issued, txn>>
    BY <1>1
  <2>6. \A z \in Sess : j.seen[z] # None => row[z] # None /\ j.seen[z] = row[z]
    BY <2>2, <2>3
  <2>7. \A z \in j.todo : j.seen[z] # None
    BY <1>1, <2>2, <2>3
  <2>. HIDE DEF j
  <2>. QED BY <2>1, <2>2, <2>4, <2>5, <2>6, <2>7, BeginStep
<1>2. ASSUME NEW u \in User, BeginRevokeAll(r, u) PROVE IInv'
  <2>. DEFINE S == ValidOf(u, now)
  <2>1. PICK s \in S :
          Start(r, [Blank EXCEPT !.op = "revokeAll", !.pc = "update", !.at = now, !.cur = s,
                                 !.todo = S, !.seen = Victims(S)])
    BY <1>2 DEF BeginRevokeAll
  <2>. DEFINE j == [Blank EXCEPT !.op = "revokeAll", !.pc = "update", !.at = now, !.cur = s,
                                 !.todo = S, !.seen = Victims(S)]
  <2>2. S \subseteq Sess /\ \A z \in S : row[z] # None
    BY DEF ValidOf
  <2>3. j \in Job
    BY <1>0, <2>2, BlankType, VictimsType DEF Job, Op, PC
  <2>4. /\ j.op = "revokeAll" /\ j.prior = {} /\ j.seen = Victims(S) /\ j.todo = S
        /\ j.new = None /\ j.cur = s /\ j.pc = "update"
    BY DEF Blank
  <2>5. Victims(S) = [z \in Sess |-> IF z \in S THEN row[z] ELSE None]
    BY DEF Victims
  <2>6. UNCHANGED <<row, hist, issued, txn>> /\ Start(r, j)
    BY <1>2, <2>1 DEF BeginRevokeAll
  <2>. HIDE DEF j, S
  <2>. QED BY <2>2, <2>3, <2>4, <2>5, <2>6, BeginStep
<1>3. ASSUME NEW p \in Pair, BeginLogout(r, p) PROVE IInv'
  BY <1>1, <1>3 DEF BeginLogout, CurrentOf
<1>4. ASSUME NEW s \in Sess, BeginRevoke(r, s) PROVE IInv'
  BY <1>1, <1>4 DEF BeginRevoke
<1>5. ASSUME NEW p \in Pair, BeginRefresh(r, p) PROVE IInv'
  <2>0. UNCHANGED <<row, hist, issued, txn>>
    BY <1>5 DEF BeginRefresh
  <2>. DEFINE b == [Blank EXCEPT !.op = "refresh", !.tok = p, !.at = now]
  <2>1. b \in Job
    BY <1>0, BlankType DEF Job, Op
  <2>2. CASE Start(r, [b EXCEPT !.pc = "retired"])
    <3>. DEFINE j == [b EXCEPT !.pc = "retired"]
    <3>1. j \in Job
      BY <2>1 DEF Job, PC
    <3>2. /\ j.op = "refresh" /\ j.prior = {} /\ j.seen = [z \in Sess |-> None] /\ j.todo = {}
          /\ j.new = None /\ j.pc = "retired" /\ j.tok = p
      BY DEF Blank
    <3>3. Start(r, j)
      BY <2>2
    <3>. HIDE DEF j, b
    <3>. QED BY <2>0, <3>1, <3>2, <3>3, BeginStep
  <2>3. ASSUME NEW s \in CurrentOf(p), NEW q \in FreshPair \ {p}, NEW l \in {"abort", "user"},
               Start(r, [b EXCEPT !.sess = s, !.seen = Victims({s}), !.new = q, !.pc = l])
        PROVE  IInv'
    <3>. DEFINE j == [b EXCEPT !.sess = s, !.seen = Victims({s}), !.new = q, !.pc = l]
    <3>1. s \in Sess /\ row[s] # None /\ row[s].pair = p /\ l \in PC
      BY DEF CurrentOf, PC
    <3>2. q \in Pair /\ issued[q] = None /\ \A z \in Req : job[z].new # q
      BY DEF FreshPair
    <3>3. j \in Job
      BY <1>0, <2>1, <3>1, <3>2, VictimsType DEF Job
    <3>4. /\ j.op = "refresh" /\ j.prior = {} /\ j.seen = Victims({s}) /\ j.todo = {}
          /\ j.new = q /\ j.pc = l /\ j.tok = p /\ j.sess = s
      BY DEF Blank
    <3>5. Victims({s}) = [z \in Sess |-> IF z = s THEN row[z] ELSE None]
      BY DEF Victims
    <3>6. Start(r, j)
      BY <2>3
    <3>. HIDE DEF j, b
    <3>. QED BY <2>0, <3>1, <3>2, <3>3, <3>4, <3>5, <3>6, BeginStep
  <2>. QED BY <1>5, <2>2, <2>3 DEF BeginRefresh
<1>6. ASSUME NEW p \in Pair, BeginAuth(r, p) PROVE IInv'
  <2>1. PICK s \in CurrentOf(p), l \in {"abort", "user"} :
          Start(r, [Blank EXCEPT !.op = "auth", !.tok = p, !.sess = s, !.at = now,
                                 !.seen = Victims({s}), !.pc = l])
    BY <1>6 DEF BeginAuth
  <2>. DEFINE j == [Blank EXCEPT !.op = "auth", !.tok = p, !.sess = s, !.at = now,
                                 !.seen = Victims({s}), !.pc = l]
  <2>2. s \in Sess /\ row[s] # None /\ l \in PC
    BY DEF CurrentOf, PC
  <2>3. j \in Job
    BY <1>0, <2>2, BlankType, VictimsType DEF Job, Op
  <2>4. /\ j.op = "auth" /\ j.prior = {} /\ j.seen = Victims({s}) /\ j.todo = {}
        /\ j.new = None /\ j.pc = l /\ j.sess = s
    BY DEF Blank
  <2>5. Victims({s}) = [z \in Sess |-> IF z = s THEN row[z] ELSE None]
    BY DEF Victims
  <2>6. UNCHANGED <<row, hist, issued, txn>> /\ Start(r, j)
    BY <1>6, <2>1 DEF BeginAuth
  <2>. HIDE DEF j
  <2>. QED BY <2>2, <2>3, <2>4, <2>5, <2>6, BeginStep
<1>. QED BY <1>2, <1>3, <1>4, <1>5, <1>6

LEMMA LookupRetiredInv == ASSUME IInv, TypeOK', NEW r \in Req, LookupRetired(r) PROVE IInv'
<1>. DEFINE e == hist[job[r].tok]
<1>1. Local(r) /\ job[r].pc = "retired" /\ TypeOK /\ Stored /\ job[r] \in Job
  BY DEF IInv, LookupRetired, At, TypeOK
<1>2. UNCHANGED <<row, hist, issued, txn>>
  BY DEF LookupRetired, db
<1>3. job[r].op = "refresh" /\ job[r].tok \in Pair /\ txn[r] = Clean
  BY <1>1 DEF Local, Place
<1>4. /\ \A z \in Sess : txn[r].rows[z] = None
      /\ \A z \in Pair : txn[r].hist[z] = None
  BY <1>3 DEF Clean
<1>5. CASE Goto(r, "abort")
  <2>1. /\ SameTask(r) /\ job'[r].pc = "abort" /\ job'[r].todo = job[r].todo
        /\ \A q \in Req \ {r} : job'[q] = job[q]
    BY <1>1, <1>5, GotoFields DEF PC, SameTask
  <2>2. Memory(r)'
    BY <1>1, <1>2, <2>1 DEF Local, Memory, SameTask
  <2>3. Place(r)'
    BY <1>1, <1>2, <1>3, <2>1 DEF Local, Place, SameTask
  <2>4. Pending(r)'
    BY <1>2, <1>4 DEF Pending
  <2>5. Superseding(r)'
    BY <1>3, <2>1 DEF Superseding, SameTask
  <2>6. Local(r)'
    BY <2>2, <2>3, <2>4, <2>5 DEF Local
  <2>7. job'[r].new = job[r].new
    BY <2>1 DEF SameTask
  <2>. QED BY <1>2, <2>1, <2>6, <2>7, ReadStep
<1>6. CASE ~Goto(r, "abort")
  <2>1. /\ e # None
        /\ job' = [job EXCEPT ![r].pc = "update", ![r].sess = e.sess, ![r].cur = e.sess,
                              ![r].todo = {e.sess}, ![r].seen = Victims({e.sess})]
    BY <1>6 DEF LookupRetired
  <2>2. e \in Entry
    BY <1>1, <1>3, <2>1 DEF TypeOK
  <2>. DEFINE s == e.sess
  <2>3. s \in Sess /\ issued[job[r].tok] = s
    BY <1>1, <1>3, <2>1, <2>2 DEF Entry, Stored
  <2>4. row[s] # None
    BY <1>1, <1>3, <2>3, NoneAssumption DEF Stored
  <2>5. job'[r] = [job[r] EXCEPT !.pc = "update", !.sess = s, !.cur = s, !.todo = {s},
                                 !.seen = Victims({s})]
    BY <1>1, <2>1 DEF TypeOK
  <2>6. /\ job'[r].pc = "update" /\ job'[r].sess = s /\ job'[r].cur = s /\ job'[r].todo = {s}
        /\ job'[r].seen = Victims({s}) /\ job'[r].op = "refresh" /\ job'[r].new = job[r].new
    BY <1>1, <1>3, <2>5 DEF Job
  <2>7. \A q \in Req \ {r} : job'[q] = job[q]
    BY <1>1, <2>1 DEF TypeOK
  <2>8. \A z \in Sess : Victims({s})[z] = IF z = s THEN row[s] ELSE None
    BY DEF Victims
  <2>9. issued[row[s].pair] = s
    BY <1>1, <2>3, <2>4 DEF Stored
  <2>. HIDE DEF s
  <2>10. Memory(r)'
    BY <1>1, <1>2, <1>3, <2>3, <2>4, <2>6, <2>8, <2>9 DEF Local, Memory
  <2>11. Place(r)'
    BY <1>2, <2>3, <2>4, <2>6, <2>8 DEF Place
  <2>12. Pending(r)'
    BY <1>2, <1>4 DEF Pending
  <2>13. Superseding(r)'
    BY <2>6 DEF Superseding
  <2>14. Local(r)'
    BY <2>10, <2>11, <2>12, <2>13 DEF Local
  <2>. QED BY <1>2, <2>6, <2>7, <2>14, ReadStep
<1>. QED BY <1>5, <1>6

LEMMA CheckUserInv == ASSUME IInv, TypeOK', NEW r \in Req, CheckUser(r) PROVE IInv'
<1>1. Local(r) /\ job[r].pc = "user" /\ TypeOK
  BY DEF IInv, CheckUser, At
<1>2. UNCHANGED <<row, hist, issued, txn>>
  BY DEF CheckUser, db
<1>3. txn[r] = Clean /\ job[r].op \in {"refresh", "auth"}
  BY <1>1 DEF Local, Place
<1>4. PICK l \in {"abort", "retire", "touch"} :
        /\ Goto(r, l)
        /\ l = "retire" => job[r].op = "refresh"
        /\ l = "touch" => job[r].op = "auth"
  BY <1>3 DEF CheckUser
<1>5. /\ SameTask(r) /\ job'[r].pc = l /\ job'[r].todo = job[r].todo
      /\ \A q \in Req \ {r} : job'[q] = job[q]
  BY <1>1, <1>4, GotoFields DEF PC, SameTask
<1>6. Memory(r)'
  BY <1>1, <1>2, <1>5 DEF Local, Memory, SameTask
<1>7. Place(r)'
  BY <1>1, <1>2, <1>3, <1>4, <1>5 DEF Local, Place, SameTask
<1>8. Pending(r)'
  BY <1>2, <1>3 DEF Pending, Clean
<1>9. Superseding(r)'
  BY <1>3, <1>5 DEF Superseding, SameTask
<1>10. Local(r)'
  BY <1>6, <1>7, <1>8, <1>9 DEF Local
<1>11. job'[r].new = job[r].new
  BY <1>5 DEF SameTask
<1>. QED BY <1>2, <1>5, <1>10, <1>11, ReadStep

LEMMA ServeInv == ASSUME IInv, TypeOK', NEW r \in Req, Serve(r) PROVE IInv'
<1>1. Local(r) /\ job[r].pc = "serve" /\ TypeOK
  BY DEF IInv, Serve, At
<1>2. UNCHANGED <<row, hist, issued, txn>>
  BY DEF Serve, db
<1>3. job[r].op = "auth"
  BY <1>1 DEF Local, Place
<1>4. PICK l \in {"commit", "abort"} : Goto(r, l)
  BY DEF Serve
<1>5. /\ SameTask(r) /\ job'[r].pc = l /\ job'[r].todo = job[r].todo
      /\ \A q \in Req \ {r} : job'[q] = job[q]
  BY <1>1, <1>4, GotoFields DEF PC, SameTask
<1>6. Memory(r)'
  BY <1>1, <1>2, <1>5 DEF Local, Memory, SameTask
<1>7. Place(r)'
  BY <1>1, <1>2, <1>3, <1>4, <1>5 DEF Local, Place, SameTask
<1>8. Pending(r)'
  BY <1>1, <1>2, <1>3, <1>5 DEF Local, Pending, PendingRow, PendingEntry, SameTask
<1>9. Superseding(r)'
  BY <1>3, <1>5 DEF Superseding, SameTask
<1>10. Local(r)'
  BY <1>6, <1>7, <1>8, <1>9 DEF Local
<1>11. job'[r].new = job[r].new
  BY <1>5 DEF SameTask
<1>. QED BY <1>2, <1>5, <1>10, <1>11, ReadStep

LEMMA TouchInv == ASSUME IInv, TypeOK', NEW r \in Req, Touch(r) PROVE IInv'
<1>. DEFINE s == job[r].sess
<1>1. Local(r) /\ job[r].pc = "touch" /\ TypeOK /\ Stored
  BY DEF IInv, Touch, At
<1>2. UNCHANGED <<row, hist, issued>>
  BY DEF Touch, db
<1>3. job[r].op = "auth" /\ s \in Sess /\ job[r].seen[s] # None
  BY <1>1 DEF Local, Place
<1>4. row[s] # None /\ row[s] \in Row
  BY <1>1, <1>3 DEF Local, Memory, TypeOK
<1>5. /\ SameTask(r) /\ job'[r].pc = "serve" /\ job'[r].todo = job[r].todo
      /\ \A q \in Req \ {r} : job'[q] = job[q]
  BY <1>1, GotoFields DEF Touch, PC, SameTask
<1>6. /\ txn'[r].hist = txn[r].hist
      /\ \A z \in Sess : \/ txn'[r].rows[z] = txn[r].rows[z]
                         \/ z = s /\ txn'[r].rows[z] = row[s] /\ RowFree(r, s)
      /\ \A q \in Req \ {r} : txn'[q] = txn[q]
  <2>1. CASE UNCHANGED txn
    BY <2>1
  <2>2. CASE ~UNCHANGED txn
    <3>1. RowFree(r, s) /\ txn' = [txn EXCEPT ![r].rows[s] = row[s]]
      BY <2>2 DEF Touch
    <3>. QED BY <1>1, <1>3, <1>4, <3>1, WriteFields
  <2>. QED BY <2>1, <2>2
<1>7. Memory(r)'
  BY <1>1, <1>2, <1>5 DEF Local, Memory, SameTask
<1>8. Place(r)'
  BY <1>1, <1>2, <1>3, <1>5 DEF Local, Place, SameTask
<1>9. Pending(r)'
  <2>1. ASSUME NEW z \in Sess, txn'[r].rows[z] # None PROVE PendingRow(r, z)'
    <3>1. CASE txn'[r].rows[z] = txn[r].rows[z]
      BY <1>1, <1>2, <1>3, <1>5, <2>1, <3>1 DEF Local, Pending, PendingRow, SameTask
    <3>2. CASE txn'[r].rows[z] # txn[r].rows[z]
      BY <1>1, <1>2, <1>3, <1>4, <1>6, <3>2 DEF PendingRow, Stored
    <3>. QED BY <3>1, <3>2
  <2>2. ASSUME NEW z \in Pair, txn'[r].hist[z] # None PROVE PendingEntry(r, z)'
    BY <1>1, <1>6, <2>2 DEF Local, Place, Clean
  <2>. QED BY <2>1, <2>2 DEF Pending
<1>10. Superseding(r)'
  BY <1>3, <1>5 DEF Superseding, SameTask
<1>11. Local(r)'
  BY <1>7, <1>8, <1>9, <1>10 DEF Local
<1>12. \A q \in Req \ {r} :
         /\ \A z \in Sess : txn[q].rows[z] = None \/ txn'[r].rows[z] = None
         /\ \A z \in Pair : txn[q].hist[z] = None \/ txn'[r].hist[z] = None
         /\ job'[r].new # None => job[q].new # job'[r].new
  BY <1>5, <1>6 DEF IInv, Apart, RowFree, SameTask
<1>. QED BY <1>2, <1>5, <1>6, <1>11, <1>12, OwnStep

LEMMA RetirePresentedInv == ASSUME IInv, TypeOK', NEW r \in Req, RetirePresented(r) PROVE IInv'
<1>. DEFINE s == job[r].sess
            p == job[r].tok
<1>1. Local(r) /\ job[r].pc = "retire" /\ TypeOK /\ Stored
  BY DEF IInv, RetirePresented, At
<1>2. UNCHANGED <<row, hist, issued>>
  BY DEF RetirePresented, db
<1>3. /\ job[r].op = "refresh" /\ txn[r] = Clean
      /\ s \in Sess /\ job[r].seen[s] # None
      /\ p \in Pair /\ job[r].new \in Pair /\ job[r].seen[s].pair = p
  BY <1>1 DEF Local, Place
<1>4. row[s] # None /\ issued[p] = s /\ s # None
  BY <1>1, <1>3, NoneAssumption DEF Local, Memory
<1>5. Rotated(s) \in Entry /\ Insert(r, p, Rotated(s))
  BY <1>3 DEF Rotated, Entry, RetirePresented
<1>6. /\ SameTask(r) /\ job'[r].pc = "rotate" /\ job'[r].todo = job[r].todo
      /\ \A q \in Req \ {r} : job'[q] = job[q]
  BY <1>1, GotoFields DEF RetirePresented, PC, SameTask
<1>7. /\ txn'[r].rows = txn[r].rows
      /\ \A z \in Pair \ {p} : txn'[r].hist[z] = txn[r].hist[z]
      /\ IF hist[p] = None /\ txn[r].hist[p] = None
           THEN txn'[r].hist[p] = Rotated(s) ELSE txn'[r].hist[p] = txn[r].hist[p]
      /\ \A q \in Req \ {r} : txn'[q] = txn[q] /\ txn[q].hist[p] = None
  BY <1>1, <1>3, <1>5, InsertFields
<1>8. /\ \A z \in Sess : txn'[r].rows[z] = None
      /\ \A z \in Pair \ {p} : txn'[r].hist[z] = None
      /\ IF hist[p] = None THEN txn'[r].hist[p] = Rotated(s) ELSE txn'[r].hist[p] = None
  BY <1>3, <1>7 DEF Clean
<1>9. Memory(r)'
  BY <1>1, <1>2, <1>6 DEF Local, Memory, SameTask
<1>10. Place(r)'
  BY <1>1, <1>2, <1>3, <1>6, <1>8 DEF Local, Place, SameTask
<1>11. Pending(r)'
  <2>1. ASSUME NEW z \in Pair, txn'[r].hist[z] # None PROVE PendingEntry(r, z)'
    <3>1. z = p /\ hist[p] = None /\ txn'[r].hist[p] = Rotated(s)
      BY <1>8, <2>1
    <3>2. row[s].pair = p
      BY <1>1, <1>3, <1>4, <1>5, <3>1, NoneAssumption DEF Stored
    <3>. QED BY <1>2, <1>3, <1>4, <1>6, <3>1, <3>2 DEF PendingEntry, Rotated, SameTask
  <2>. QED BY <1>8, <2>1 DEF Pending
<1>12. Superseding(r)'
  BY <1>3, <1>6 DEF Superseding, SameTask
<1>13. Local(r)'
  BY <1>9, <1>10, <1>11, <1>12 DEF Local
<1>14. \A q \in Req \ {r} :
         /\ \A z \in Sess : txn[q].rows[z] = None \/ txn'[r].rows[z] = None
         /\ \A z \in Pair : txn[q].hist[z] = None \/ txn'[r].hist[z] = None
         /\ job'[r].new # None => job[q].new # job'[r].new
  BY <1>6, <1>7, <1>8 DEF IInv, Apart, SameTask
<1>. QED BY <1>2, <1>6, <1>7, <1>13, <1>14, OwnStep

LEMMA RotateInv == ASSUME IInv, TypeOK', NEW r \in Req, Rotate(r) PROVE IInv'
<1>. DEFINE s == job[r].sess
            p == job[r].tok
            n == job[r].new
<1>1. Local(r) /\ job[r].pc = "rotate" /\ TypeOK /\ Stored /\ job[r] \in Job
  BY DEF IInv, Rotate, At, TypeOK
<1>2. UNCHANGED <<row, hist, issued>>
  BY DEF Rotate, db
<1>3. /\ job[r].op = "refresh"
      /\ s \in Sess /\ job[r].seen[s] # None
      /\ p \in Pair /\ n \in Pair /\ job[r].seen[s].pair = p
      /\ hist[p] # None \/ txn[r].hist[p] = Rotated(s)
  BY <1>1 DEF Local, Place
<1>4. /\ row[s] # None /\ row[s] \in Row /\ job[r].seen[s] \in Row
      /\ issued[p] = s /\ s # None /\ n # None /\ issued[n] = None
      /\ job[r].seen[s].rexp = row[s].rexp
  BY <1>1, <1>3, NoneAssumption DEF Local, Memory, TypeOK, Job
<1>5. \A z \in Sess : txn[r].rows[z] # None => row[z] # None /\ txn[r].rows[z].pair = row[z].pair
  BY <1>1, <1>3 DEF Local, Pending, PendingRow
<1>6. CASE Swaps(r)
  <2>. DEFINE t == RotatedExpiry(job[r].at, job[r].seen[s].rexp)
              x == [row[s] EXCEPT !.pair = n, !.exp = t]
  <2>1. row[s].pair = p /\ ~Revoked(row[s]) /\ n # p
    BY <1>3, <1>4, <1>6 DEF Swaps
  <2>2. hist[p] = None /\ txn[r].hist[p] = Rotated(s)
    BY <1>1, <1>3, <1>4, <2>1 DEF Stored, TypeOK, Entry
  <2>3. t \in Nat /\ t <= row[s].rexp
    <3>1. job[r].at \in Nat /\ row[s].rexp \in Nat
      BY <1>1, <1>4 DEF Job, Row
    <3>. QED BY <1>4, <3>1, TTLAssumption DEF RotatedExpiry, Earlier
  <2>4. txn' = [txn EXCEPT ![r].rows[s] = x] /\ Goto(r, "commit") /\ RowFree(r, s)
    BY <1>6 DEF Rotate
  <2>5. x \in Row /\ x.pair = n /\ x.exp = t /\ x.user = row[s].user /\ x.rexp = row[s].rexp
        /\ ~Revoked(x) /\ x # None
    <3>1. x \in Row
      BY <1>3, <1>4, <2>3, RowType
    <3>2. /\ x.pair = n /\ x.exp = t /\ x.user = row[s].user /\ x.rexp = row[s].rexp
          /\ x.reason = row[s].reason
      BY <1>4 DEF Row
    <3>3. ~Revoked(x)
      BY <2>1, <3>2 DEF Revoked
    <3>4. x # None
      BY <3>1, NoneAssumption
    <3>. QED BY <3>1, <3>2, <3>3, <3>4
  <2>. HIDE DEF x, t
  <2>6. /\ SameTask(r) /\ job'[r].pc = "commit" /\ job'[r].todo = job[r].todo
        /\ \A q \in Req \ {r} : job'[q] = job[q]
    BY <1>1, <2>4, GotoFields DEF PC, SameTask
  <2>7. /\ txn'[r].hist = txn[r].hist /\ txn'[r].rows[s] = x
        /\ \A z \in Sess \ {s} : txn'[r].rows[z] = txn[r].rows[z]
        /\ \A q \in Req \ {r} : txn'[q] = txn[q]
    BY <1>1, <1>3, <2>4, <2>5, WriteFields
  <2>8. Memory(r)'
    BY <1>1, <1>2, <2>6 DEF Local, Memory, SameTask
  <2>9. Place(r)'
    BY <1>1, <1>2, <1>3, <2>5, <2>6, <2>7 DEF Local, Place, SameTask
  <2>10. Pending(r)'
    <3>1. ASSUME NEW z \in Sess, txn'[r].rows[z] # None PROVE PendingRow(r, z)'
      <4>1. CASE z = s
        BY <1>2, <1>3, <1>4, <2>1, <2>2, <2>3, <2>5, <2>6, <2>7, <4>1 DEF PendingRow, SameTask
      <4>2. CASE z # s
        BY <1>1, <1>2, <1>5, <2>6, <2>7, <3>1, <4>2 DEF Local, Pending, PendingRow, SameTask
      <4>. QED BY <4>1, <4>2
    <3>2. ASSUME NEW z \in Pair, txn'[r].hist[z] # None PROVE PendingEntry(r, z)'
      <4>1. PendingEntry(r, z) /\ txn[r].hist[z] \in Entry
        BY <1>1, <2>7, <3>2 DEF Local, Pending, TypeOK, Txn
      <4>2. /\ txn[r].hist[z].why = "ROTATED" /\ txn[r].hist[z].sess = s /\ z = p
            /\ hist[z] = None /\ issued[z] = s /\ row[s].pair = z
        BY <1>1, <4>1 DEF PendingEntry, Entry
      <4>. QED BY <1>2, <1>3, <2>1, <2>5, <2>6, <2>7, <4>2 DEF PendingEntry, SameTask
    <3>. QED BY <3>1, <3>2 DEF Pending
  <2>11. Superseding(r)'
    BY <1>3, <2>6 DEF Superseding, SameTask
  <2>12. Local(r)'
    BY <2>8, <2>9, <2>10, <2>11 DEF Local
  <2>13. \A q \in Req \ {r} :
           /\ \A z \in Sess : txn[q].rows[z] = None \/ txn'[r].rows[z] = None
           /\ \A z \in Pair : txn[q].hist[z] = None \/ txn'[r].hist[z] = None
           /\ job'[r].new # None => job[q].new # job'[r].new
    BY <2>4, <2>6, <2>7 DEF IInv, Apart, RowFree, SameTask
  <2>. QED BY <1>2, <2>6, <2>7, <2>12, <2>13, OwnStep
<1>7. CASE ~Swaps(r)
  <2>1. job' = [job EXCEPT ![r].pc = "update", ![r].cur = s, ![r].todo = {s}] /\ UNCHANGED txn
    BY <1>7 DEF Rotate
  <2>2. job' = [job EXCEPT ![r] = [job[r] EXCEPT !.pc = "update", !.cur = s, !.todo = {s}]]
    BY <2>1
  <2>3. /\ job'[r].pc = "update" /\ job'[r].cur = s /\ job'[r].todo = {s} /\ SameTask(r)
        /\ \A q \in Req \ {r} : job'[q] = job[q]
    BY <1>1, <2>2 DEF Job, TypeOK, SameTask
  <2>4. Memory(r)'
    BY <1>1, <1>2, <2>3 DEF Local, Memory, SameTask
  <2>5. Place(r)'
    BY <1>3, <2>3 DEF Place, SameTask
  <2>6. Pending(r)'
    <3>1. ASSUME NEW z \in Sess, txn'[r].rows[z] # None PROVE PendingRow(r, z)'
      BY <1>1, <1>2, <1>5, <2>1, <3>1 DEF Local, Pending, PendingRow
    <3>2. ASSUME NEW z \in Pair, txn'[r].hist[z] # None PROVE PendingEntry(r, z)'
      BY <1>1, <1>2, <2>1, <2>3, <3>2 DEF Local, Pending, PendingEntry, SameTask
    <3>. QED BY <3>1, <3>2 DEF Pending
  <2>7. Superseding(r)'
    BY <1>3, <2>3 DEF Superseding, SameTask
  <2>8. Local(r)'
    BY <2>4, <2>5, <2>6, <2>7 DEF Local
  <2>9. UNCHANGED <<row, hist, issued, txn>> /\ job'[r].new = job[r].new
    BY <1>2, <2>1, <2>3 DEF SameTask
  <2>. QED BY <2>3, <2>8, <2>9, ReadStep
<1>. QED BY <1>6, <1>7

\* What a commit of r does to the tables.
Published(r) ==
    /\ \A s \in Sess : row[s] # None =>
         /\ row'[s] # None
         /\ row'[s].user = row[s].user
         /\ row'[s].rexp = row[s].rexp
         /\ Revoked(row[s]) => Revoked(row'[s])
    /\ \A s \in Sess : row[s] = None /\ row'[s] # None =>
         job[r].sess = s /\ row'[s].pair = job[r].new /\ job[r].new \in Pair
    /\ \A s \in Sess : row[s] # None /\ row'[s].pair = row[s].pair => row'[s].exp = row[s].exp
    /\ \A s \in Sess : row[s] # None /\ row'[s].pair # row[s].pair =>
         /\ ~Revoked(row[s]) /\ ~Revoked(row'[s])
         /\ job[r].op = "refresh" /\ job[r].tok = row[s].pair
         /\ job[r].sess = s /\ row'[s].pair = job[r].new /\ job[r].new \in Pair
         /\ txn[r].hist[row[s].pair] = Rotated(s)
    /\ \A s \in Sess : row'[s] # None => row'[s].exp <= row'[s].rexp
    /\ \A s \in Sess : txn[r].rows[s] = None => row'[s] = row[s]
    /\ \A s \in Sess : txn[r].rows[s] # None => row'[s] = txn[r].rows[s]
    /\ \A p \in Pair : hist[p] # None => hist'[p] = hist[p]
    /\ \A p \in Pair : hist[p] = None => hist'[p] = txn[r].hist[p]
    /\ \A p \in Pair : issued[p] # None => issued'[p] = issued[p] /\ p # job[r].new
    /\ \A p \in Pair : p # job[r].new => issued'[p] = issued[p]
    /\ job[r].new \in Pair => /\ issued'[job[r].new] = job[r].sess
                              /\ job[r].sess \in Sess
                              /\ row'[job[r].sess] # None
                              /\ row'[job[r].sess].pair = job[r].new

LEMMA CommitPublishes == ASSUME IInv, TypeOK', NEW r \in Req, Commit(r) PROVE Published(r)
<1>1. Local(r) /\ job[r].pc = "commit" /\ TypeOK /\ Stored
  BY DEF IInv, Commit, At
<1>2. /\ \A s \in Sess : row'[s] = IF txn[r].rows[s] # None THEN txn[r].rows[s] ELSE row[s]
      /\ \A p \in Pair : hist'[p] = IF txn[r].hist[p] # None THEN txn[r].hist[p] ELSE hist[p]
      /\ \A p \in Pair : issued'[p] = IF p = job[r].new THEN job[r].sess ELSE issued[p]
  BY DEF Commit
<1>3. \A s \in Sess : txn[r].rows[s] # None => PendingRow(r, s)
  BY <1>1 DEF Local, Pending
<1>4. \A p \in Pair : txn[r].hist[p] # None => hist[p] = None
  BY <1>1 DEF Local, Pending, PendingEntry
<1>5. job[r].new \in Pair =>
        /\ issued[job[r].new] = None
        /\ job[r].sess \in Sess
        /\ txn[r].rows[job[r].sess] # None
        /\ txn[r].rows[job[r].sess].pair = job[r].new
  <2>. SUFFICES ASSUME job[r].new \in Pair
                PROVE  /\ issued[job[r].new] = None
                       /\ job[r].sess \in Sess
                       /\ txn[r].rows[job[r].sess] # None
                       /\ txn[r].rows[job[r].sess].pair = job[r].new
    OBVIOUS
  <2>1. /\ issued[job[r].new] = None /\ job[r].sess \in Sess
        /\ job[r].op \in {"login", "refresh"}
    BY <1>1, NoneAssumption DEF Local, Memory
  <2>2. CASE job[r].op = "login"
    <3>1. txn[r].rows[job[r].sess] # None /\ row[job[r].sess] = None
      BY <1>1, <2>2 DEF Local, Place
    <3>. QED BY <1>3, <2>1, <3>1 DEF PendingRow
  <2>3. CASE job[r].op = "refresh"
    BY <1>1, <2>1, <2>3 DEF Local, Place
  <2>. QED BY <2>1, <2>2, <2>3
<1>6. ASSUME NEW s \in Sess
      PROVE  /\ row[s] # None => /\ row'[s] # None
                                 /\ row'[s].user = row[s].user
                                 /\ row'[s].rexp = row[s].rexp
                                 /\ Revoked(row[s]) => Revoked(row'[s])
             /\ row[s] = None /\ row'[s] # None =>
                  job[r].sess = s /\ row'[s].pair = job[r].new /\ job[r].new \in Pair
             /\ row[s] # None /\ row'[s].pair = row[s].pair => row'[s].exp = row[s].exp
             /\ row[s] # None /\ row'[s].pair # row[s].pair =>
                  /\ ~Revoked(row[s]) /\ ~Revoked(row'[s])
                  /\ job[r].op = "refresh" /\ job[r].tok = row[s].pair
                  /\ job[r].sess = s /\ row'[s].pair = job[r].new /\ job[r].new \in Pair
                  /\ txn[r].hist[row[s].pair] = Rotated(s)
             /\ row'[s] # None => row'[s].exp <= row'[s].rexp
  <2>1. CASE txn[r].rows[s] = None
    <3>1. row'[s] = row[s]
      BY <1>2, <2>1
    <3>. QED BY <1>1, <3>1 DEF Stored
  <2>2. CASE txn[r].rows[s] # None
    <3>1. row'[s] = txn[r].rows[s]
      BY <1>2, <2>2
    <3>. QED BY <1>3, <2>2, <3>1 DEF PendingRow
  <2>. QED BY <2>1, <2>2
<1>7. \A p \in Pair : issued[p] # None => issued'[p] = issued[p] /\ p # job[r].new
  BY <1>2, <1>5
<1>. QED BY <1>2, <1>4, <1>5, <1>6, <1>7 DEF Published

LEMMA CommitStored == ASSUME IInv, TypeOK', NEW r \in Req, Commit(r) PROVE Stored'
<1>1. Local(r) /\ job[r].pc = "commit" /\ TypeOK /\ Stored /\ Published(r)
  BY CommitPublishes DEF IInv, Commit, At
<1>2. ASSUME NEW s \in Sess, row'[s] # None
      PROVE  issued'[row'[s].pair] = s /\ row'[s].exp <= row'[s].rexp
  <2>1. row'[s].exp <= row'[s].rexp
    BY <1>1, <1>2 DEF Published
  <2>2. row'[s].pair \in Pair
    BY <1>2 DEF TypeOK, Row
  <2>3. CASE row[s] # None /\ row'[s].pair = row[s].pair
    <3>1. issued[row[s].pair] = s /\ s # None
      BY <1>1, <2>3, NoneAssumption DEF Stored
    <3>. QED BY <1>1, <2>1, <2>2, <2>3, <3>1 DEF Published
  <2>4. CASE ~(row[s] # None /\ row'[s].pair = row[s].pair)
    <3>1. job[r].sess = s /\ row'[s].pair = job[r].new
      BY <1>1, <1>2, <2>4 DEF Published
    <3>. QED BY <1>1, <2>1, <2>2, <3>1 DEF Published
  <2>. QED BY <2>3, <2>4
<1>3. ASSUME NEW p \in Pair, issued'[p] # None
      PROVE  /\ row'[issued'[p]] # None
             /\ row'[issued'[p]].pair = p \/ hist'[p] = Rotated(issued'[p])
  <2>1. CASE p = job[r].new
    BY <1>1, <2>1 DEF Published
  <2>2. CASE p # job[r].new
    <3>1. issued'[p] = issued[p] /\ issued[p] \in Sess
      BY <1>1, <1>3, <2>2 DEF Published, TypeOK
    <3>. DEFINE s == issued[p]
    <3>2. row[s] # None /\ (row[s].pair = p \/ hist[p] = Rotated(s))
      BY <1>1, <1>3, <3>1 DEF Stored
    <3>3. Rotated(s) \in Entry
      BY <3>1 DEF Rotated, Entry
    <3>4. CASE hist[p] = Rotated(s)
      BY <1>1, <3>1, <3>2, <3>3, <3>4, NoneAssumption DEF Published
    <3>5. CASE row[s].pair = p /\ row'[s].pair = p
      BY <1>1, <3>1, <3>2, <3>5 DEF Published
    <3>6. CASE row[s].pair = p /\ row'[s].pair # p /\ hist[p] # Rotated(s)
      <4>1. txn[r].hist[p] = Rotated(s)
        BY <1>1, <3>1, <3>2, <3>6 DEF Published
      <4>2. hist[p] = None
        BY <1>1, <3>3, <4>1, NoneAssumption DEF Local, Pending, PendingEntry
      <4>. QED BY <1>1, <3>1, <3>2, <4>1, <4>2 DEF Published
    <3>. QED BY <3>2, <3>4, <3>5, <3>6
  <2>. QED BY <2>1, <2>2
<1>4. ASSUME NEW p \in Pair, hist'[p] # None
      PROVE  /\ issued'[p] = hist'[p].sess
             /\ hist'[p].why = "ROTATED" => row'[issued'[p]].pair # p
             /\ hist'[p].why = "SESSION_REVOKED" =>
                  row'[issued'[p]].pair = p /\ Revoked(row'[issued'[p]])
  <2>. DEFINE s == hist'[p].sess
  <2>1. s \in Sess /\ s # None
    BY <1>4, NoneAssumption DEF TypeOK, Entry
  <2>2. CASE hist[p] # None
    <3>1. hist'[p] = hist[p] /\ issued[p] = s
      BY <1>1, <2>2 DEF Published, Stored
    <3>2. issued'[p] = s /\ p # job[r].new /\ row[s] # None
      BY <1>1, <2>1, <3>1 DEF Published, Stored
    <3>3. hist[p].why = "ROTATED" => row'[s].pair # p
      BY <1>1, <2>1, <2>2, <3>1, <3>2 DEF Published, Stored
    <3>4. hist[p].why = "SESSION_REVOKED" => row'[s].pair = p /\ Revoked(row'[s])
      BY <1>1, <2>1, <2>2, <3>1, <3>2 DEF Published, Stored
    <3>. QED BY <3>1, <3>2, <3>3, <3>4
  <2>3. CASE hist[p] = None
    <3>1. hist'[p] = txn[r].hist[p]
      BY <1>1, <2>3 DEF Published
    <3>2. PendingEntry(r, p)
      BY <1>1, <1>4, <3>1 DEF Local, Pending
    <3>3. issued[p] = s /\ row[s].pair = p
      BY <3>1, <3>2 DEF PendingEntry
    <3>4. issued'[p] = s /\ row[s] # None
      BY <1>1, <2>1, <3>3 DEF Published, Stored
    <3>5. hist'[p].why = "ROTATED" => row'[s].pair # p
      BY <1>1, <2>1, <3>1, <3>2 DEF PendingEntry, Local, Place, Published
    <3>6. hist'[p].why = "SESSION_REVOKED" => Revoked(row'[s])
      BY <1>1, <2>1, <3>1, <3>2 DEF PendingEntry, Published
    <3>7. hist'[p].why = "SESSION_REVOKED" => row'[s].pair = p
      BY <1>1, <2>1, <3>3, <3>4, <3>6 DEF Published
    <3>. QED BY <3>4, <3>5, <3>6, <3>7
  <2>. QED BY <2>2, <2>3
<1>. QED BY <1>2, <1>3, <1>4 DEF Stored

LEMMA CommitLocal == ASSUME IInv, TypeOK', NEW r \in Req, Commit(r), NEW q \in Req \ {r}
                     PROVE  Local(q)'
<1>1. TypeOK /\ Stored /\ Published(r) /\ Local(q) /\ Apart
  BY CommitPublishes DEF IInv
<1>2. job'[q] = job[q] /\ txn'[q] = txn[q]
  BY <1>1 DEF Commit, End, TypeOK
<1>3. job[q] \in Job /\ txn[q] \in Txn
  BY <1>1 DEF TypeOK
<1>4. /\ \A s \in Sess : txn[q].rows[s] # None => txn[r].rows[s] = None
      /\ \A p \in Pair : txn[q].hist[p] # None => txn[r].hist[p] = None
      /\ job[q].new # None => job[q].new # job[r].new
  BY <1>1 DEF Apart
<1>5. Memory(q)'
  <2>1. job[q].new # None => /\ job[q].sess \in Sess
                             /\ issued'[job[q].new] = None
                             /\ job[q].op \in {"login", "refresh"}
    BY <1>1, <1>3, <1>4 DEF Local, Memory, Published, Job
  <2>2. ASSUME NEW s \in Sess, job[q].seen[s] # None
        PROVE  /\ row'[s] # None
               /\ job[q].seen[s].user = row'[s].user
               /\ job[q].seen[s].rexp = row'[s].rexp
               /\ issued'[job[q].seen[s].pair] = s
    <3>1. job[q].seen[s].pair \in Pair /\ s # None
      BY <1>3, <2>2, NoneAssumption DEF Job, Row
    <3>. QED BY <1>1, <2>2, <3>1 DEF Local, Memory, Published
  <2>. QED BY <1>2, <2>1, <2>2 DEF Memory
<1>6. Place(q)'
  <2>1. job[q].op = "login" /\ job[q].pc \in {"list", "update", "archive", "commit"} =>
          row'[job[q].sess] = None
    BY <1>1, <1>4 DEF Local, Place, Published
  <2>2. job[q].pc = "rotate" =>
          hist'[job[q].tok] # None \/ txn[q].hist[job[q].tok] = Rotated(job[q].sess)
    BY <1>1 DEF Local, Place, Published
  <2>. QED BY <1>1, <1>2, <2>1, <2>2 DEF Local, Place
<1>7. Pending(q)'
  <2>1. ASSUME NEW s \in Sess, txn'[q].rows[s] # None PROVE PendingRow(q, s)'
    <3>1. PendingRow(q, s) /\ row'[s] = row[s]
      BY <1>1, <1>2, <1>4, <2>1 DEF Local, Pending, Published
    <3>. QED BY <1>2, <3>1 DEF PendingRow
  <2>2. ASSUME NEW p \in Pair, txn'[q].hist[p] # None PROVE PendingEntry(q, p)'
    <3>. DEFINE e == txn[q].hist[p]
    <3>1. PendingEntry(q, p) /\ txn[r].hist[p] = None /\ e \in Entry
      BY <1>1, <1>2, <1>3, <1>4, <2>2 DEF Local, Pending, Txn
    <3>2. e.sess \in Sess /\ e.sess # None
      BY <3>1, NoneAssumption DEF Entry
    <3>3. hist'[p] = None /\ issued'[p] = e.sess
      BY <1>1, <3>1, <3>2 DEF PendingEntry, Published
    <3>4. row[e.sess] # None /\ row[e.sess].pair = p
      BY <1>1, <3>1, <3>2 DEF PendingEntry, Stored
    <3>5. row'[e.sess].pair = p
      <4>1. Rotated(e.sess) \in Entry
        BY <3>2 DEF Rotated, Entry
      <4>. QED BY <1>1, <3>1, <3>2, <3>4, <4>1, NoneAssumption DEF Published
    <3>. QED BY <1>2, <3>1, <3>3, <3>5 DEF PendingEntry
  <2>. QED BY <2>1, <2>2 DEF Pending
<1>8. Superseding(q)'
  BY <1>1, <1>2, <1>3 DEF Local, Superseding, Published, Job
<1>. QED BY <1>5, <1>6, <1>7, <1>8 DEF Local

LEMMA CommitInv == ASSUME IInv, TypeOK', NEW r \in Req, Commit(r) PROVE IInv'
<1>1. job'[r] = Blank /\ txn'[r] = Clean /\ TypeOK /\ Apart
  BY DEF IInv, Commit, End, TypeOK
<1>2. \A q \in Req \ {r} : job'[q] = job[q] /\ txn'[q] = txn[q]
  BY <1>1 DEF Commit, End, TypeOK
<1>3. Local(r)'
  BY <1>1 DEF Local, Memory, Place, Pending, Superseding, Clean, Blank
<1>4. Apart'
  <2>1. /\ job'[r].new = None
        /\ \A s \in Sess : txn'[r].rows[s] = None
        /\ \A p \in Pair : txn'[r].hist[p] = None
    BY <1>1 DEF Blank, Clean
  <2>. QED BY <1>1, <1>2, <2>1 DEF Apart
<1>5. \A q \in Req : Local(q)'
  BY <1>3, CommitLocal
<1>. QED BY <1>4, <1>5, CommitStored DEF IInv

-------------------------------------------------------------------------------
\* The theorems.

\* Every step keeps the inductive invariant.
LEMMA InvStep == ASSUME IInv, [Next]_vars PROVE IInv'
<1>0. TypeOK'
  BY TypeStep
<1>1. ASSUME NEW r \in Req, Begin(r) PROVE IInv'
  BY <1>0, <1>1, BeginLoginInv, BeginReadersInv DEF Begin
<1>2. ASSUME NEW r \in Req, Step(r) PROVE IInv'
  <2>1. CASE Abort(r) \/ AbortWithAlarm(r)
    BY <1>0, <2>1, EndStep DEF Abort, AbortWithAlarm, db
  <2>. QED BY <1>0, <1>2, <2>1, ListOthersInv, RevokeInv, ArchiveInv, LookupRetiredInv,
              CheckUserInv, RetirePresentedInv, RotateInv, TouchInv, ServeInv, CommitInv
           DEF Step
<1>3. ASSUME NEW r \in Req, Cancel(r) PROVE IInv'
  BY <1>0, <1>3, EndStep DEF Cancel, db
<1>4. CASE UNCHANGED <<row, hist, issued, job, txn>>
  <2>1. Stored'
    BY <1>4 DEF IInv, Stored
  <2>2. Apart'
    BY <1>4 DEF IInv, Apart
  <2>3. ASSUME NEW r \in Req PROVE Local(r)'
    <3>1. Local(r)
      BY DEF IInv
    <3>2. Memory(r)'
      BY <1>4, <3>1 DEF Local, Memory
    <3>3. Place(r)'
      BY <1>4, <3>1 DEF Local, Place
    <3>4. Pending(r)'
      BY <1>4, <3>1 DEF Local, Pending, PendingRow, PendingEntry
    <3>5. Superseding(r)'
      BY <1>4, <3>1 DEF Local, Superseding
    <3>. QED BY <3>2, <3>3, <3>4, <3>5 DEF Local
  <2>. QED BY <1>0, <2>1, <2>2, <2>3 DEF IInv
<1>5. Tick \/ (\E u \in User : ChangeStatus(u)) \/ UNCHANGED vars =>
        UNCHANGED <<row, hist, issued, job, txn>>
  BY DEF Tick, ChangeStatus, vars, db
<1>. QED BY <1>1, <1>2, <1>3, <1>4, <1>5 DEF Next

\* The invariant the other theorems rest on: tables, memories and locks agree in
\* every reachable state.
THEOREM Invariant == Spec => []IInv
<1>1. Init => IInv
  BY InitInv
<1>2. IInv /\ [Next]_vars => IInv'
  BY InvStep
<1>. QED BY <1>1, <1>2, PTL DEF Spec

\* Every variable keeps its type.
THEOREM TypeCorrect == Spec => []TypeOK
<1>1. IInv => TypeOK
  BY DEF IInv
<1>. QED BY <1>1, Invariant, PTL

\* A refresh token that was handed out is the current one of its session or in the
\* history as rotated, so its replay is always recognised (SessionService.refresh).
THEOREM HandedOutTracked == Spec => []HandedOutIsTracked
<1>1. ASSUME IInv PROVE HandedOutIsTracked
  <2>1. ASSUME NEW p \in Pair, issued[p] # None
        PROVE  (row[issued[p]].pair = p) # (hist[p] = Rotated(issued[p]))
    <3>1. issued[p] \in Sess /\ Stored
      BY <1>1, <2>1 DEF IInv, TypeOK
    <3>2. Rotated(issued[p]) \in Entry /\ Rotated(issued[p]).why = "ROTATED"
      BY <3>1 DEF Rotated, Entry
    <3>3. hist[p] = Rotated(issued[p]) => row[issued[p]].pair # p
      BY <3>1, <3>2, NoneAssumption DEF Stored
    <3>4. row[issued[p]].pair = p \/ hist[p] = Rotated(issued[p])
      BY <2>1, <3>1 DEF Stored
    <3>. QED BY <3>3, <3>4
  <2>. QED BY <2>1 DEF HandedOutIsTracked, Rotated
<1>. QED BY <1>1, Invariant, PTL

\* When a login answers, every session that was valid when it began is revoked
\* (SessionService.create).
THEOREM LoginSupersedesPrior == Spec => []LoginSupersedes
<1>1. ASSUME IInv PROVE LoginSupersedes
  <2>1. ASSUME NEW r \in Req, job[r].op = "login", job[r].pc = "commit",
               NEW s \in job[r].prior
        PROVE  Revoked(IF txn[r].rows[s] # None THEN txn[r].rows[s] ELSE row[s])
    <3>1. Local(r) /\ s \in Sess
      BY <1>1, <2>1 DEF IInv, TypeOK, Job
    <3>2. /\ row[s] # None
          /\ Revoked(row[s]) \/ (txn[r].rows[s] # None /\ Revoked(txn[r].rows[s]))
      BY <2>1, <3>1 DEF Local, Superseding
    <3>3. txn[r].rows[s] # None /\ Revoked(row[s]) => Revoked(txn[r].rows[s])
      BY <3>1, <3>2 DEF Local, Pending, PendingRow
    <3>. QED BY <3>2, <3>3
  <2>. QED BY <2>1 DEF LoginSupersedes, At
<1>. QED BY <1>1, Invariant, PTL

\* No access token outlives its session, and rotation never moves the end of one
\* (rotated_access_expiry).
THEOREM LifeFixed == Spec => []LifeIsFixed
<1>1. ASSUME IInv PROVE LifeIsFixed
  BY <1>1 DEF IInv, Stored, Local, Pending, PendingRow, LifeIsFixed
<1>. QED BY <1>1, Invariant, PTL

\* Only a commit moves the tables.
LEMMA OnlyCommitPublishes ==
    ASSUME IInv, [Next]_vars
    PROVE  \/ UNCHANGED <<row, hist, issued>>
           \/ \E r \in Req : Commit(r) /\ Published(r)
<1>0. TypeOK'
  BY TypeStep
<1>1. ASSUME NEW r \in Req, Commit(r) PROVE Published(r)
  BY <1>0, <1>1, CommitPublishes
<1>2. ASSUME NEW r \in Req, Begin(r) \/ Cancel(r) PROVE UNCHANGED <<row, hist, issued>>
  BY <1>2 DEF Begin, BeginLogin, BeginLogout, BeginRefresh, BeginAuth, BeginRevoke,
              BeginRevokeAll, Cancel, db
<1>3. ASSUME NEW r \in Req, Step(r), ~Commit(r) PROVE UNCHANGED <<row, hist, issued>>
  BY <1>3 DEF Step, ListOthers, Revoke, Archive, LookupRetired, CheckUser, RetirePresented,
              Rotate, Touch, Serve, Abort, AbortWithAlarm, db
<1>. QED BY <1>1, <1>2, <1>3 DEF Next, Tick, ChangeStatus, vars, db

\* Whatever the requests in flight had read, a committed revocation stays: the
\* session is never valid again, never rotated, never extended.
THEOREM RevocationIsFinal == Spec => RevokedIsFinal
<1>1. ASSUME IInv, [Next]_vars, NEW s \in Sess, row[s] # None, Revoked(row[s])
      PROVE  /\ row'[s] # None
             /\ Revoked(row'[s])
             /\ row'[s].pair = row[s].pair
             /\ row'[s].exp = row[s].exp
  <2>1. CASE UNCHANGED row
    BY <1>1, <2>1
  <2>2. CASE \E r \in Req : Published(r)
    BY <1>1, <2>2 DEF Published
  <2>. QED BY <1>1, <2>1, <2>2, OnlyCommitPublishes
<1>2. IInv /\ [Next]_vars => [\A s \in Sess : row[s] # None /\ Revoked(row[s]) =>
                                /\ row'[s] # None
                                /\ Revoked(row'[s])
                                /\ row'[s].pair = row[s].pair
                                /\ row'[s].exp = row[s].exp]_vars
  BY <1>1
<1>. QED BY <1>2, Invariant, PTL DEF Spec, RevokedIsFinal

\* A rotation replaces the pair its own request presented with the pair that
\* request was given: of two refreshes with one token at most one wins.
THEOREM RotationByHolder == Spec => RotatedByHolder
<1>1. ASSUME IInv, [Next]_vars,
             NEW s \in Sess, row[s] # None, row'[s] # None, row'[s].pair # row[s].pair
      PROVE  \E r \in Req : /\ job[r].op = "refresh"
                            /\ job[r].tok = row[s].pair
                            /\ job[r].new = row'[s].pair
                            /\ issued'[job[r].new] = s
  BY <1>1, OnlyCommitPublishes DEF Published
<1>2. IInv /\ [Next]_vars =>
        [\A s \in Sess : row[s] # None /\ row'[s] # None /\ row'[s].pair # row[s].pair =>
           \E r \in Req : /\ job[r].op = "refresh"
                          /\ job[r].tok = row[s].pair
                          /\ job[r].new = row'[s].pair
                          /\ issued'[job[r].new] = s]_vars
  BY <1>1
<1>. QED BY <1>2, Invariant, PTL DEF Spec, RotatedByHolder

\* The first archived reason of a token is the one that stays.
THEOREM HistoryAppendOnly == Spec => HistoryIsAppendOnly
<1>1. IInv /\ [Next]_vars => [\A p \in Pair : hist[p] # None => hist'[p] = hist[p]]_vars
  BY OnlyCommitPublishes DEF Published
<1>. QED BY <1>1, Invariant, PTL DEF Spec, HistoryIsAppendOnly

-------------------------------------------------------------------------------
\* The component implements SessionLife.

\* A commit is a step of the abstract specification.
LEMMA CommitImplements ==
    ASSUME IInv, IInv', NEW r \in Req, Published(r)
    PROVE  Life!Next
<1>. DEFINE Phase(x) == IF x = None THEN "absent" ELSE IF Revoked(x) THEN "revoked" ELSE "live"
            Holder(x) == IF x = None THEN None ELSE x.pair
            Spent == {p \in Pair : issued[p] # None /\ row[issued[p]].pair # p}
            n == job[r].new
<1>1. Stored /\ TypeOK /\ Published(r) /\ Stored' /\ TypeOK'
  BY DEF IInv
<1>2. n \in Pair => n \notin Spent \union {Holder(row[s]) : s \in Sess}
  <2>. SUFFICES ASSUME n \in Pair, NEW s \in Sess, row[s] # None, row[s].pair = n PROVE FALSE
    BY <1>1, NoneAssumption DEF Published
  <2>. QED BY <1>1, NoneAssumption DEF Stored, Published
<1>3. ASSUME NEW s \in Sess
      PROVE  \/ /\ row[s] = None /\ row'[s] # None /\ row'[s].pair = n /\ n \in Pair
             \/ /\ Phase(row'[s]) = Phase(row[s]) /\ Holder(row'[s]) = Holder(row[s])
             \/ /\ row[s] # None /\ row'[s] # None /\ ~Revoked(row[s]) /\ ~Revoked(row'[s])
                /\ row'[s].pair = n /\ n \in Pair
             \/ /\ row[s] # None /\ row'[s] # None /\ Revoked(row'[s])
                /\ row'[s].pair = row[s].pair
  BY <1>1 DEF Published
<1>4. ASSUME NEW s \in Sess
      PROVE  \/ Phase(row[s]) = "absent" /\ Phase(row'[s]) \in {"live", "revoked"}
                /\ Holder(row'[s]) \in Pair \ (Spent \union {Holder(row[t]) : t \in Sess})
             \/ Phase(row'[s]) = Phase(row[s]) /\ Holder(row'[s]) = Holder(row[s])
             \/ Phase(row[s]) = "live" /\ Phase(row'[s]) = "live"
                /\ Holder(row'[s]) \in Pair \ (Spent \union {Holder(row[t]) : t \in Sess})
             \/ Phase(row[s]) # "absent" /\ Phase(row'[s]) = "revoked"
                /\ Holder(row'[s]) = Holder(row[s])
  <2>. HIDE DEF Spent, n
  <2>. QED BY <1>2, <1>3
<1>5. Spent' = Spent \union {Holder(row[s]) : s \in {t \in Sess :
                 /\ Phase(row[t]) = "live" /\ Holder(row'[t]) # Holder(row[t])}}
  <2>1. ASSUME NEW p \in Spent PROVE p \in Spent'
    <3>1. issued'[p] = issued[p] /\ issued[p] \in Sess /\ issued[p] # None /\ p # n
      BY <1>1 DEF Published, TypeOK
    <3>2. row[issued[p]] # None /\ row'[issued[p]].pair # p
      BY <1>1, <3>1 DEF Published, Stored
    <3>. QED BY <3>1, <3>2
  <2>2. ASSUME NEW s \in Sess, Phase(row[s]) = "live", Holder(row'[s]) # Holder(row[s])
        PROVE  Holder(row[s]) \in Spent'
    <3>1. row[s] # None /\ row'[s] # None /\ row'[s].pair # row[s].pair
      BY <1>1, <2>2 DEF Published
    <3>2. row[s].pair \in Pair /\ issued[row[s].pair] = s /\ s # None
      BY <1>1, <3>1, NoneAssumption DEF Stored, TypeOK, Row
    <3>3. issued'[row[s].pair] = s
      BY <1>1, <3>2 DEF Published
    <3>. QED BY <3>1, <3>2, <3>3
  <2>3. ASSUME NEW p \in Spent', p \notin Spent
        PROVE  \E s \in Sess : /\ Phase(row[s]) = "live" /\ Holder(row'[s]) # Holder(row[s])
                               /\ p = Holder(row[s])
    <3>1. p \in Pair /\ issued'[p] # None /\ row'[issued'[p]].pair # p
      OBVIOUS
    <3>2. p # n /\ issued[p] = issued'[p]
      BY <1>1, <3>1 DEF Published
    <3>3. issued[p] \in Sess /\ row[issued[p]] # None /\ row[issued[p]].pair = p
      BY <1>1, <2>3, <3>1, <3>2 DEF TypeOK, Stored
    <3>4. row'[issued[p]] # None /\ ~Revoked(row[issued[p]])
      BY <1>1, <3>1, <3>2, <3>3 DEF Published
    <3>. QED BY <3>1, <3>2, <3>3, <3>4
  <2>. QED BY <2>1, <2>2, <2>3
<1>6. ASSUME NEW s \in Sess
      PROVE  Life!Opens(s) \/ Life!Keeps(s) \/ Life!Rotates(s) \/ Life!Revokes(s)
  BY <1>4 DEF Life!Opens, Life!Keeps, Life!Rotates, Life!Revokes, Life!Used
<1>. QED BY <1>5, <1>6 DEF Life!Next

\* What SessionLife promises of a session, the requests together keep.
THEOREM ImplementsLife == Spec => LifeSpec
<1>1. Init => Life!Init
  BY DEF Init, Life!Init
<1>2. ASSUME IInv, IInv', [Next]_vars PROVE [Life!Next]_(Life!vars)
  <2>1. CASE UNCHANGED <<row, hist, issued>>
    BY <2>1 DEF Life!vars
  <2>2. CASE \E r \in Req : Published(r)
    BY <1>2, <2>2, CommitImplements
  <2>. QED BY <1>2, <2>1, <2>2, OnlyCommitPublishes
<1>. QED BY <1>1, <1>2, Invariant, PTL DEF Spec, LifeSpec, Life!Spec
===============================================================================
