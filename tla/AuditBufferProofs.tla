-------------------------- MODULE AuditBufferProofs --------------------------
(***************************************************************************)
(* No record is written twice, answered requests have none left in memory, *)
(* the breaker is open for a reason and losses are counted: for any number *)
(* of requests and records, every threshold and every time limit.          *)
(*                                                                         *)
(* A record that has been made is in one place: its maker's buffer, the    *)
(* fallback buffer, one batch, the tables, or nowhere and counted.         *)
(***************************************************************************)
EXTENDS AuditBuffer, FiniteSetTheorems, TLAPS

-------------------------------------------------------------------------------
\* Where an actor's records may be, at every place of its task.
Home(a) ==
    /\ job[a].buf \subseteq Made(a)
    /\ a = Main => job[a].buf = {}
    /\ job[a].pc \notin {"idle", "run"} => job[a].buf = {}
    /\ job[a].batch \subseteq Made(a) \union Made(Main)
    /\ ~Waiting(a) => job[a].batch = {}
    /\ job[a].sent => job[a].pc = "ended"
    /\ job[a].pc \in {"idle", "run"} => job[a].made < MaxLogs

\* What is in a batch that is being written is not in the tables, until it is.
Written(a) ==
    /\ \A x \in job[a].buf : stored[x] = 0
    /\ job[a].pc \in {"append", "commit"} => \A x \in job[a].batch : stored[x] = 0
    /\ job[a].pc = "acked" => \A x \in job[a].batch : stored[x] = 1

\* Nothing is in the tables that has not been made.
NotYet(a) == \A i \in 1..MaxLogs : i > job[a].made => stored[<<a, i>>] = 0

\* The fallback buffer holds records of Main that are nowhere else.
Fallback == /\ pending \subseteq Made(Main)
            /\ \A x \in pending : stored[x] = 0
            /\ \A a \in Actor : pending \intersect job[a].batch = {}

\* No record is in two batches.
Apart == \A a, b \in Actor : a # b => job[a].batch \intersect job[b].batch = {}

\* What is in memory can be counted.
Countable == /\ IsFiniteSet(pending)
             /\ \A a \in Actor : IsFiniteSet(job[a].buf) /\ IsFiniteSet(job[a].batch)

IInv == /\ TypeOK
        /\ \A a \in Actor : Home(a) /\ Written(a) /\ NotYet(a)
        /\ Fallback
        /\ Apart
        /\ Countable
        /\ StoredOnce

-------------------------------------------------------------------------------
\* Records tell their makers apart.
LEMMA MadeBy == ASSUME NEW a \in Actor, NEW x \in Made(a)
                PROVE  x[1] = a /\ x[2] \in 1..job[a].made /\ x = <<a, x[2]>>
BY DEF Made

LEMMA MadeIsRecord == ASSUME TypeOK, NEW a \in Actor
                      PROVE  Made(a) \subseteq Record
BY BufferAssumption DEF TypeOK, Job, Made, Record

LEMMA InitIInv == Init => IInv
<1>. SUFFICES ASSUME Init PROVE IInv
  OBVIOUS
<1>1. \A a \in Actor : /\ job[a].buf = {} /\ job[a].batch = {} /\ job[a].made = 0
                       /\ job[a].left = 0 /\ job[a].sent = FALSE
                       /\ job[a].pc \in {"idle", "run"}
  BY DEF Init
<1>2. \A a \in Actor : Made(a) = {}
  BY <1>1 DEF Made
<1>3. TypeOK
  BY BufferAssumption DEF Init, TypeOK, Job, PC
<1>4. \A x \in Record : stored[x] = 0
  BY DEF Init
<1>5. \A a \in Actor : Home(a) /\ Written(a)
  BY <1>1, BufferAssumption DEF Home, Written, Waiting
<1>6. \A a \in Actor : NotYet(a)
  BY <1>4 DEF NotYet, Record
<1>7. Fallback /\ Apart /\ StoredOnce
  BY <1>1, <1>4 DEF Init, Fallback, Apart, StoredOnce
<1>8. Countable
  BY <1>1, FS_EmptySet DEF Init, Countable
<1>. QED BY <1>3, <1>5, <1>6, <1>7, <1>8 DEF IInv

-------------------------------------------------------------------------------
\* The other actors' tasks are left alone.
Only(a) == \A b \in Actor \ {a} : job'[b] = job[b]

\* An attempt ends (Success, DbError, Expire and Cancel), and with it the batch.
LEMMA LeavesStep ==
    ASSUME IInv, NEW a \in Actor, Waiting(a), NEW l \in {"send", "ended"}, Leaves(a, l),
           UNCHANGED stored \/ (At(a, "commit") /\ stored' = Rows(job[a].batch)),
           UNCHANGED pending, failures' \in Nat, openFor' \in 0..Cooldown, dropped' \in Nat
    PROVE  IInv'
<1>. DEFINE j == job'[a]
<1>1. TypeOK /\ job[a] \in Job
  BY DEF IInv, TypeOK
<1>2. /\ Only(a) /\ DOMAIN job' = Actor
      /\ j.pc = l /\ j.batch = {} /\ j.left = 0
      /\ j.buf = job[a].buf /\ j.made = job[a].made /\ j.sent = job[a].sent
  BY <1>1 DEF Leaves, Only, TypeOK, Job
<1>3. job' \in [Actor -> Job]
  <2>1. [job[a] EXCEPT !.pc = l, !.batch = {}, !.left = 0] \in Job
    <3>1. 0 \in 0..Timeout /\ {} \in SUBSET Record /\ l \in PC
      BY BufferAssumption DEF PC
    <3>. HIDE DEF Record, PC
    <3>. QED BY <1>1, <3>1 DEF Job
  <2>. QED BY <1>1, <2>1 DEF Leaves, TypeOK
<1>. HIDE DEF j
<1>4. \A b \in Actor : Made(b)' = Made(b)
  BY <1>2 DEF Made, Only, j
<1>5. \A x \in Record : stored'[x] = stored[x] \/ (x \in job[a].batch /\ At(a, "commit")
                                                  /\ stored'[x] = stored[x] + 1)
  BY <1>1 DEF Rows, TypeOK
<1>6. TypeOK'
  <2>1. stored' \in [Record -> Nat]
    BY <1>1 DEF Rows, TypeOK
  <2>. QED BY <1>1, <1>3, <2>1 DEF TypeOK
<1>7. job[a].batch \subseteq Record /\ (At(a, "commit") => \A x \in job[a].batch : stored[x] = 0)
  BY <1>1 DEF IInv, Written, Job, At
<1>8. StoredOnce'
  BY <1>5, <1>7, <1>1 DEF IInv, StoredOnce, TypeOK
<1>9. job[a].pc \notin {"idle", "run"} /\ job[a].sent = FALSE
  BY <1>1 DEF IInv, Home, Waiting, Job
<1>10. ASSUME NEW b \in Actor
       PROVE  Home(b)' /\ Written(b)' /\ NotYet(b)'
  <2>0. job[b] \in Job /\ Home(b) /\ Written(b) /\ NotYet(b) /\ Made(b) \subseteq Record
    BY <1>1, MadeIsRecord DEF IInv, TypeOK
  <2>1. Main \in Actor
    BY DEF Actor
  <2>2. Home(b)'
    <3>1. CASE b = a
      BY <3>1, <1>2, <1>4, <1>9, <2>0, <2>1 DEF Home, Waiting, j
    <3>2. CASE b # a
      BY <3>2, <1>2, <1>4, <2>0, <2>1 DEF Home, Waiting, Only
    <3>. QED BY <3>1, <3>2
  <2>3. Written(b)'
    <3>1. CASE b = a
      BY <3>1, <1>2, <1>9, <2>0 DEF Home, Written, j
    <3>2. CASE b # a
      <4>1. job[b].batch \intersect job[a].batch = {}
        BY <3>2 DEF IInv, Apart
      <4>2. \A x \in job[b].batch : stored'[x] = stored[x]
        BY <4>1, <1>5, <2>0 DEF Job
      <4>3. \A x \in job[b].buf : x \notin job[a].batch
        <5>1. job[b].buf # {} => b # Main
          BY <2>0 DEF Home
        <5>2. job[b].buf \subseteq Made(b) /\ job[a].batch \subseteq Made(a) \union Made(Main)
          BY <2>0 DEF Home, IInv
        <5>. QED BY <3>2, <5>1, <5>2, <2>1, MadeBy
      <4>4. \A x \in job[b].buf : stored'[x] = stored[x]
        BY <4>3, <1>5, <2>0 DEF Job
      <4>. QED BY <3>2, <4>2, <4>4, <1>2, <2>0 DEF Written, Only
    <3>. QED BY <3>1, <3>2
  <2>4. NotYet(b)'
    <3>1. job'[b].made = job[b].made
      BY <1>2 DEF Only, j
    <3>. SUFFICES ASSUME NEW i \in 1..MaxLogs, i > job[b].made PROVE stored'[<<b, i>>] = 0
      BY <3>1 DEF NotYet
    <3>2. stored[<<b, i>>] = 0 /\ <<b, i>> \in Record
      BY <2>0 DEF NotYet, Record
    <3>3. <<b, i>> \notin job[a].batch
      <4>1. job[a].batch \subseteq Made(a) \union Made(Main)
        BY DEF IInv, Home
      <4>2. <<b, i>> \notin Made(b)
        BY <2>0 DEF Made, Job
      <4>3. <<b, i>> \in Made(Main) => b = Main
        BY <2>1 DEF Made
      <4>4. <<b, i>> \in Made(a) => b = a
        BY DEF Made
      <4>. QED BY <4>1, <4>2, <4>3, <4>4
    <3>. QED BY <3>2, <3>3, <1>5
  <2>. QED BY <2>2, <2>3, <2>4
<1>11. Fallback'
  <2>1. Main \in Actor
    BY DEF Actor
  <2>2. \A x \in pending : stored'[x] = 0
    BY <1>1, <1>5 DEF IInv, Fallback, TypeOK
  <2>3. \A b \in Actor : job'[b].batch \subseteq job[b].batch
    BY <1>2 DEF Only, j
  <2>. QED BY <1>4, <2>1, <2>2, <2>3 DEF IInv, Fallback
<1>12. Apart'
  <2>1. \A b \in Actor : job'[b].batch \subseteq job[b].batch
    BY <1>2 DEF Only, j
  <2>. QED BY <2>1 DEF IInv, Apart
<1>13. Countable'
  BY <1>2, FS_EmptySet DEF IInv, Countable, Only, j
<1>. QED BY <1>6, <1>8, <1>10, <1>11, <1>12, <1>13 DEF IInv

-------------------------------------------------------------------------------
\* What an actor's step leaves alone, when it makes no record disappear and
\* writes none: the other actors' part of the invariant.
LEMMA OthersHome ==
    ASSUME IInv, NEW a \in Actor, Only(a), UNCHANGED stored,
           Made(a) \subseteq Made(a)'
    PROVE  \A b \in Actor \ {a} : Home(b)' /\ Written(b)' /\ NotYet(b)'
<1>. SUFFICES ASSUME NEW b \in Actor \ {a} PROVE Home(b)' /\ Written(b)' /\ NotYet(b)'
  OBVIOUS
<1>1. Home(b) /\ Written(b) /\ NotYet(b) /\ job'[b] = job[b] /\ Main \in Actor
  BY DEF IInv, Only, Actor
<1>2. Made(b)' = Made(b) /\ Made(Main) \subseteq Made(Main)'
  <2>1. CASE a = Main
    BY <2>1, <1>1 DEF Made
  <2>2. CASE a # Main
    BY <2>2, <1>1 DEF Made, Only
  <2>. QED BY <2>1, <2>2
<1>3. Home(b)'
  BY <1>1, <1>2 DEF Home, Waiting
<1>4. Written(b)'
  BY <1>1 DEF Written
<1>. QED BY <1>1, <1>3, <1>4 DEF NotYet

\* Arrive, Append and Send only move on.
LEMMA MoveStep ==
    ASSUME IInv, NEW a \in Actor, UNCHANGED <<pending, breaker, dropped, stored>>,
           \/ a \in Req /\ Arrive(a)
           \/ Append(a)
           \/ Send(a)
    PROVE  IInv'
<1>1. TypeOK /\ job[a] \in Job /\ Home(a) /\ Written(a) /\ NotYet(a)
  BY DEF IInv, TypeOK
<1>2. /\ Only(a) /\ job' \in [Actor -> Job]
      /\ job'[a].buf = job[a].buf /\ job'[a].made = job[a].made
      /\ job'[a].batch = job[a].batch
  BY <1>1 DEF Only, Arrive, Append, Send, TypeOK, Job, PC
<1>3. \A b \in Actor : Made(b)' = Made(b) /\ job'[b].batch = job[b].batch
                         /\ job'[b].buf = job[b].buf
  BY <1>2 DEF Made, Only
<1>4. TypeOK'
  BY <1>1, <1>2 DEF TypeOK, breaker
<1>5. Home(a)' /\ Written(a)' /\ NotYet(a)'
  <2>0. Main \in Actor
    BY DEF Actor
  <2>1. CASE a \in Req /\ Arrive(a)
    BY <2>1, <1>1, <1>2, <1>3, <2>0 DEF Arrive, At, Home, Written, NotYet, Waiting, TypeOK, Job
  <2>2. CASE Append(a)
    BY <2>2, <1>1, <1>2, <1>3, <2>0 DEF Append, At, Home, Written, NotYet, Waiting, TypeOK, Job
  <2>3. CASE Send(a)
    BY <2>3, <1>1, <1>2, <1>3, <2>0
       DEF Send, Flushed, At, Home, Written, NotYet, Waiting, TypeOK, Job
  <2>. QED BY <2>1, <2>2, <2>3
<1>6. Fallback' /\ Apart' /\ Countable' /\ StoredOnce'
  <2>1. Main \in Actor
    BY DEF Actor
  <2>. QED BY <1>3, <2>1 DEF IInv, Fallback, Apart, Countable, StoredOnce
<1>. QED BY <1>3, <1>2, <1>4, <1>5, <1>6, OthersHome DEF IInv

\* The database commits a batch none of which was in the tables.
LEMMA DbCommitStep ==
    ASSUME IInv, NEW a \in Actor, DbCommit(a)
    PROVE  IInv'
<1>1. TypeOK /\ job[a] \in Job /\ Home(a) /\ Written(a) /\ NotYet(a) /\ Main \in Actor
  BY DEF IInv, TypeOK, Actor
<1>2. /\ Only(a) /\ job' \in [Actor -> Job] /\ job[a].pc = "commit" /\ job'[a].pc = "acked"
      /\ job'[a].buf = job[a].buf /\ job'[a].made = job[a].made
      /\ job'[a].batch = job[a].batch /\ job'[a].sent = job[a].sent
  BY <1>1 DEF Only, DbCommit, At, TypeOK, Job, PC
<1>3. \A b \in Actor : Made(b)' = Made(b) /\ job'[b].batch = job[b].batch
                         /\ job'[b].buf = job[b].buf /\ job'[b].made = job[b].made
  BY <1>2 DEF Made, Only
<1>4. \A x \in Record : stored'[x] = IF x \in job[a].batch THEN stored[x] + 1 ELSE stored[x]
  BY <1>1 DEF DbCommit, Rows, TypeOK
<1>5. job[a].batch \subseteq Record /\ \A x \in job[a].batch : stored[x] = 0
  BY <1>1, <1>2 DEF Written, Job
<1>6. TypeOK'
  <2>1. stored' \in [Record -> Nat]
    BY <1>1 DEF DbCommit, Rows, TypeOK
  <2>. QED BY <1>1, <1>2, <2>1 DEF TypeOK, DbCommit, breaker
<1>7. StoredOnce'
  BY <1>1, <1>4, <1>5 DEF IInv, StoredOnce, TypeOK
<1>8. ASSUME NEW b \in Actor, NEW x \in Record,
             \/ b # a /\ (x \in job[b].batch \/ x \in job[b].buf)
             \/ x \in pending
             \/ x = <<b, x[2]>> /\ x[2] > job[b].made
      PROVE  x \notin job[a].batch
  <2>0. Home(b) /\ job[b] \in Job /\ job[a].batch \subseteq Made(a) \union Made(Main)
    BY <1>1 DEF IInv, Home, TypeOK
  <2>1. CASE b # a /\ x \in job[b].batch
    BY <2>1 DEF IInv, Apart
  <2>2. CASE b # a /\ x \in job[b].buf
    <3>1. x[1] = b /\ b # Main
      BY <2>0, <2>2, MadeBy DEF Home
    <3>. QED BY <3>1, <2>0, <2>2, <1>1, MadeBy
  <2>3. CASE x \in pending
    BY <2>3 DEF IInv, Fallback
  <2>4. CASE x = <<b, x[2]>> /\ x[2] > job[b].made
    <3>1. x \notin Made(b)
      BY <2>4, <2>0 DEF Made, Job
    <3>2. (x \in Made(Main) => b = Main) /\ (x \in Made(a) => b = a)
      BY <2>4, <1>1, MadeBy
    <3>. QED BY <3>1, <3>2, <2>0
  <2>. QED BY <1>8, <2>1, <2>2, <2>3, <2>4
<1>9. ASSUME NEW b \in Actor
      PROVE  Home(b)' /\ Written(b)' /\ NotYet(b)'
  <2>0. job[b] \in Job /\ Home(b) /\ Written(b) /\ NotYet(b)
    BY <1>1 DEF IInv, TypeOK
  <2>1. Home(b)'
    <3>1. CASE b = a
      BY <3>1, <1>1, <1>2, <1>3 DEF Home, Waiting
    <3>2. CASE b # a
      BY <3>2, <2>0, <1>1, <1>2, <1>3 DEF Home, Waiting, Only
    <3>. QED BY <3>1, <3>2
  <2>2. Written(b)'
    <3>1. CASE b = a
      <4>1. job[a].buf = {}
        BY <1>1, <1>2 DEF Home
      <4>. QED BY <3>1, <4>1, <1>2, <1>4, <1>5 DEF Written
    <3>2. CASE b # a
      <4>1. \A x \in job[b].batch \union job[b].buf : stored'[x] = stored[x]
        BY <3>2, <1>8, <1>4, <2>0 DEF Job
      <4>. QED BY <3>2, <4>1, <2>0, <1>2 DEF Written, Only
    <3>. QED BY <3>1, <3>2
  <2>3. NotYet(b)'
    <3>. SUFFICES ASSUME NEW i \in 1..MaxLogs, i > job[b].made PROVE stored'[<<b, i>>] = 0
      BY <1>3 DEF NotYet
    <3>1. stored[<<b, i>>] = 0 /\ <<b, i>> \in Record
      BY <2>0 DEF NotYet, Record
    <3>2. <<b, i>> \notin job[a].batch
      BY <3>1, <1>8
    <3>. QED BY <3>1, <3>2, <1>4
  <2>. QED BY <2>1, <2>2, <2>3
<1>10. Fallback'
  <2>1. \A x \in pending : stored'[x] = 0
    BY <1>1, <1>4, <1>8 DEF IInv, Fallback, TypeOK
  <2>. QED BY <2>1, <1>1, <1>3 DEF IInv, Fallback, DbCommit
<1>11. Apart' /\ Countable'
  BY <1>3 DEF IInv, Apart, Countable, DbCommit
<1>. QED BY <1>6, <1>7, <1>9, <1>10, <1>11 DEF IInv

-------------------------------------------------------------------------------
\* A new record goes into one buffer, to which the maker alone adds.
LEMMA LogStep ==
    ASSUME IInv, NEW a \in Actor, Log(a)
    PROVE  IInv'
<1>. DEFINE n == job[a].made + 1
            x == <<a, n>>
<1>1. /\ TypeOK /\ job[a] \in Job /\ Home(a) /\ Written(a) /\ NotYet(a) /\ Main \in Actor
      /\ n \in 1..MaxLogs /\ job[a].made < n /\ n < MaxLogs /\ job[a].pc = "run" /\ x \in Record
  <2>1. TypeOK /\ job[a] \in Job /\ Home(a) /\ Written(a) /\ NotYet(a) /\ Main \in Actor
    BY DEF IInv, TypeOK, Actor
  <2>2. n \in 1..MaxLogs /\ job[a].made < n /\ n < MaxLogs
    BY <2>1, BufferAssumption DEF Log, Job
  <2>. QED BY <2>1, <2>2 DEF Log, At, Record
<1>2. /\ Only(a) /\ job'[a].pc = "run" /\ job'[a].made = n
      /\ job'[a].batch = job[a].batch /\ job'[a].sent = job[a].sent /\ job'[a].left = job[a].left
      /\ job'[a].buf = IF a = Main THEN job[a].buf ELSE job[a].buf \union {x}
  <2>1. CASE a = Main
    BY <2>1, <1>1 DEF Log, At, Only, TypeOK, Job
  <2>2. CASE a # Main
    <3>1. job' = [job EXCEPT ![a].made = @ + 1, ![a].buf = @ \union {x}]
      BY <2>2 DEF Log
    <3>. HIDE DEF x
    <3>. QED BY <3>1, <2>2, <1>1 DEF Only, TypeOK, Job
  <2>. QED BY <2>1, <2>2
<1>3. job' \in [Actor -> Job]
  <2>1. CASE a = Main
    <3>1. [job[a] EXCEPT !.made = n] \in Job
      BY <1>1, BufferAssumption DEF Job
    <3>. QED BY <1>1, <2>1, <3>1 DEF Log, TypeOK
  <2>2. CASE a # Main
    <3>1. [job[a] EXCEPT !.made = n, !.buf = @ \union {x}] \in Job
      <4>1. job[a].buf \union {x} \in SUBSET Record /\ n \in 0..MaxLogs
        BY <1>1, BufferAssumption DEF Job
      <4>. HIDE DEF x, n
      <4>. QED BY <1>1, <4>1 DEF Job
    <3>. QED BY <1>1, <2>2, <3>1 DEF Log, TypeOK
  <2>. QED BY <2>1, <2>2
<1>4. pending' = IF a = Main THEN pending \union {x} ELSE pending
  BY DEF Log
<1>5. Made(a) \subseteq Made(a)' /\ Made(a)' = Made(a) \union {x}
  <2>1. 1..n = 1..job[a].made \union {n}
    BY <1>1 DEF Job
  <2>. QED BY <2>1, <1>2 DEF Made
<1>6. TypeOK'
  BY <1>1, <1>3, <1>4 DEF TypeOK, Log, breaker
<1>7. UNCHANGED stored /\ stored[x] = 0 /\ x \notin Made(a)
  BY <1>1 DEF Log, NotYet, Made, Job
<1>. HIDE DEF n, x
<1>8. job[a].batch = {}
  BY <1>1 DEF Home, Waiting
<1>9. Home(a)' /\ Written(a)' /\ NotYet(a)'
  <2>1. Home(a)'
    BY <1>1, <1>2, <1>5, <1>8 DEF Home, Waiting
  <2>2. Written(a)'
    BY <1>1, <1>2, <1>7 DEF Written
  <2>3. NotYet(a)'
    BY <1>1, <1>2, <1>7 DEF NotYet, Job
  <2>. QED BY <2>1, <2>2, <2>3
<1>10. \A b \in Actor \ {a} : Home(b)' /\ Written(b)' /\ NotYet(b)'
  BY <1>2, <1>5, <1>7, OthersHome
<1>11. \A b \in Actor : job'[b].batch = job[b].batch
  BY <1>2 DEF Only
<1>12. Fallback'
  <2>1. Made(Main) \subseteq Made(Main)'
    BY <1>1, <1>2, <1>5 DEF Made, Only
  <2>2. CASE a # Main
    BY <2>2, <2>1, <1>4, <1>7, <1>11 DEF IInv, Fallback
  <2>3. CASE a = Main
    <3>1. \A b \in Actor : x \notin job[b].batch
      <4>1. \A b \in Actor : job[b].batch \subseteq Made(b) \union Made(Main)
        BY DEF IInv, Home
      <4>2. \A b \in Actor : x \in Made(b) => b = a
        BY DEF Made, x
      <4>. QED BY <4>1, <4>2, <1>7, <2>3
    <3>. QED BY <2>3, <3>1, <2>1, <1>4, <1>5, <1>7, <1>11 DEF IInv, Fallback
  <2>. QED BY <2>2, <2>3
<1>13. Apart' /\ StoredOnce'
  BY <1>7, <1>11 DEF IInv, Apart, StoredOnce
<1>14. Countable'
  BY <1>2, <1>4, <1>11, FS_AddElement DEF IInv, Countable, Only
<1>. QED BY <1>6, <1>9, <1>10, <1>12, <1>13, <1>14 DEF IInv

-------------------------------------------------------------------------------
\* What finish drains: the records of the buffers and the access record.
Own(a)     == IF a = Main THEN {} ELSE job[a].buf \union {<<a, job[a].made + 1>>}
Drained(a) == pending \union Own(a)

LEMMA FinishStep ==
    ASSUME IInv, NEW a \in Actor, Finish(a)
    PROVE  /\ IInv'
           /\ IsFiniteSet(Drained(a)) /\ Only(a) /\ UNCHANGED stored
           /\ Made(a)' \subseteq Made(a) \union Own(a)
           /\ job[a].buf \subseteq Drained(a) /\ job[a].batch = {}
           /\ job'[a].pc # "ended"
           /\ \/ dropped' = dropped /\ job'[a].batch = Drained(a)
              \/ dropped' = dropped + Cardinality(Drained(a))
<1>. DEFINE n == IF a = Main THEN job[a].made ELSE job[a].made + 1
            D == Drained(a)
<1>1. TypeOK /\ job[a] \in Job /\ Home(a) /\ Written(a) /\ NotYet(a) /\ Main \in Actor
      /\ job[a].pc = "run"
  BY DEF IInv, TypeOK, Actor, Finish, At
<1>2. n \in 0..MaxLogs /\ n >= job[a].made
      /\ (a # Main => n \in 1..MaxLogs /\ n = job[a].made + 1)
  BY <1>1, BufferAssumption DEF Home, Job
<1>3. D \subseteq Record /\ IsFiniteSet(D)
  <2>1. Own(a) \subseteq Record /\ IsFiniteSet(Own(a))
    <3>1. a # Main => <<a, job[a].made + 1>> \in Record
      BY <1>2 DEF Record
    <3>. QED BY <3>1, <1>1, FS_EmptySet, FS_AddElement DEF Own, Job, IInv, Countable
  <2>. QED BY <2>1, <1>1, FS_Union DEF Drained, IInv, Countable, TypeOK
<1>4. /\ Only(a) /\ job'[a].buf = {} /\ job'[a].made = n /\ job'[a].sent = job[a].sent
      /\ \/ job'[a].pc = "send" /\ job'[a].batch = job[a].batch /\ job'[a].left = job[a].left
            /\ dropped' = dropped + Cardinality(D)
         \/ job'[a].pc = "append" /\ job'[a].batch = D /\ job'[a].left = Timeout
            /\ dropped' = dropped
      /\ pending' = {} /\ UNCHANGED <<breaker, stored>>
      /\ job' \in [Actor -> Job]
  <2>. DEFINE j == [job[a] EXCEPT !.buf = {}, !.made = n]
  <2>1. j \in Job /\ j.buf = {} /\ j.made = n /\ j.sent = job[a].sent
        /\ j.batch = job[a].batch /\ j.left = job[a].left
    <3>. HIDE DEF n
    <3>. QED BY <1>1, <1>2 DEF Job
  <2>2. \/ /\ dropped' = dropped + Cardinality(D)
           /\ job' = [job EXCEPT ![a] = [j EXCEPT !.pc = "send"]]
        \/ /\ job' = [job EXCEPT ![a] = [j EXCEPT !.pc = "append", !.batch = D, !.left = Timeout]]
           /\ UNCHANGED dropped
    BY DEF Finish, Drained, Own
  <2>3. pending' = {} /\ UNCHANGED <<breaker, stored>>
    BY DEF Finish, Cleared
  <2>. HIDE DEF j, D, n
  <2>4. "send" \in PC /\ "append" \in PC /\ Timeout \in 0..Timeout
    BY BufferAssumption DEF PC
  <2>5. /\ [j EXCEPT !.pc = "send"] \in Job
        /\ [j EXCEPT !.pc = "append", !.batch = D, !.left = Timeout] \in Job
    <3>. HIDE DEF PC
    <3>. QED BY <2>1, <2>4, <1>3 DEF Job
  <2>6. job' \in [Actor -> Job] /\ Only(a)
    BY <2>2, <2>5, <1>1 DEF TypeOK, Only
  <2>7. /\ job'[a].buf = {} /\ job'[a].made = n /\ job'[a].sent = job[a].sent
        /\ \/ /\ job'[a].pc = "send" /\ job'[a].batch = job[a].batch
              /\ job'[a].left = job[a].left /\ dropped' = dropped + Cardinality(D)
           \/ /\ job'[a].pc = "append" /\ job'[a].batch = D
              /\ job'[a].left = Timeout /\ dropped' = dropped
    <3>1. CASE dropped' = dropped + Cardinality(D) /\ job' = [job EXCEPT ![a] = [j EXCEPT !.pc = "send"]]
      <4>1. job'[a] = [j EXCEPT !.pc = "send"]
        BY <3>1, <1>1 DEF TypeOK
      <4>. QED BY <3>1, <4>1, <2>1 DEF Job
    <3>2. CASE /\ job' = [job EXCEPT ![a] = [j EXCEPT !.pc = "append", !.batch = D, !.left = Timeout]]
               /\ UNCHANGED dropped
      <4>1. job'[a] = [j EXCEPT !.pc = "append", !.batch = D, !.left = Timeout]
        BY <3>2, <1>1 DEF TypeOK
      <4>2. job'[a].buf = {} /\ job'[a].made = n /\ job'[a].sent = job[a].sent
        BY <4>1, <2>1 DEF Job
      <4>3. job'[a].pc = "append" /\ job'[a].batch = D /\ job'[a].left = Timeout
        BY <4>1, <2>1 DEF Job
      <4>. QED BY <3>2, <4>2, <4>3
    <3>. QED BY <2>2, <3>1, <3>2
  <2>. QED BY <2>3, <2>6, <2>7
<1>5. job[a].batch = {}
  BY <1>1 DEF Home, Waiting
<1>6. /\ job'[a].pc \in {"send", "append"}
      /\ job'[a].pc = "send" => job'[a].batch = {}
      /\ job'[a].batch \subseteq D
  BY <1>4, <1>5
<1>7. Made(a) \subseteq Made(a)' /\ Own(a) \subseteq Made(a)'
  <2>1. 1..job[a].made \subseteq 1..n
    BY <1>1, <1>2 DEF Job
  <2>2. Made(a) \subseteq Made(a)'
    BY <2>1, <1>4 DEF Made
  <2>. HIDE DEF n
  <2>. QED BY <2>2, <1>1, <1>2, <1>4 DEF Own, Home, Made
<1>8. \A x \in D : stored[x] = 0
  BY <1>1, <1>2 DEF Drained, Own, IInv, Fallback, Written, NotYet, Job
<1>9. ASSUME NEW b \in Actor \ {a}
      PROVE  D \intersect job[b].batch = {}
  <2>1. pending \intersect job[b].batch = {}
    BY DEF IInv, Fallback
  <2>2. job[b].batch \subseteq Made(b) \union Made(Main)
    BY DEF IInv, Home
  <2>3. \A x \in Own(a) : x[1] = a /\ a # Main
    BY <1>1, MadeBy DEF Own, Home
  <2>. QED BY <2>1, <2>2, <2>3, <1>1, MadeBy DEF Drained
<1>. HIDE DEF n
<1>10. TypeOK'
  <2>1. dropped' \in Nat
    BY <1>1, <1>3, <1>4, FS_CardinalityType DEF TypeOK
  <2>. QED BY <1>1, <1>4, <2>1 DEF TypeOK, breaker
<1>11. Home(a)' /\ Written(a)' /\ NotYet(a)'
  <2>1. Made(Main) \subseteq Made(Main)'
    <3>1. CASE a = Main
      BY <3>1, <1>7
    <3>2. CASE a # Main
      BY <3>2, <1>1, <1>4 DEF Made, Only
    <3>. QED BY <3>1, <3>2
  <2>2. D \subseteq Made(a)' \union Made(Main)'
    BY <1>7, <2>1 DEF Drained, IInv, Fallback
  <2>3. Home(a)'
    BY <1>1, <1>4, <1>6, <2>2 DEF Home, Waiting
  <2>4. Written(a)'
    BY <1>4, <1>6, <1>8 DEF Written
  <2>5. NotYet(a)'
    BY <1>1, <1>2, <1>4 DEF NotYet, Job
  <2>. QED BY <2>3, <2>4, <2>5
<1>12. \A b \in Actor \ {a} : Home(b)' /\ Written(b)' /\ NotYet(b)'
  BY <1>4, <1>7, OthersHome
<1>13. Fallback' /\ StoredOnce'
  BY <1>4 DEF IInv, Fallback, StoredOnce
<1>14. Apart'
  BY <1>4, <1>6, <1>9 DEF IInv, Apart, Only
<1>15. Countable'
  <2>1. IsFiniteSet(job'[a].batch)
    BY <1>3, <1>6, FS_Subset
  <2>. QED BY <2>1, <1>4, FS_EmptySet DEF IInv, Countable, Only
<1>16. Made(a)' \subseteq Made(a) \union Own(a)
  <2>1. 1..job'[a].made \subseteq 1..job[a].made \union (IF a = Main THEN {} ELSE {job[a].made + 1})
    BY <1>1, <1>4 DEF n, Job
  <2>. QED BY <2>1 DEF Made, Own
<1>17. job[a].buf \subseteq D
  BY <1>1 DEF Drained, Own, Home
<1>. QED BY <1>3, <1>4, <1>5, <1>10, <1>11, <1>12, <1>13, <1>14, <1>15, <1>16, <1>17 DEF IInv

-------------------------------------------------------------------------------
\* Time passes for everybody.
LEMMA TickStep == ASSUME IInv, Tick PROVE IInv'
<1>1. TypeOK
  BY DEF IInv
<1>2. \A t \in Nat : Sooner(t) \in 0..t
  BY DEF Sooner
<1>3. \A a \in Actor :
        /\ job'[a] \in Job /\ job'[a].pc = job[a].pc /\ job'[a].buf = job[a].buf
        /\ job'[a].batch = job[a].batch /\ job'[a].made = job[a].made
        /\ job'[a].sent = job[a].sent
  <2>. SUFFICES ASSUME NEW a \in Actor
                PROVE  /\ job'[a] \in Job /\ job'[a].pc = job[a].pc /\ job'[a].buf = job[a].buf
                       /\ job'[a].batch = job[a].batch /\ job'[a].made = job[a].made
                       /\ job'[a].sent = job[a].sent
    OBVIOUS
  <2>1. job'[a] = [job[a] EXCEPT !.left = Sooner(job[a].left)]
    BY DEF Tick
  <2>2. Sooner(job[a].left) \in 0..Timeout
    BY <1>1, <1>2, BufferAssumption DEF TypeOK, Job
  <2>. QED BY <1>1, <2>1, <2>2 DEF TypeOK, Job
<1>4. job' \in [Actor -> Job]
  <2>1. job' = [a \in Actor |-> job'[a]]
    BY DEF Tick
  <2>. QED BY <1>3, <2>1
<1>5. \A a \in Actor : Made(a)' = Made(a)
  BY <1>3 DEF Made
<1>6. TypeOK'
  BY <1>1, <1>2, <1>4, BufferAssumption DEF TypeOK, Tick
<1>7. \A a \in Actor : Home(a)' /\ Written(a)' /\ NotYet(a)'
  <2>1. Main \in Actor
    BY DEF Actor
  <2>. QED BY <1>3, <1>5, <2>1 DEF IInv, Home, Written, NotYet, Waiting, Tick
<1>8. Fallback' /\ Apart' /\ Countable' /\ StoredOnce'
  <2>1. Main \in Actor
    BY DEF Actor
  <2>. QED BY <1>3, <1>5, <2>1 DEF IInv, Fallback, Apart, Countable, StoredOnce, Tick
<1>. QED BY <1>6, <1>7, <1>8 DEF IInv

LEMMA EndStep ==
    ASSUME IInv, NEW a \in Actor, Success(a) \/ DbError(a) \/ Expire(a) \/ Cancel(a)
    PROVE  IInv'
<1>1. TypeOK /\ IsFiniteSet(job[a].batch)
  BY DEF IInv, Countable
<1>2. Cardinality(job[a].batch) \in Nat
  BY <1>1, FS_CardinalityType
<1>3. failures + 1 \in Nat /\ 0 \in 0..Cooldown /\ Cooldown \in 0..Cooldown
  BY <1>1, BufferAssumption DEF TypeOK
<1>4. CASE Success(a)
  BY <1>4, <1>1, <1>3, LeavesStep DEF Success, At, Waiting, Closed, TypeOK
<1>5. CASE DbError(a)
  BY <1>5, <1>1, <1>2, <1>3, LeavesStep DEF DbError, Fail, InDoubt, Count, Opened, Waiting, TypeOK
<1>6. CASE Expire(a)
  BY <1>6, <1>1, <1>2, <1>3, LeavesStep
     DEF Expire, Expired, Fail, InDoubt, Count, Opened, TypeOK
<1>7. CASE Cancel(a)
  BY <1>7, <1>1, LeavesStep DEF Cancel, InDoubt, TypeOK, breaker
<1>. QED BY <1>4, <1>5, <1>6, <1>7

LEMMA StepIInv == ASSUME IInv, [Next]_vars PROVE IInv'
<1>1. CASE Next
  <2>1. ASSUME NEW r \in Req, Arrive(r) PROVE IInv'
    BY <2>1, MoveStep DEF Arrive, Actor
  <2>2. ASSUME NEW a \in Actor, Append(a) \/ Send(a) PROVE IInv'
    BY <2>2, MoveStep DEF Append, Send
  <2>. QED BY <1>1, <2>1, <2>2, LogStep, FinishStep, DbCommitStep, EndStep, TickStep DEF Next
<1>2. CASE UNCHANGED vars
  <2>1. \A a \in Actor : Made(a)' = Made(a)
    BY <1>2 DEF Made, vars
  <2>2. TypeOK' /\ Fallback' /\ Apart' /\ Countable' /\ StoredOnce'
    BY <1>2, <2>1 DEF vars, IInv, TypeOK, Fallback, Apart, Countable, StoredOnce, Made
  <2>3. \A a \in Actor : Home(a)' /\ Written(a)' /\ NotYet(a)'
    BY <1>2, <2>1 DEF vars, IInv, Home, Written, NotYet, Waiting, Made
  <2>. QED BY <2>2, <2>3 DEF IInv
<1>. QED BY <1>1, <1>2

-------------------------------------------------------------------------------
\* What is in memory or in the tables, and where, in every reachable state.
THEOREM Invariant == Spec => []IInv
BY InitIInv, StepIInv, PTL DEF Spec

\* The variables keep their types: no counter goes below zero and no time limit
\* or cooldown is longer than it was set.
THEOREM TypeCorrect == Spec => []TypeOK
<1>1. IInv => TypeOK
  BY DEF IInv
<1>. QED BY <1>1, Invariant, PTL

\* No record is inserted twice (StoredOnce), whoever drains the fallback buffer
\* and however the attempts to write it end.
THEOREM WrittenAtMostOnce == Spec => []StoredOnce
<1>1. IInv => StoredOnce
  BY DEF IInv
<1>. QED BY <1>1, Invariant, PTL

\* The last part of a response leaves after the flush (SentIsSettled): nothing that
\* the request recorded is in memory by then.
THEOREM AnsweredIsSettled == Spec => []SentIsSettled
<1>1. ASSUME IInv PROVE SentIsSettled
  <2>. SUFFICES ASSUME NEW r \in Req, job[r].sent, NEW x \in Made(r), x \in InMemory PROVE FALSE
    BY DEF SentIsSettled
  <2>1. r \in Actor /\ Main \in Actor /\ r # Main /\ x[1] = r
    BY BufferAssumption, MadeBy DEF Actor
  <2>2. job[r].buf = {} /\ job[r].batch = {}
    BY <1>1, <2>1 DEF IInv, Home, Waiting
  <2>3. x \notin pending
    BY <1>1, <2>1, MadeBy DEF IInv, Fallback
  <2>4. PICK a \in Actor : x \in job[a].buf \union job[a].batch
    BY <2>3 DEF InMemory
  <2>5. job[a].buf \subseteq Made(a) /\ job[a].batch \subseteq Made(a) \union Made(Main)
    BY <1>1 DEF IInv, Home
  <2>6. a = r
    BY <2>1, <2>4, <2>5, MadeBy
  <2>. QED BY <2>2, <2>4, <2>6
<1>. QED BY <1>1, Invariant, PTL

\* The breaker is open only after Threshold failures with no success between them
\* and now (OpenIsEarned).
THEOREM BreakerIsEarned == Spec => []OpenIsEarned
<1>1. Init => OpenIsEarned
  BY DEF Init, OpenIsEarned
<1>2. ASSUME TypeOK, OpenIsEarned, [Next]_vars PROVE OpenIsEarned'
  <2>1. ASSUME NEW a \in Actor, Fail(a) PROVE OpenIsEarned'
    BY <1>2, <2>1, BufferAssumption DEF Fail, Opened, TypeOK, OpenIsEarned
  <2>2. ASSUME NEW a \in Actor, Success(a) PROVE OpenIsEarned'
    BY <2>2 DEF Success, Closed, OpenIsEarned
  <2>3. CASE Tick
    BY <1>2, <2>3, BufferAssumption DEF Tick, Sooner, TypeOK, OpenIsEarned
  <2>4. CASE UNCHANGED breaker
    BY <1>2, <2>4 DEF breaker, OpenIsEarned
  <2>. QED BY <1>2, <2>1, <2>2, <2>3, <2>4
           DEF Next, vars, breaker, Arrive, Log, Finish, Append, DbCommit, DbError, Expire, Cancel, Send
<1>. QED BY <1>1, <1>2, TypeCorrect, PTL DEF Spec

-------------------------------------------------------------------------------
\* Losses.  The flushes that were cut short, and what has been made and is nowhere.
Cut  == {a \in Actor : At(a, "ended") /\ ~job[a].sent}
Lost == {x \in UNION {Made(a) : a \in Actor} : stored[x] = 0} \ InMemory

Counted == Cut = {} => IsFiniteSet(Lost) /\ Cardinality(Lost) <= dropped

LEMMA CountMore ==
    ASSUME NEW S, NEW T, NEW X, IsFiniteSet(S), IsFiniteSet(X), T \subseteq S \union X,
           NEW n \in Nat, Cardinality(S) <= n
    PROVE  IsFiniteSet(T) /\ Cardinality(T) <= n + Cardinality(X)
<1>1. /\ IsFiniteSet(S \union X)
      /\ Cardinality(S \union X) = Cardinality(S) + Cardinality(X) - Cardinality(S \intersect X)
  BY FS_Union
<1>2. IsFiniteSet(S \intersect X)
  BY FS_Subset
<1>3. IsFiniteSet(T) /\ Cardinality(T) <= Cardinality(S \union X)
  BY <1>1, FS_Subset
<1>. QED BY <1>1, <1>2, <1>3, FS_CardinalityType

\* A record is lost in a step only if it was in memory and is not in the tables.
LEMMA LostBy ==
    ASSUME TypeOK, NEW X,
           \A b \in Actor : Made(b)' \subseteq Made(b) \union InMemory' \union X,
           \A x \in InMemory : x \in InMemory' \/ x \in X \/ stored'[x] # 0,
           \A x \in Record : stored'[x] = 0 => stored[x] = 0
    PROVE  Lost' \subseteq Lost \union X
<1>. SUFFICES ASSUME NEW x \in Lost', x \notin X PROVE x \in Lost
  OBVIOUS
<1>1. x \notin InMemory' /\ stored'[x] = 0
  BY DEF Lost
<1>2. PICK b \in Actor : x \in Made(b)'
  BY DEF Lost
<1>3. x \in Made(b)
  BY <1>1, <1>2
<1>4. stored[x] = 0 /\ x \notin InMemory
  BY <1>1, <1>3, MadeIsRecord
<1>. QED BY <1>3, <1>4 DEF Lost

\* Where the other actors' records are does not change.
LEMMA MemoryOf ==
    ASSUME NEW a \in Actor, Only(a)
    PROVE  InMemory \subseteq InMemory' \union pending \union job[a].buf \union job[a].batch
BY DEF InMemory, Only

LEMMA CutStays ==
    ASSUME NEW a \in Actor, Only(a), job[a].pc # "ended" \/ job'[a] = job[a]
    PROVE  Cut \subseteq Cut'
BY DEF Cut, Only, At

LEMMA LossStep == ASSUME IInv, Counted, [Next]_vars, Cut' = {}
                  PROVE  IsFiniteSet(Lost') /\ Cardinality(Lost') <= dropped'
<1>0. TypeOK /\ dropped \in Nat
  BY DEF IInv, TypeOK
<1>1. ASSUME NEW X, IsFiniteSet(X), Cut \subseteq Cut', Lost' \subseteq Lost \union X,
             dropped' = dropped + Cardinality(X)
      PROVE  IsFiniteSet(Lost') /\ Cardinality(Lost') <= dropped'
  BY <1>0, <1>1, CountMore DEF Counted
<1>2. ASSUME Cut \subseteq Cut', Lost' \subseteq Lost, UNCHANGED dropped
      PROVE  IsFiniteSet(Lost') /\ Cardinality(Lost') <= dropped'
  BY <1>0, <1>2, <1>1, FS_EmptySet
<1>3. ASSUME \A a \in Actor : /\ Made(a)' = Made(a) /\ job'[a].buf = job[a].buf
                              /\ job'[a].batch = job[a].batch,
             UNCHANGED <<pending, dropped, stored>>, Cut \subseteq Cut'
      PROVE  IsFiniteSet(Lost') /\ Cardinality(Lost') <= dropped'
  <2>1. Lost' = Lost
    BY <1>3 DEF Lost, InMemory
  <2>. QED BY <2>1, <1>2, <1>3
<1>4. ASSUME NEW a \in Actor, Arrive(a) \/ Append(a) \/ Send(a)
      PROVE  IsFiniteSet(Lost') /\ Cardinality(Lost') <= dropped'
  <2>1. /\ Only(a) /\ job'[a].buf = job[a].buf /\ job'[a].made = job[a].made
        /\ job'[a].batch = job[a].batch /\ job[a].pc # "ended"
        /\ UNCHANGED <<pending, dropped, stored>>
    BY <1>0, <1>4 DEF Arrive, Append, Send, Flushed, Only, At, TypeOK, Job
  <2>2. \A b \in Actor : /\ Made(b)' = Made(b) /\ job'[b].buf = job[b].buf
                         /\ job'[b].batch = job[b].batch
    BY <2>1 DEF Only, Made
  <2>. QED BY <2>1, <2>2, <1>3, CutStays
<1>5. ASSUME NEW a \in Actor, Log(a)
      PROVE  IsFiniteSet(Lost') /\ Cardinality(Lost') <= dropped'
  <2>. DEFINE x == <<a, job[a].made + 1>>
  <2>1. /\ Only(a) /\ job[a].pc = "run" /\ UNCHANGED <<dropped, stored>>
        /\ job'[a].made = job[a].made + 1 /\ job'[a].batch = job[a].batch
        /\ \/ a = Main /\ pending' = pending \union {x} /\ job'[a].buf = job[a].buf
           \/ a # Main /\ pending' = pending /\ job'[a].buf = job[a].buf \union {x}
    <3>1. CASE a = Main
      BY <3>1, <1>0, <1>5 DEF Log, At, Only, TypeOK, Job
    <3>2. CASE a # Main
      <4>1. job' = [job EXCEPT ![a].made = @ + 1, ![a].buf = @ \union {x}]
        BY <3>2, <1>5 DEF Log
      <4>2. pending' = pending /\ UNCHANGED <<dropped, stored>> /\ job[a].pc = "run"
        BY <3>2, <1>5 DEF Log, At
      <4>. HIDE DEF x
      <4>. QED BY <4>1, <4>2, <3>2, <1>0 DEF Only, TypeOK, Job
    <3>. QED BY <3>1, <3>2
  <2>2. Made(a)' \subseteq Made(a) \union {x}
    <3>1. 1..job'[a].made \subseteq 1..job[a].made \union {job[a].made + 1}
      BY <2>1, <1>0 DEF TypeOK, Job
    <3>. QED BY <3>1 DEF Made
  <2>. HIDE DEF x
  <2>3. InMemory \subseteq InMemory' /\ x \in InMemory'
    BY <2>1 DEF InMemory, Only
  <2>4. \A b \in Actor : Made(b)' \subseteq Made(b) \union InMemory' \union {}
    BY <2>1, <2>2, <2>3 DEF Made, Only
  <2>5. Lost' \subseteq Lost \union {}
    BY <1>0, <2>1, <2>3, <2>4, LostBy
  <2>. QED BY <2>1, <2>5, <1>2, CutStays
<1>6. ASSUME NEW a \in Actor, Finish(a)
      PROVE  IsFiniteSet(Lost') /\ Cardinality(Lost') <= dropped'
  <2>. DEFINE D == Drained(a)
  <2>1. /\ IsFiniteSet(D) /\ Only(a) /\ UNCHANGED stored /\ job[a].pc = "run"
        /\ Made(a)' \subseteq Made(a) \union D
        /\ pending \subseteq D /\ job[a].buf \subseteq D /\ job[a].batch = {}
        /\ \/ dropped' = dropped /\ job'[a].batch = D
           \/ dropped' = dropped + Cardinality(D)
    BY <1>6, FinishStep DEF Finish, At, Drained
  <2>. HIDE DEF D
  <2>2. InMemory \subseteq InMemory' \union D
    BY <2>1, MemoryOf
  <2>3. \A b \in Actor : Made(b)' \subseteq Made(b) \union D
    BY <2>1 DEF Made, Only
  <2>4. CASE dropped' = dropped /\ job'[a].batch = D
    <3>1. D \subseteq InMemory'
      BY <2>4 DEF InMemory
    <3>2. Lost' \subseteq Lost \union {}
      BY <3>1, <1>0, <2>1, <2>2, <2>3, LostBy
    <3>. QED BY <3>2, <2>1, <2>4, <1>2, CutStays
  <2>5. CASE dropped' = dropped + Cardinality(D)
    <3>1. Lost' \subseteq Lost \union D
      BY <1>0, <2>1, <2>2, <2>3, LostBy
    <3>. QED BY <3>1, <2>1, <2>5, <1>1, CutStays
  <2>. QED BY <2>1, <2>4, <2>5
<1>7. ASSUME NEW a \in Actor, DbCommit(a)
      PROVE  IsFiniteSet(Lost') /\ Cardinality(Lost') <= dropped'
  <2>1. /\ Only(a) /\ job[a].pc = "commit" /\ UNCHANGED <<pending, dropped>>
        /\ job'[a].buf = job[a].buf /\ job'[a].batch = job[a].batch
        /\ job'[a].made = job[a].made
    BY <1>0, <1>7 DEF DbCommit, At, Only, TypeOK, Job
  <2>2. \A b \in Actor : Made(b)' \subseteq Made(b) \union InMemory' \union {}
    BY <2>1 DEF Made, Only
  <2>3. InMemory \subseteq InMemory'
    BY <2>1 DEF InMemory, Only
  <2>4. \A x \in Record : stored'[x] = 0 => stored[x] = 0
    BY <1>0, <1>7 DEF DbCommit, Rows, TypeOK
  <2>5. Lost' \subseteq Lost \union {}
    BY <1>0, <2>2, <2>3, <2>4, LostBy
  <2>. QED BY <2>1, <2>5, <1>2, CutStays
<1>8. ASSUME NEW a \in Actor, Success(a) \/ DbError(a) \/ Expire(a) \/ Cancel(a)
      PROVE  IsFiniteSet(Lost') /\ Cardinality(Lost') <= dropped'
  <2>1. /\ Waiting(a) /\ UNCHANGED pending
        /\ \E l \in {"send", "ended"} : Leaves(a, l) /\ (Cancel(a) => l = "ended")
        /\ UNCHANGED stored \/ (At(a, "commit") /\ stored' = Rows(job[a].batch))
    BY <1>8 DEF Success, DbError, Expire, Expired, Cancel, Fail, InDoubt, At, Waiting
  <2>2. /\ Only(a) /\ job'[a].buf = job[a].buf /\ job'[a].made = job[a].made
        /\ job'[a].sent = job[a].sent /\ job[a].pc # "ended"
        /\ Cancel(a) => job'[a].pc = "ended"
    BY <2>1, <1>0 DEF Leaves, Only, Waiting, TypeOK, Job
  <2>3. \A b \in Actor : Made(b)' \subseteq Made(b)
    BY <2>2 DEF Made, Only
  <2>4. InMemory \subseteq InMemory' \union job[a].batch
    BY <2>1, <2>2 DEF InMemory, Only
  <2>5. \A x \in Record : stored'[x] = 0 => stored[x] = 0
    BY <1>0, <2>1 DEF Rows, TypeOK
  <2>6. CASE Success(a)
    <3>1. \A x \in job[a].batch : stored'[x] # 0
      BY <2>6 DEF Success, At, IInv, Written
    <3>2. Lost' \subseteq Lost \union {}
      BY <1>0, <2>3, <2>4, <2>5, <3>1, LostBy
    <3>. QED BY <3>2, <2>2, <2>6, <1>2, CutStays DEF Success
  <2>7. CASE Fail(a)
    <3>1. Lost' \subseteq Lost \union job[a].batch
      BY <1>0, <2>3, <2>4, <2>5, LostBy
    <3>2. IsFiniteSet(job[a].batch)
      BY DEF IInv, Countable
    <3>. QED BY <3>1, <3>2, <2>2, <2>7, <1>1, CutStays DEF Fail, Count
  <2>8. CASE Cancel(a)
    <3>1. job[a].sent = FALSE
      BY <1>0, <2>1 DEF IInv, Home, Waiting, TypeOK, Job
    <3>2. a \in Cut'
      BY <3>1, <2>2, <2>8 DEF Cut, At
    <3>. QED BY <3>2
  <2>. QED BY <1>8, <2>6, <2>7, <2>8 DEF DbError, Expire
<1>9. ASSUME Tick
      PROVE  IsFiniteSet(Lost') /\ Cardinality(Lost') <= dropped'
  <2>1. \A a \in Actor :
          /\ job'[a].pc = job[a].pc /\ job'[a].buf = job[a].buf
          /\ job'[a].batch = job[a].batch /\ job'[a].made = job[a].made
          /\ job'[a].sent = job[a].sent
    BY <1>0, <1>9 DEF Tick, TypeOK, Job
  <2>2. Cut \subseteq Cut' /\ \A a \in Actor : Made(a)' = Made(a)
    BY <2>1 DEF Cut, At, Made
  <2>. QED BY <2>1, <2>2, <1>3, <1>9 DEF Tick
<1>10. ASSUME UNCHANGED vars
       PROVE  IsFiniteSet(Lost') /\ Cardinality(Lost') <= dropped'
  <2>1. \A a \in Actor : Made(a)' = Made(a)
    BY <1>10 DEF Made, vars
  <2>2. Cut \subseteq Cut'
    BY <1>10 DEF Cut, At, vars
  <2>. QED BY <2>1, <2>2, <1>3, <1>10 DEF vars
<1>. QED BY <1>4, <1>5, <1>6, <1>7, <1>8, <1>9, <1>10 DEF Next, Actor

\* A record that is neither in the tables nor in memory has been counted
\* (LossIsCounted), unless a flush was cut short by a cancellation.
THEOREM LossesAreCounted == Spec => []LossIsCounted
<1>1. Init => Counted
  <2>. SUFFICES ASSUME Init PROVE IsFiniteSet(Lost) /\ Cardinality(Lost) <= dropped
    BY DEF Counted
  <2>1. \A a \in Actor : Made(a) = {}
    BY DEF Init, Made
  <2>2. Lost = {}
    BY <2>1 DEF Lost
  <2>. QED BY <2>2, FS_EmptySet DEF Init
<1>2. IInv /\ Counted /\ [Next]_vars => Counted'
  BY LossStep DEF Counted
<1>3. Counted => LossIsCounted
  BY DEF Counted, LossIsCounted, Cut, Lost
<1>. QED BY <1>1, <1>2, <1>3, Invariant, PTL DEF Spec
==============================================================================
