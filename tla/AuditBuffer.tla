----------------------------- MODULE AuditBuffer -----------------------------
(***************************************************************************)
(* Buffering of log records and their flush in a transaction of their own  *)
(* (app/audit/buffer.py), driven by the trace middleware of each request   *)
(* (app/middleware/trace.py) and by the shutdown of the process.           *)
(*                                                                         *)
(* A request collects records in its own buffer; code outside a request    *)
(* (Main) uses the fallback buffer.  Just before the last part of the      *)
(* response is handed over, the buffers are drained and written; a         *)
(* circuit breaker gives up on a database that keeps failing.  The event   *)
(* loop switches tasks only at an await, so drain and the bookkeeping are  *)
(* atomic, while an append and its commit take time, in which the database *)
(* may answer, fail or stay silent.                                        *)
(*                                                                         *)
(* Timers count down.  A record is <<a, i>>: the i-th one made by a.  The  *)
(* breaker's own notice is left out: it lands in a buffer that has just    *)
(* been drained for the last time.                                         *)
(***************************************************************************)
EXTENDS Integers, FiniteSets

CONSTANTS Req, Main,
          Threshold,     \* CIRCUIT_FAILURE_THRESHOLD
          Cooldown,      \* CIRCUIT_COOLDOWN_SECONDS
          Timeout,       \* FLUSH_TIMEOUT_SECONDS
          MaxLogs,       \* bound on the records an actor makes
          Cancellable    \* actors whose task may be cancelled

ASSUME BufferAssumption ==
    /\ Main \notin Req /\ Cancellable \subseteq Req
    /\ Threshold \in Nat \ {0} /\ Cooldown \in Nat \ {0} /\ Timeout \in Nat \ {0}
    /\ MaxLogs \in Nat \ {0}

VARIABLES pending,    \* _pending: the fallback buffer
          job,        \* the task of each actor
          failures,   \* _consecutive_failures
          openFor,    \* what is left of the time the breaker is open
          dropped,    \* dropped_logs
          stored      \* rows in the log tables for each record

vars    == <<pending, job, failures, openFor, dropped, stored>>
breaker == <<failures, openFor>>

Actor  == Req \union {Main}
Record == Actor \X (1..MaxLogs)
PC     == {"idle", "run", "append", "commit", "acked", "send", "ended"}
Job    == [pc : PC, buf : SUBSET Record, batch : SUBSET Record,
           made : 0..MaxLogs, left : 0..Timeout, sent : BOOLEAN]

TypeOK == /\ pending \subseteq Record
          /\ job \in [Actor -> Job]
          /\ failures \in Nat /\ openFor \in 0..Cooldown /\ dropped \in Nat
          /\ stored \in [Record -> Nat]

At(a, l) == job[a].pc = l
Made(a)  == {<<a, i>> : i \in 1..job[a].made}

Init == /\ pending = {}
        /\ job = [a \in Actor |-> [pc |-> IF a = Main THEN "run" ELSE "idle",
                                   buf |-> {}, batch |-> {}, made |-> 0, left |-> 0,
                                   sent |-> FALSE]]
        /\ failures = 0 /\ openFor = 0 /\ dropped = 0
        /\ stored = [x \in Record |-> 0]

-------------------------------------------------------------------------------
\* A request binds an empty buffer.
Arrive(r) == /\ At(r, "idle")
             /\ At(Main, "run")
             /\ job' = [job EXCEPT ![r].pc = "run"]
             /\ UNCHANGED <<pending, breaker, dropped, stored>>

\* record_audit, record_application: into the request's buffer or the fallback.
Log(a) == /\ At(a, "run")
          /\ job[a].made < MaxLogs - 1
          /\ LET x == <<a, job[a].made + 1>>
             IN  IF a = Main
                   THEN /\ pending' = pending \union {x}
                        /\ job' = [job EXCEPT ![a].made = @ + 1]
                   ELSE /\ job' = [job EXCEPT ![a].made = @ + 1, ![a].buf = @ \union {x}]
                        /\ UNCHANGED pending
          /\ UNCHANGED <<breaker, dropped, stored>>

\* Seeded fault: drain leaves the fallback buffer as it was.
Leave(b) == b

\* What drain leaves in a buffer.
Cleared(b) == {}

\* finish: the access record, then flush_logs up to its first await.  A request
\* cancelled before that runs it all the same, in the finally of the middleware.
\* At shutdown Main flushes what is in the fallback buffer.
Finish(a) ==
    /\ At(a, "run")
    /\ a = Main => \A r \in Req : job[r].pc \in {"idle", "ended"}
    /\ LET n     == IF a = Main THEN job[a].made ELSE job[a].made + 1
           own   == IF a = Main THEN {} ELSE job[a].buf \union {<<a, n>>}
           batch == pending \union own
           j     == [job[a] EXCEPT !.buf = {}, !.made = n]
       IN  /\ pending' = Cleared(pending)
           /\ IF batch = {} \/ openFor > 0
                THEN /\ dropped' = dropped + Cardinality(batch)
                     /\ job' = [job EXCEPT ![a] = [j EXCEPT !.pc = "send"]]
                ELSE /\ job' = [job EXCEPT ![a] = [j EXCEPT !.pc = "append", !.batch = batch,
                                                           !.left = Timeout]]
                     /\ UNCHANGED dropped
    /\ UNCHANGED <<breaker, stored>>

-------------------------------------------------------------------------------
Waiting(a) == job[a].pc \in {"append", "commit", "acked"}

Rows(b) == [x \in Record |-> stored[x] + IF x \in b THEN 1 ELSE 0]

\* The attempt is over, and the actor goes to l.
Leaves(a, l) == job' = [job EXCEPT ![a].pc = l, ![a].batch = {}, ![a].left = 0]

\* append_buffer has inserted the batch.
Append(a) == /\ At(a, "append")
             /\ job' = [job EXCEPT ![a].pc = "commit"]
             /\ UNCHANGED <<pending, breaker, dropped, stored>>

\* The database commits; the answer is on its way.
DbCommit(a) == /\ At(a, "commit")
               /\ stored' = Rows(job[a].batch)
               /\ job' = [job EXCEPT ![a].pc = "acked"]
               /\ UNCHANGED <<pending, breaker, dropped>>

\* Seeded fault: a success forgets the failures and not the open breaker.
KeepOpen == openFor

\* _on_success closes the breaker.
Closed == 0

Success(a) == /\ At(a, "acked")
              /\ failures' = 0 /\ openFor' = Closed
              /\ Leaves(a, "send")
              /\ UNCHANGED <<pending, dropped, stored>>

\* Seeded fault: only batches that open the breaker are counted.
CountIfOpen(b) == IF failures + 1 >= Threshold THEN Cardinality(b) ELSE 0

\* How many records a failed batch adds to dropped_logs.
Count(b) == Cardinality(b)

\* How long the breaker stays open from now on.
Opened == Cooldown

\* _on_failure
Fail(a) == /\ failures' = failures + 1
           /\ dropped' = dropped + Count(job[a].batch)
           /\ openFor' = IF failures + 1 >= Threshold THEN Opened ELSE openFor
           /\ Leaves(a, "send")

\* A transaction that ends while its COMMIT is on the way may commit or not.
InDoubt(a) == \/ UNCHANGED stored
              \/ At(a, "commit") /\ stored' = Rows(job[a].batch)

\* The database reports an error, or the connection to it is lost.
DbError(a) == /\ job[a].pc \in {"append", "commit"}
              /\ Fail(a)
              /\ InDoubt(a)
              /\ UNCHANGED pending

\* Seeded fault: the time limit covers the inserts and not the commit.
ExpiredInAppend(a) == At(a, "append") /\ job[a].left = 0

Expired(a) == Waiting(a) /\ job[a].left = 0

\* asyncio.timeout
Expire(a) == /\ Expired(a)
             /\ Fail(a)
             /\ InDoubt(a)
             /\ UNCHANGED pending

\* CancelledError is no Exception: neither handler runs.
Cancel(a) == /\ a \in Cancellable
             /\ Waiting(a)
             /\ Leaves(a, "ended")
             /\ InDoubt(a)
             /\ UNCHANGED <<pending, breaker, dropped>>

\* Seeded fault: the answer does not wait for the flush.
AnyTime(a) == At(a, "send") \/ Waiting(a)

\* The last part of a response waits for the flush.
Flushed(a) == At(a, "send")

\* The last part of the response goes to the server, the buffer is unbound.
Send(a) == /\ Flushed(a)
           /\ job' = [job EXCEPT ![a].pc = "ended", ![a].sent = TRUE]
           /\ UNCHANGED <<pending, breaker, dropped, stored>>

Sooner(t) == IF t > 0 THEN t - 1 ELSE 0

Tick == /\ openFor > 0 \/ \E a \in Actor : job[a].left > 0
        /\ openFor' = Sooner(openFor)
        /\ job' = [a \in Actor |-> [job[a] EXCEPT !.left = Sooner(@)]]
        /\ UNCHANGED <<pending, failures, dropped, stored>>

Next == \/ \E r \in Req : Arrive(r)
        \/ \E a \in Actor : \/ Log(a) \/ Finish(a) \/ Append(a) \/ DbCommit(a) \/ Success(a)
                            \/ DbError(a) \/ Expire(a) \/ Cancel(a) \/ Send(a)
        \/ Tick

Spec == Init /\ [][Next]_vars

\* Time passes and a ready task is run; the database owes nothing.
FairSpec == /\ Spec
            /\ WF_vars(Tick)
            /\ \A a \in Actor : WF_vars(Expire(a)) /\ WF_vars(Send(a))

-------------------------------------------------------------------------------
\* Records that are in the memory of the process.
InMemory == pending \union UNION {job[a].buf \union job[a].batch : a \in Actor}

\* A record is written at most once, whoever drains the fallback buffer and
\* however an attempt ends (drain clears what it takes).
StoredOnce == \A x \in Record : stored[x] <= 1

\* When the last part of a response is handed over, none of its records is
\* still in memory only: a crash after the answer loses no record of it.
SentIsSettled == \A r \in Req : job[r].sent => Made(r) \intersect InMemory = {}

\* As long as no flush has been cut short by a cancellation, the records that are
\* neither in the tables nor in memory are all counted in dropped_logs.
LossIsCounted ==
    LET cut  == {a \in Actor : At(a, "ended") /\ ~job[a].sent}
        lost == {x \in UNION {Made(a) : a \in Actor} : stored[x] = 0} \ InMemory
    IN  cut = {} => Cardinality(lost) <= dropped

\* The breaker is open only on top of a whole run of failures.
OpenIsEarned == openFor > 0 => failures >= Threshold

\* A request whose flush has begun is answered or cancelled, even when the
\* database never says a word.
FlushEnds == \A a \in Actor : Waiting(a) ~> At(a, "ended")
==============================================================================
