------------------------------ MODULE Snowflake ------------------------------
(***************************************************************************)
(* Identifiers (app/core/snowflake.py).  Every process has a generator with*)
(* a lock, the time of its last identifier and a sequence number within    *)
(* that millisecond; all read one clock, which may be set back.  An        *)
(* identifier is a number of three digits: time, node and sequence.        *)
(***************************************************************************)
EXTENDS Integers, Sequences

CONSTANTS Process,
          Node,            \* Node[p]: the digit of (datacenter_id, worker_id)
          Nodes,           \* 2^10 of them
          Numbers,         \* MAX_SEQUENCE + 1
          Times,           \* MAX_TIMESTAMP + 1
          Clock,           \* what the clock may show, in milliseconds after the epoch
          MaxIds           \* bound on the identifiers of a process

\* No two processes are given the same node.
ASSUME SnowflakeAssumption ==
    /\ Nodes \in Nat /\ Numbers \in Nat \ {0} /\ Times \in Nat /\ Clock \subseteq Int
    /\ Node \in [Process -> 0..(Nodes - 1)]
    /\ \A p, q \in Process : Node[p] = Node[q] => p = q

VARIABLES clock,
          last,            \* _last_timestamp
          seq,             \* _sequence
          waiting,         \* in _wait_next_ms, with the lock
          log              \* what next_id has returned, in order

vars == <<clock, last, seq, waiting, log>>

TypeOK == /\ clock \in Clock
          /\ last \in [Process -> Int] /\ \A p \in Process : last[p] >= -1
          /\ seq \in [Process -> 0..(Numbers - 1)] /\ waiting \in [Process -> BOOLEAN]
          /\ log \in [Process -> Seq(Nat)]

\* Timestamp, node and sequence, shifted and joined.
IdOf(p, t, s) == (t * Nodes + Node[p]) * Numbers + s

Init == /\ clock \in Clock
        /\ last = [p \in Process |-> -1] /\ seq = [p \in Process |-> 0]
        /\ waiting = [p \in Process |-> FALSE] /\ log = [p \in Process |-> <<>>]

\* Time passes, or the clock is set.
SetClock == clock' \in Clock /\ UNCHANGED <<last, seq, waiting, log>>

\* The end of next_id; beyond 41 bits it raises.
Issue(p, t, s) ==
    /\ last' = [last EXCEPT ![p] = t] /\ seq' = [seq EXCEPT ![p] = s]
    /\ waiting' = [waiting EXCEPT ![p] = FALSE]
    /\ log' = IF t < Times THEN [log EXCEPT ![p] = Append(@, IdOf(p, t, s))] ELSE log
    /\ UNCHANGED clock

\* Seeded fault: a clock that has been set back is not noticed.
AnyTime(t, before) == t >= 0

\* Before the epoch, or before the last identifier, next_id raises.
Usable(t, before) == t >= 0 /\ t >= before

Free(p) == ~waiting[p] /\ Len(log[p]) < MaxIds

NewMillisecond(p) == /\ Free(p) /\ Usable(clock, last[p]) /\ clock # last[p]
                     /\ Issue(p, clock, 0)

SameMillisecond(p) == /\ Free(p) /\ Usable(clock, last[p]) /\ clock = last[p]
                      /\ seq[p] + 1 < Numbers
                      /\ Issue(p, clock, seq[p] + 1)

\* The sequence has wrapped to 0.
Exhausted(p) == /\ Free(p) /\ Usable(clock, last[p]) /\ clock = last[p]
                /\ seq[p] + 1 = Numbers
                /\ seq' = [seq EXCEPT ![p] = 0]
                /\ waiting' = [waiting EXCEPT ![p] = TRUE]
                /\ UNCHANGED <<clock, last, log>>

Later(t, before) == t > before

NextMillisecond(p) == waiting[p] /\ Later(clock, last[p]) /\ Issue(p, clock, 0)

Next == SetClock \/ \E p \in Process : \/ NewMillisecond(p) \/ SameMillisecond(p)
                                       \/ Exhausted(p) \/ NextMillisecond(p)

Spec == Init /\ [][Next]_vars

-------------------------------------------------------------------------------
\* No identifier is returned twice, by one process or by two, whatever the clock
\* does, also over the end of the sequence of a millisecond.
IdsAreUnique ==
    \A p, q \in Process : \A i \in DOMAIN log[p], j \in DOMAIN log[q] :
       log[p][i] = log[q][j] => p = q /\ i = j

\* Those of one process increase.
IdsIncrease == \A p \in Process : \A i, j \in DOMAIN log[p] : i < j => log[p][i] < log[p][j]

\* They fit into the bits they have.
IdsFit == \A p \in Process : \A i \in DOMAIN log[p] : log[p][i] < Times * Nodes * Numbers

\* What keeps them so.
Bound(p) == IF waiting[p] THEN IdOf(p, last[p] + 1, 0) ELSE IdOf(p, last[p], seq[p]) + 1

IInv == /\ TypeOK
        /\ \A p \in Process : waiting[p] => last[p] >= 0
        /\ \A p \in Process : \A i \in DOMAIN log[p] :
              /\ last[p] >= 0 /\ log[p][i] < Bound(p)
              /\ \E t \in 0..(Times - 1), s \in 0..(Numbers - 1) : log[p][i] = IdOf(p, t, s)
        /\ IdsIncrease
==============================================================================
