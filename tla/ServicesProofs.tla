--------------------------- MODULE ServicesProofs ---------------------------
(***************************************************************************)
(* Of the parts that share no state: identifiers are unique, for any       *)
(* number of processes and identifiers, any widths of the digits and       *)
(* whatever the clock does; the limit on logins holds, for any settings,   *)
(* any number of logins at once and a back end that may fail; inboxes are  *)
(* kept, for any users, announcements and requests at once; passwords are  *)
(* remembered, for any that are kept and any changes at once; and an edit  *)
(* of a dictionary that none disturbs is done, for any tables and edits.   *)
(*                                                                         *)
(* A generator keeps a bound (Bound) that is above all it has returned and *)
(* not above what it returns next; and the digits of an identifier can be  *)
(* read back from it.  A window's time meets two windows, and in each what *)
(* has passed is accounted for by the lives of its key (Fits).  What a     *)
(* request has flushed to the inboxes is what they say with its one change *)
(* (Flushes), since no two requests write a row in common (Notices!Apart). *)
(* The newest rows of a history are as many as are asked for, the one just *)
(* appended among them, since ids grow (Passwords!Ordered).  The tables of *)
(* dictionaries keep to their unique indexes, as committed and as each     *)
(* request sees them, since a statement waits for who has written a row or *)
(* a key in common (Dictionaries!Disjoint); and what a request has checked *)
(* holds while nobody else commits (Dictionaries!Fresh), so that no index  *)
(* refuses what it writes.                                                 *)
(***************************************************************************)
EXTENDS MCServices, FiniteSetTheorems, SequenceTheorems, TLAPS

-------------------------------------------------------------------------------
\* Arithmetic.

LEMMA ProductIsNat == ASSUME NEW a \in Nat, NEW b \in Nat PROVE a * b \in Nat
OBVIOUS

LEMMA Digit == ASSUME NEW S \in Nat \ {0}, NEW a \in Nat, NEW b \in Nat,
                      NEW s \in 0..(S - 1), NEW t \in 0..(S - 1), a * S + s = b * S + t
               PROVE  a = b /\ s = t
<1>1. ASSUME NEW x \in Nat, NEW y \in Nat, NEW u \in 0..(S - 1), NEW v \in 0..(S - 1), x < y
      PROVE  x * S + u < y * S + v
  <2>1. PICK d \in Nat : y = x + 1 + d
    <3>1. y - x - 1 \in Nat /\ y = x + 1 + (y - x - 1)
      BY <1>1
    <3>. QED BY <3>1
  <2>2. y * S = x * S + S + d * S
    BY <2>1
  <2>3. d * S \in Nat /\ x * S \in Nat
    BY ProductIsNat
  <2>. QED BY <2>2, <2>3
<1>2. ~(a < b) /\ ~(b < a)
  BY <1>1
<1>3. a = b
  BY <1>2
<1>. QED BY <1>3

\* A generator knows its digit, so there is one.
LEMMA NodeType == ASSUME NEW p \in Process
                  PROVE  Node[p] \in 0..(Nodes - 1) /\ Nodes \in Nat \ {0} /\ Numbers \in Nat \ {0}
BY SnowflakeAssumption

LEMMA IdType == ASSUME NEW p \in Process, NEW t \in Nat, NEW s \in Nat
                PROVE  IdOf(p, t, s) \in Nat
<1>1. t * Nodes \in Nat
  BY NodeType, ProductIsNat
<1>2. t * Nodes + Node[p] \in Nat
  BY <1>1, NodeType
<1>3. (t * Nodes + Node[p]) * Numbers \in Nat
  BY <1>2, NodeType, ProductIsNat
<1>. QED BY <1>3 DEF IdOf

\* What can be read back from an identifier.
LEMMA Digits == ASSUME NEW p \in Process, NEW q \in Process, NEW t \in Nat, NEW u \in Nat,
                       NEW s \in 0..(Numbers - 1), NEW v \in 0..(Numbers - 1),
                       IdOf(p, t, s) = IdOf(q, u, v)
                PROVE  p = q /\ t = u /\ s = v
<1>. DEFINE x == t * Nodes + Node[p]
            y == u * Nodes + Node[q]
<1>1. t * Nodes \in Nat /\ u * Nodes \in Nat
  BY NodeType, ProductIsNat
<1>2. x \in Nat /\ y \in Nat
  BY <1>1, NodeType
<1>3. x * Numbers + s = y * Numbers + v
  BY DEF IdOf
<1>4. x = y /\ s = v
  <2>. HIDE DEF x, y
  <2>. QED BY <1>2, <1>3, Digit, NodeType
<1>5. t = u /\ Node[p] = Node[q]
  BY <1>4, Digit, NodeType
<1>. QED BY <1>4, <1>5, SnowflakeAssumption

\* All of a millisecond come before all of a later one.
LEMMA LaterIsMore == ASSUME NEW p \in Process, NEW t \in Nat, NEW u \in Nat, t < u,
                       NEW s \in 0..(Numbers - 1)
                PROVE  IdOf(p, t, s) + 1 <= IdOf(p, u, 0)
<1>1. PICK d \in Nat : u = t + 1 + d
  <2>1. u - t - 1 \in Nat /\ u = t + 1 + (u - t - 1)
    OBVIOUS
  <2>. QED BY <2>1
<1>. DEFINE x == t * Nodes + Node[p]
            e == Nodes - 1 + d * Nodes
<1>2. t * Nodes \in Nat /\ d * Nodes \in Nat
  BY NodeType, ProductIsNat
<1>3. x \in Nat /\ e \in Nat
  BY <1>2, NodeType
<1>4. u * Nodes + Node[p] = x + 1 + e
  BY <1>1, <1>2, NodeType
<1>5. IdOf(p, t, s) = x * Numbers + s /\ IdOf(p, u, 0) = (x + 1 + e) * Numbers
  BY <1>2, <1>3, <1>4, NodeType, ProductIsNat DEF IdOf
<1>. HIDE DEF x, e
<1>6. (x + 1 + e) * Numbers = x * Numbers + Numbers + e * Numbers
  BY <1>3, NodeType
<1>7. x * Numbers \in Nat /\ e * Numbers \in Nat
  BY <1>3, NodeType, ProductIsNat
<1>. QED BY <1>5, <1>6, <1>7, NodeType

-------------------------------------------------------------------------------
\* The invariant of one process.
Own(p) == /\ waiting[p] => last[p] >= 0
          /\ \A i \in DOMAIN log[p] :
                /\ last[p] >= 0 /\ log[p][i] < Bound(p)
                /\ \E t \in 0..(Times - 1), s \in 0..(Numbers - 1) : log[p][i] = IdOf(p, t, s)
          /\ \A i, j \in DOMAIN log[p] : i < j => log[p][i] < log[p][j]

LEMMA OfAll == IInv <=> TypeOK /\ \A p \in Process : Own(p)
BY DEF IInv, IdsIncrease, Own

\* What is returned next is not below the bound.
LEMMA Above == ASSUME IInv, NEW p \in Process, NEW i \in DOMAIN log[p],
                      NEW t \in Nat, NEW s \in 0..(Numbers - 1),
                      \/ t > last[p]
                      \/ ~waiting[p] /\ t = last[p] /\ s = seq[p] + 1
               PROVE  log[p][i] < IdOf(p, t, s)
<1>1. last[p] \in Nat /\ log[p][i] < Bound(p) /\ seq[p] \in 0..(Numbers - 1)
  BY DEF IInv, TypeOK
<1>2. log[p][i] \in Nat
  BY DEF IInv, TypeOK
<1>3. IdOf(p, t, s) = IdOf(p, t, 0) + s /\ IdOf(p, t, 0) \in Nat
  <2>1. t * Nodes \in Nat
    BY NodeType, ProductIsNat
  <2>2. (t * Nodes + Node[p]) * Numbers \in Nat
    BY <2>1, NodeType, ProductIsNat
  <2>. QED BY <2>2 DEF IdOf
<1>0. Numbers \in Nat \ {0} /\ 0..(Numbers - 1) \subseteq Nat /\ 0 \in 0..(Numbers - 1)
  BY NodeType
<1>4. CASE t > last[p] /\ ~waiting[p]
  <2>1. Bound(p) = IdOf(p, last[p], seq[p]) + 1
    BY <1>4 DEF Bound
  <2>2. IdOf(p, last[p], seq[p]) + 1 <= IdOf(p, t, 0)
    BY <1>1, <1>4, LaterIsMore
  <2>3. IdOf(p, last[p], seq[p]) \in Nat
    BY <1>0, <1>1, IdType
  <2>. QED BY <1>1, <1>2, <1>3, <2>1, <2>2, <2>3
<1>5. CASE t > last[p] /\ waiting[p]
  <2>1. Bound(p) = IdOf(p, last[p] + 1, 0)
    BY <1>5 DEF Bound
  <2>2. last[p] + 1 = t \/ IdOf(p, last[p] + 1, 0) + 1 <= IdOf(p, t, 0)
    BY <1>0, <1>1, <1>5, LaterIsMore
  <2>3. IdOf(p, last[p] + 1, 0) \in Nat
    <3>1. last[p] + 1 \in Nat /\ 0 \in Nat
      BY <1>1
    <3>. QED BY <3>1, IdType
  <2>. QED BY <1>1, <1>2, <1>3, <2>1, <2>2, <2>3
<1>6. CASE ~waiting[p] /\ t = last[p] /\ s = seq[p] + 1
  <2>1. Bound(p) = IdOf(p, t, seq[p]) + 1
    BY <1>6 DEF Bound
  <2>2. IdOf(p, t, seq[p]) = IdOf(p, t, 0) + seq[p]
    <3>1. (t * Nodes + Node[p]) * Numbers \in Nat
      BY NodeType, ProductIsNat
    <3>. QED BY <1>0, <1>1, <3>1 DEF IdOf
  <2>. QED BY <1>1, <1>2, <1>3, <1>6, <2>1, <2>2
<1>. QED BY <1>4, <1>5, <1>6

\* Another process is not concerned.
LEMMA Others == ASSUME NEW q \in Process, Own(q), last'[q] = last[q], seq'[q] = seq[q],
                       waiting'[q] = waiting[q], log'[q] = log[q]
                PROVE  Own(q)'
BY DEF Own, Bound, IdOf

LEMMA IssueStep == ASSUME IInv, NEW p \in Process, NEW t \in Nat, NEW s \in 0..(Numbers - 1),
                          Issue(p, t, s),
                          \/ t > last[p]
                          \/ ~waiting[p] /\ t = last[p] /\ s = seq[p] + 1
                   PROVE  IInv'
<1>. USE DEF Issue
<1>1. TypeOK
  BY DEF IInv
<1>2. IdOf(p, t, s) \in Nat
  <2>1. s \in Nat
    BY NodeType
  <2>. QED BY <2>1, IdType
<1>3. log[p] \in Seq(Nat)
  BY <1>1 DEF TypeOK
<1>. DEFINE old == log[p]
            new == log'[p]
            x   == IdOf(p, t, s)
<1>4. new = IF t < Times THEN Append(old, x) ELSE old
  BY <1>1 DEF TypeOK
<1>5. TypeOK'
  <2>1. last' \in [Process -> Int] /\ \A q \in Process : last'[q] >= -1
    BY <1>1 DEF TypeOK
  <2>2. seq' \in [Process -> 0..(Numbers - 1)] /\ waiting' \in [Process -> BOOLEAN]
    BY <1>1 DEF TypeOK
  <2>3. Append(old, x) \in Seq(Nat)
    BY <1>2, <1>3
  <2>4. log' \in [Process -> Seq(Nat)]
    BY <1>1, <2>3 DEF TypeOK
  <2>5. clock' \in Clock
    BY <1>1 DEF TypeOK
  <2>. QED BY <2>1, <2>2, <2>4, <2>5 DEF TypeOK
<1>6. last'[p] = t /\ seq'[p] = s /\ waiting'[p] = FALSE
  BY <1>1 DEF TypeOK
<1>7. Bound(p)' = x + 1
  BY <1>6 DEF Bound, IdOf
<1>8. \A i \in DOMAIN old : old[i] \in Nat /\ old[i] < x
  BY <1>3, Above
<1>9. Own(p)'
  <2>0. x \in Nat
    BY <1>2
  <2>1. \A i \in DOMAIN old : \E u \in 0..(Times - 1), v \in 0..(Numbers - 1) : old[i] = IdOf(p, u, v)
    BY DEF IInv
  <2>2. \A i, j \in DOMAIN old : i < j => old[i] < old[j]
    BY DEF IInv, IdsIncrease
  <2>3. CASE t >= Times
    <3>1. new = old
      BY <1>4, <2>3, SnowflakeAssumption
    <3>2. \A i \in DOMAIN new : /\ last'[p] >= 0 /\ new[i] < Bound(p)'
                              /\ \E u \in 0..(Times - 1), v \in 0..(Numbers - 1) : new[i] = IdOf(p, u, v)
      <4>. HIDE DEF old, new, x
      <4>1. \A i \in DOMAIN new : new[i] < x + 1
        BY <1>8, <2>0, <3>1
      <4>. QED BY <1>6, <1>7, <2>1, <3>1, <4>1
    <3>. QED BY <1>6, <2>2, <3>1, <3>2 DEF Own, IdOf
  <2>4. CASE t < Times
    <3>1. new = Append(old, x)
      BY <1>4, <2>4
    <3>2. /\ DOMAIN old = 1..Len(old) /\ DOMAIN new = 1..(Len(old) + 1) /\ Len(old) \in Nat
          /\ \A i \in DOMAIN old : new[i] = old[i]
          /\ new[Len(old) + 1] = x
      BY <1>2, <1>3, <3>1
    <3>3. \A i \in DOMAIN new : i \in DOMAIN old \/ i = Len(old) + 1
      BY <3>2
    <3>4. x = IdOf(p, t, s) /\ t \in 0..(Times - 1)
      BY <2>4, SnowflakeAssumption
    <3>5. ASSUME NEW i \in DOMAIN new
          PROVE  /\ last'[p] >= 0 /\ new[i] < Bound(p)'
                 /\ \E u \in 0..(Times - 1), v \in 0..(Numbers - 1) : new[i] = IdOf(p, u, v)
      <4>1. CASE i \in DOMAIN old
        BY <1>2, <1>6, <1>7, <1>8, <2>1, <3>2, <4>1
      <4>2. CASE i = Len(old) + 1
        BY <1>2, <1>6, <1>7, <3>2, <3>4, <4>2
      <4>. QED BY <3>3, <4>1, <4>2
    <3>6. ASSUME NEW i \in DOMAIN new, NEW j \in DOMAIN new, i < j
          PROVE  new[i] < new[j]
      <4>1. i \in DOMAIN old
        BY <3>2, <3>6
      <4>2. CASE j \in DOMAIN old
        BY <2>2, <3>2, <3>6, <4>1, <4>2
      <4>3. CASE j = Len(old) + 1
        BY <1>8, <3>2, <4>1, <4>3
      <4>. QED BY <3>3, <4>2, <4>3
    <3>. HIDE DEF old, new, x
    <3>7. \A i \in DOMAIN new : /\ last'[p] >= 0 /\ new[i] < Bound(p)'
                              /\ \E u \in 0..(Times - 1), v \in 0..(Numbers - 1) : new[i] = IdOf(p, u, v)
      BY <3>5
    <3>8. \A i, j \in DOMAIN new : i < j => new[i] < new[j]
      BY <3>6
    <3>. QED BY <1>6, <3>7, <3>8 DEF Own, IdOf, new
  <2>5. t < Times \/ t >= Times
    BY SnowflakeAssumption
  <2>. QED BY <2>3, <2>4, <2>5
<1>10. ASSUME NEW q \in Process, q # p PROVE Own(q)'
  <2>1. last'[q] = last[q] /\ seq'[q] = seq[q] /\ waiting'[q] = waiting[q] /\ log'[q] = log[q]
    BY <1>1, <1>10 DEF TypeOK
  <2>. QED BY <2>1, Others, OfAll
<1>11. \A q \in Process : Own(q)'
  BY <1>9, <1>10
<1>. QED BY <1>5, <1>11 DEF IInv, IdsIncrease, Own

\* Waiting for the next millisecond the bound does not fall.
LEMMA ExhaustedStep == ASSUME IInv, NEW p \in Process, Exhausted(p) PROVE IInv'
<1>. USE DEF Exhausted, Free, Usable
<1>1. TypeOK
  BY DEF IInv
<1>2. last[p] \in Nat /\ ~waiting[p] /\ seq[p] \in 0..(Numbers - 1) /\ last' = last /\ log' = log
  BY <1>1 DEF TypeOK
<1>3. TypeOK'
  <2>1. 0 \in 0..(Numbers - 1)
    BY NodeType
  <2>. QED BY <1>1, <2>1 DEF TypeOK
<1>4. waiting'[p] = TRUE /\ Bound(p)' = IdOf(p, last[p] + 1, 0)
  BY <1>1, <1>2 DEF TypeOK, Bound, IdOf
<1>5. Bound(p) = IdOf(p, last[p], seq[p]) + 1
  BY <1>2 DEF Bound
<1>6. Bound(p) <= Bound(p)' /\ Bound(p) \in Int /\ Bound(p)' \in Int
  <2>1. last[p] + 1 \in Nat /\ last[p] < last[p] + 1 /\ seq[p] \in Nat /\ 0 \in Nat
    BY <1>2, NodeType
  <2>2. Bound(p) <= Bound(p)'
    BY <1>2, <1>4, <1>5, <2>1, LaterIsMore
  <2>3. IdOf(p, last[p] + 1, 0) \in Nat /\ IdOf(p, last[p], seq[p]) \in Nat
    BY <1>2, <2>1, IdType
  <2>. QED BY <1>4, <1>5, <2>2, <2>3
<1>7. Own(p)'
  <2>1. \A i \in DOMAIN log[p] : log[p][i] \in Nat /\ log[p][i] < Bound(p)
    BY <1>1 DEF TypeOK, IInv
  <2>2. \A i \in DOMAIN log[p] : log[p][i] < Bound(p)'
    BY <1>6, <2>1
  <2>3. Own(p)
    BY OfAll
  <2>4. \A i \in DOMAIN log'[p] :
           /\ last'[p] >= 0 /\ log'[p][i] < Bound(p)'
           /\ \E t \in 0..(Times - 1), s \in 0..(Numbers - 1) : log'[p][i] = IdOf(p, t, s)
    BY <1>2, <2>2, <2>3 DEF Own
  <2>5. \A i, j \in DOMAIN log'[p] : i < j => log'[p][i] < log'[p][j]
    BY <1>2, <2>3 DEF Own
  <2>. QED BY <1>2, <2>4, <2>5 DEF Own, IdOf
<1>8. ASSUME NEW q \in Process, q # p PROVE Own(q)'
  <2>1. last'[q] = last[q] /\ seq'[q] = seq[q] /\ waiting'[q] = waiting[q] /\ log'[q] = log[q]
    BY <1>1, <1>8 DEF TypeOK
  <2>. QED BY <2>1, Others, OfAll
<1>9. \A q \in Process : Own(q)'
  BY <1>7, <1>8
<1>. QED BY <1>3, <1>9 DEF IInv, IdsIncrease, Own

LEMMA InitIInv == Init => IInv
<1>. SUFFICES ASSUME Init PROVE IInv
  OBVIOUS
<1>1. TypeOK
  <2>1. ASSUME NEW p \in Process PROVE 0 \in 0..(Numbers - 1)
    BY NodeType
  <2>2. <<>> \in Seq(Nat)
    OBVIOUS
  <2>. QED BY <2>1, <2>2 DEF Init, TypeOK
<1>2. ASSUME NEW p \in Process PROVE Own(p)
  BY DEF Init, Own
<1>. QED BY <1>1, <1>2, OfAll

LEMMA StepIInv == IInv /\ [Next]_vars => IInv'
<1>. SUFFICES ASSUME IInv, [Next]_vars PROVE IInv'
  OBVIOUS
<1>1. TypeOK
  BY DEF IInv
<1>2. ASSUME NEW p \in Process, NewMillisecond(p) PROVE IInv'
  <2>1. clock \in Int /\ clock >= 0 /\ last[p] \in Int /\ clock > last[p]
    BY <1>1, <1>2, SnowflakeAssumption DEF TypeOK, NewMillisecond, Usable
  <2>2. clock \in Nat /\ 0 \in 0..(Numbers - 1)
    BY <2>1, NodeType
  <2>. QED BY <1>2, <2>1, <2>2, IssueStep DEF NewMillisecond
<1>3. ASSUME NEW p \in Process, SameMillisecond(p) PROVE IInv'
  <2>1. clock \in Int /\ clock >= 0 /\ clock = last[p] /\ ~waiting[p] /\ seq[p] \in 0..(Numbers - 1)
    BY <1>1, <1>3, SnowflakeAssumption DEF TypeOK, SameMillisecond, Usable, Free
  <2>2. clock \in Nat /\ seq[p] + 1 \in 0..(Numbers - 1)
    BY <1>3, <2>1, NodeType DEF SameMillisecond
  <2>. QED BY <1>3, <2>1, <2>2, IssueStep DEF SameMillisecond
<1>4. ASSUME NEW p \in Process, Exhausted(p) PROVE IInv'
  BY <1>4, ExhaustedStep
<1>5. ASSUME NEW p \in Process, NextMillisecond(p) PROVE IInv'
  <2>1. clock \in Int /\ last[p] \in Nat /\ clock > last[p]
    BY <1>1, <1>5, SnowflakeAssumption DEF TypeOK, IInv, NextMillisecond, Later
  <2>2. clock \in Nat /\ 0 \in 0..(Numbers - 1)
    BY <2>1, NodeType
  <2>. QED BY <1>5, <2>1, <2>2, IssueStep DEF NextMillisecond
<1>6. CASE SetClock
  <2>1. \A p \in Process : Own(p)'
    BY <1>6, Others, OfAll DEF SetClock
  <2>2. TypeOK'
    BY <1>1, <1>6 DEF TypeOK, SetClock
  <2>. QED BY <2>1, <2>2 DEF IInv, IdsIncrease, Own
<1>7. CASE UNCHANGED vars
  <2>1. \A p \in Process : Own(p)'
    BY <1>7, Others, OfAll DEF vars
  <2>2. TypeOK'
    BY <1>1, <1>7 DEF TypeOK, vars
  <2>. QED BY <2>1, <2>2 DEF IInv, IdsIncrease, Own
<1>. QED BY <1>2, <1>3, <1>4, <1>5, <1>6, <1>7 DEF Next

-------------------------------------------------------------------------------
\* The bound of every generator is above what it has returned, and what it has
\* returned increases.
THEOREM Invariant == Spec => []IInv
BY InitIInv, StepIInv, PTL DEF Spec

\* No identifier is returned twice (IdsAreUnique), whatever the clock does: not
\* by one process, where they increase, and not by two, whose digits differ.
THEOREM Uniqueness == Spec => []IdsAreUnique
<1>1. ASSUME IInv PROVE IdsAreUnique
  <2>. SUFFICES ASSUME NEW p \in Process, NEW q \in Process, NEW i \in DOMAIN log[p],
                       NEW j \in DOMAIN log[q], log[p][i] = log[q][j]
                PROVE  p = q /\ i = j
    BY DEF IdsAreUnique
  <2>1. PICK t \in 0..(Times - 1), s \in 0..(Numbers - 1) : log[p][i] = IdOf(p, t, s)
    BY <1>1 DEF IInv
  <2>2. PICK u \in 0..(Times - 1), v \in 0..(Numbers - 1) : log[q][j] = IdOf(q, u, v)
    BY <1>1 DEF IInv
  <2>3. t \in Nat /\ u \in Nat
    BY SnowflakeAssumption
  <2>4. p = q
    <3>1. IdOf(p, t, s) = IdOf(q, u, v)
      BY <2>1, <2>2
    <3>. QED BY <2>3, <3>1, Digits
  <2>5. log[p] \in Seq(Nat)
    BY <1>1 DEF IInv, TypeOK
  <2>6. i \in Nat /\ j \in Nat /\ log[p][i] \in Nat
    BY <2>4, <2>5
  <2>7. ~(i < j) /\ ~(j < i)
    BY <1>1, <2>4, <2>6 DEF IInv, IdsIncrease
  <2>. QED BY <2>4, <2>6, <2>7
<1>. QED BY <1>1, Invariant, PTL

\* The identifiers of one process increase (IdsIncrease).
THEOREM Increase == Spec => []IdsIncrease
<1>1. IInv => IdsIncrease
  BY DEF IInv
<1>. QED BY <1>1, Invariant, PTL

-------------------------------------------------------------------------------
\* The limit on logins.

LEMMA Quotient == ASSUME NEW m \in Nat, NEW w \in Nat \ {0}
                  PROVE  m \div w \in Nat /\ (m \div w) * w \in Nat
                         /\ (m \div w) * w <= m /\ m < (m \div w) * w + w
BY ProductIsNat

LEMMA NextMultiple == ASSUME NEW a \in Nat, NEW b \in Nat, NEW w \in Nat, a < b
                      PROVE  a * w + w <= b * w
<1>1. PICK d \in Nat : b = a + 1 + d
  <2>1. b - a - 1 \in Nat /\ b = a + 1 + (b - a - 1)
    OBVIOUS
  <2>. QED BY <2>1
<1>2. b * w = a * w + w + d * w
  BY <1>1
<1>3. d * w \in Nat /\ a * w \in Nat
  BY ProductIsNat
<1>. QED BY <1>2, <1>3

LEMMA FactorIsLess == ASSUME NEW a \in Nat, NEW w \in Nat \ {0}
                      PROVE  a * w \in Nat /\ a <= a * w
<1>1. w - 1 \in Nat /\ a * (w - 1) \in Nat
  BY ProductIsNat
<1>2. a * w = a * (w - 1) + a
  OBVIOUS
<1>. QED BY <1>1, <1>2

LEMMA QuotientRises == ASSUME NEW m \in Nat, NEW n \in Nat, NEW w \in Nat \ {0}, m <= n
                       PROVE  m \div w <= n \div w
<1>. DEFINE a == n \div w
            b == m \div w
<1>1. a \in Nat /\ b \in Nat /\ b * w <= m /\ n < a * w + w /\ a * w \in Nat /\ b * w \in Nat
  BY Quotient
<1>. HIDE DEF a, b
<1>2. ASSUME a < b PROVE FALSE
  BY <1>1, <1>2, NextMultiple
<1>3. b <= a
  BY <1>1, <1>2
<1>. QED BY <1>3 DEF a, b

\* A window later it is a later window.
LEMMA AWindowLater == ASSUME NEW m \in Nat, NEW n \in Nat, NEW w \in Nat \ {0}, m + w <= n
                      PROVE  m \div w < n \div w
<1>. DEFINE a == n \div w
            b == m \div w
<1>1. a \in Nat /\ b \in Nat /\ b * w <= m /\ n < a * w + w /\ a * w \in Nat /\ b * w \in Nat
  BY Quotient
<1>. HIDE DEF a, b
<1>2. ASSUME a <= b PROVE FALSE
  <2>1. a = b \/ a * w + w <= b * w
    BY <1>1, <1>2, NextMultiple
  <2>. QED BY <1>1, <2>1
<1>3. b < a
  BY <1>1, <1>2
<1>. QED BY <1>3 DEF a, b

\* The two windows that a window's time meets, and how long their keys are made
\* and counted.
LEMMA TwoWindows == ASSUME L!TypeOK
                    PROVE  /\ \A i \in {0, 1} : /\ L!Begins(i) \in Nat /\ L!Latest(i) \in Int
                                                /\ L!Span(i) \in Int
                                                /\ L!Span(i) = L!Latest(i) - L!Begins(i) + Delay
                                                /\ L!Span(i) <= Window - 1 + Delay
                           /\ L!Span(0) + L!Span(1) = Window - 2 + 2 * Delay
<1>. DEFINE f == mark \div Window
            g == f * Window
<1>1. Window \in Nat \ {0} /\ Delay \in Nat
  BY RateAssumption DEF L!Settings
<1>2. mark \in Nat
  BY <1>1 DEF L!TypeOK
<1>3. f \in Nat /\ g \in Nat /\ g <= mark /\ mark < g + Window
  BY <1>1, <1>2, Quotient
<1>4. L!First = f
  BY DEF L!First
<1>. HIDE DEF f
<1>5. (f + 1) * Window = g + Window
  BY <1>1, <1>3
<1>. HIDE DEF g
<1>6. /\ L!Begins(0) = mark /\ L!Latest(0) = g + Window - 1
      /\ L!Begins(1) = g + Window /\ L!Latest(1) = mark + Window - 1
  BY <1>1, <1>2, <1>3, <1>4, <1>5 DEF L!Begins, L!Latest
<1>7. \A i \in {0, 1} : L!Span(i) = L!Latest(i) - L!Begins(i) + Delay
  BY DEF L!Span
<1>. QED BY <1>1, <1>2, <1>3, <1>6, <1>7

\* In which of them a key is made.
LEMMA MadeIn == ASSUME L!TypeOK, NEW m \in Nat, m - mark \in 0..(Window - 1)
                PROVE  \E i \in {0, 1} : /\ m \div Window = L!First + i
                                         /\ L!Begins(i) <= m /\ m <= L!Latest(i)
<1>. DEFINE f == mark \div Window
            q == m \div Window
            g == f * Window
            h == q * Window
<1>1. Window \in Nat \ {0}
  BY RateAssumption DEF L!Settings
<1>2. mark \in Nat /\ mark <= m /\ m < mark + Window
  BY <1>1 DEF L!TypeOK
<1>3. f \in Nat /\ g \in Nat /\ g <= mark /\ mark < g + Window
  BY <1>1, <1>2, Quotient
<1>4. q \in Nat /\ h \in Nat /\ h <= m /\ m < h + Window
  BY <1>1, <1>2, Quotient
<1>5. f <= q
  BY <1>1, <1>2, QuotientRises
<1>6. L!First = f
  BY DEF L!First
<1>. HIDE DEF f, q
<1>7. (f + 1) * Window = g + Window /\ (f + 2) * Window = g + 2 * Window
  BY <1>1, <1>3
<1>8. q <= f + 1
  <2>1. ASSUME f + 1 < q PROVE FALSE
    <3>1. (f + 1) * Window + Window <= q * Window
      BY <1>1, <1>3, <1>4, <2>1, NextMultiple
    <3>2. g + Window + Window <= h
      BY <1>7, <3>1
    <3>. HIDE DEF g, h
    <3>. QED BY <1>1, <1>2, <1>3, <1>4, <3>2
  <2>. QED BY <1>3, <1>4, <2>1
<1>9. /\ L!Begins(0) = mark /\ L!Latest(0) = g + Window - 1
      /\ L!Begins(1) = g + Window /\ L!Latest(1) = mark + Window - 1
  <2>. HIDE DEF g
  <2>. QED BY <1>1, <1>2, <1>3, <1>6, <1>7 DEF L!Begins, L!Latest
<1>10. CASE q = f
  <2>1. h = g
    BY <1>10
  <2>. HIDE DEF g, h
  <2>2. q = f + 0 /\ L!Begins(0) <= m /\ m <= L!Latest(0)
    BY <1>1, <1>2, <1>3, <1>4, <1>9, <1>10, <2>1
  <2>. QED BY <1>6, <2>2 DEF q
<1>11. CASE q = f + 1
  <2>1. h = g + Window
    BY <1>7, <1>11
  <2>. HIDE DEF g, h
  <2>2. q = f + 1 /\ L!Begins(1) <= m /\ m <= L!Latest(1)
    BY <1>1, <1>2, <1>3, <1>4, <1>9, <1>11, <2>1
  <2>. QED BY <1>6, <2>2 DEF q
<1>. QED BY <1>3, <1>4, <1>5, <1>8, <1>10, <1>11

LEMMA LimitTypes == ASSUME L!TypeOK
                    PROVE  /\ Window \in Nat \ {0} /\ Delay \in Nat /\ MaxNow \in Nat
                           /\ Second \in Nat \ {0}
                           /\ now \in Nat /\ mark \in Nat
                           /\ L!First \in Nat
                           /\ \A s \in L!Subject : Limit[s] \in Nat
<1>1. Window \in Nat \ {0} /\ Delay \in Nat /\ MaxNow \in Nat /\ Second \in Nat \ {0}
  BY RateAssumption DEF L!Settings
<1>2. now \in Nat /\ mark \in Nat
  BY <1>1 DEF L!TypeOK
<1>3. L!First \in Nat
  BY <1>1, <1>2, Quotient DEF L!First
<1>. QED BY <1>1, <1>2, <1>3, RateAssumption DEF L!Settings

LEMMA IdleIsJob == L!Idle \in L!Job /\ L!Idle.pc = "idle"
BY RateAssumption DEF L!Idle, L!Job, L!Settings

\* What is to be counted: an address, perhaps after a name.
LEMMA TodoShape == ASSUME L!TypeOK, NEW r \in Req, L!Timely(r), login[r].pc # "idle"
                   PROVE  /\ Head(login[r].todo) \in L!Subject
                          /\ \/ Len(login[r].todo) = 1
                             \/ /\ Len(login[r].todo) = 2
                                /\ \E a \in Address : Tail(login[r].todo) = <<a>>
<1>. DEFINE todo == login[r].todo
<1>1. todo \in {<<>>} \union {<<a>> : a \in Address} \union (Name \X Address) /\ todo # <<>>
  BY DEF L!TypeOK, L!Job, L!Timely
<1>. HIDE DEF todo
<1>2. ASSUME NEW a \in Address, todo = <<a>>
      PROVE  Head(todo) \in L!Subject /\ Len(todo) = 1
  BY <1>2 DEF L!Subject
<1>3. ASSUME NEW n \in Name, NEW a \in Address, todo = <<n, a>>
      PROVE  Head(todo) \in L!Subject /\ Len(todo) = 2 /\ Tail(todo) = <<a>>
  BY <1>3 DEF L!Subject
<1>4. (\E a \in Address : todo = <<a>>) \/ \E n \in Name, a \in Address : todo = <<n, a>>
  BY <1>1
<1>. QED BY <1>2, <1>3, <1>4 DEF todo

LEMMA KeyType == ASSUME L!TypeOK, NEW r \in Req, L!Timely(r), login[r].pc # "idle"
                 PROVE  /\ L!KeyOf(r) \in L!Key /\ L!KeyOf(r)[1] \in L!Subject
                        /\ L!KeyOf(r) = <<L!KeyOf(r)[1], login[r].made \div Window>>
<1>1. login[r].made \in 0..MaxNow /\ MaxNow \in Nat /\ Window \in Nat \ {0}
  BY LimitTypes DEF L!TypeOK, L!Job
<1>2. login[r].made \in Nat /\ login[r].made <= MaxNow
  BY <1>1
<1>3. login[r].made \div Window <= MaxNow \div Window
  BY <1>1, <1>2, QuotientRises
<1>4. login[r].made \div Window \in Nat /\ MaxNow \div Window \in Nat
  BY <1>1, <1>2, Quotient
<1>5. login[r].made \div Window \in 0..(MaxNow \div Window)
  BY <1>3, <1>4
<1>6. Head(login[r].todo) \in L!Subject
  BY TodoShape
<1>. QED BY <1>5, <1>6 DEF L!KeyOf, L!Key

LEMMA StoreSets == ASSUME L!TypeOK, NEW k \in L!Key, L!Store(k)
                   PROVE  /\ count' \in [L!Key -> Nat] /\ until' \in [L!Key -> Nat]
                          /\ count'[k] = count[k] + 1 /\ until'[k] = now + Window
                          /\ \A m \in L!Key : m # k => count'[m] = count[m] /\ until'[m] = until[m]
<1>1. now + Window \in Nat /\ count[k] + 1 \in Nat
  BY LimitTypes DEF L!TypeOK
<1>. QED BY <1>1 DEF L!TypeOK, L!Store, L!Lifetime

\* The next key is made now.
LEMMA ProceedStep == ASSUME L!TypeOK, NEW r \in Req, L!Timely(r), login[r].pc = "hit", L!Proceed(r)
                     PROVE  /\ login' \in [Req -> L!Job]
                            /\ \A q \in Req : q # r => login'[q] = login[q]
                            /\ \/ login'[r].pc = "idle"
                               \/ /\ login'[r].pc = "hit" /\ login'[r].todo # <<>>
                                  /\ login'[r].made = now /\ login'[r].since = now
<1>1. login \in [Req -> L!Job] /\ now \in 0..MaxNow
  BY DEF L!TypeOK
<1>2. CASE Len(login[r].todo) = 1
  <2>1. login' = [login EXCEPT ![r] = L!Idle]
    BY <1>1, <1>2 DEF L!Proceed
  <2>. QED BY <1>1, <2>1, IdleIsJob
<1>3. ASSUME Len(login[r].todo) # 1, NEW a \in Address, Tail(login[r].todo) = <<a>>
      PROVE  /\ login' \in [Req -> L!Job]
             /\ \A q \in Req : q # r => login'[q] = login[q]
             /\ login'[r].pc = "hit" /\ login'[r].todo # <<>>
             /\ login'[r].made = now /\ login'[r].since = now
  <2>. DEFINE j == [login[r] EXCEPT !.todo = Tail(@), !.made = now, !.since = now]
  <2>1. login'[r] = j /\ login' = [login EXCEPT ![r] = login'[r]]
    BY <1>1, <1>3 DEF L!Proceed
  <2>2. login[r] \in L!Job
    BY <1>1
  <2>3. j \in L!Job /\ j.pc = "hit" /\ j.todo = <<a>> /\ j.made = now /\ j.since = now
    BY <1>1, <1>3, <2>2 DEF L!Job
  <2>4. <<a>> # <<>>
    OBVIOUS
  <2>. HIDE DEF j
  <2>5. login' \in [Req -> L!Job] /\ \A q \in Req : q # r => login'[q] = login[q]
    BY <1>1, <2>1, <2>3
  <2>. QED BY <2>1, <2>3, <2>4, <2>5
<1>. QED BY <1>2, <1>3, TodoShape

\* Another login is not concerned when a key is counted.
LEMMA OthersTimely == ASSUME L!TypeOK, NEW q \in Req, L!Timely(q), login'[q] = login[q],
                             UNCHANGED now,
                             UNCHANGED <<count, until>> \/ \E k \in L!Key : L!Store(k)
                      PROVE  L!Timely(q)'
<1>1. CASE UNCHANGED <<count, until>>
  BY <1>1 DEF L!Timely, L!KeyOf
<1>2. ASSUME NEW k \in L!Key, L!Store(k) PROVE L!Timely(q)'
  <2>1. L!KeyOf(q)' = L!KeyOf(q)
    BY DEF L!KeyOf
  <2>2. ASSUME login[q].pc = "ttl", count'[L!KeyOf(q)] > 0
        PROVE  until'[L!KeyOf(q)] >= login[q].made + Window
    <3>1. L!KeyOf(q) \in L!Key
      BY <2>2, KeyType
    <3>2. login[q].made \in Nat /\ login[q].since \in Nat /\ login[q].made <= now
      BY <2>2, LimitTypes DEF L!TypeOK, L!Timely, L!Job
    <3>3. CASE L!KeyOf(q) = k
      BY <1>2, <3>2, <3>3, LimitTypes, StoreSets
    <3>4. CASE L!KeyOf(q) # k
      BY <1>2, <2>2, <3>1, <3>4, StoreSets DEF L!Timely
    <3>. QED BY <3>3, <3>4
  <2>. QED BY <2>1, <2>2 DEF L!Timely
<1>. QED BY <1>1, <1>2

LEMMA SameTime == ASSUME UNCHANGED mark, NEW i \in {0, 1}
                  PROVE  /\ L!First' = L!First /\ L!Begins(i)' = L!Begins(i)
                         /\ L!Latest(i)' = L!Latest(i) /\ L!Span(i)' = L!Span(i)
BY DEF L!First, L!Begins, L!Latest, L!Span

\* When time passes a life of the key may end.
LEMMA TickKeepsPassed == ASSUME L!TypeOK, NEW s \in L!Subject, NEW i \in {0, 1}, NEW p \in Nat,
                                L!Accounted(s, i, p), L!Tick
                         PROVE  L!Accounted(s, i, p)'
<1>. DEFINE k == <<s, L!First + i>>
            b == L!Begins(i)
            e == L!Span(i)
            m == Limit[s]
<1>1. m \in Nat /\ Window \in Nat \ {0} /\ now \in Nat /\ b \in Nat /\ e \in Int
  BY LimitTypes, TwoWindows
<1>2. PICK n \in 0..now, x \in 0..m : L!Fits(s, i, p, n, x)
  BY DEF L!Accounted
<1>3. /\ p <= n * m + x
      /\ n > 0 \/ x > 0 => now >= b + n * Window
      /\ x > 0 => /\ k \in L!Key /\ x <= count[k] /\ until[k] >= b + (n + 1) * Window
                  /\ n * Window <= e
      /\ n > 0 => (n - 1) * Window <= e
  BY <1>2 DEF L!Fits
<1>4. UNCHANGED mark /\ now' = now + 1
  BY DEF L!Tick
<1>5. \A r \in L!Key : /\ until[r] \in Nat /\ count[r] \in Nat
                       /\ until[r] > now + 1 => until'[r] = until[r] /\ count'[r] = count[r]
  BY <1>4 DEF L!TypeOK, L!Tick
<1>6. ASSUME NEW u \in 0..(now + 1), NEW y \in 0..m,
             p <= u * m + y,
             u > 0 \/ y > 0 => now + 1 >= b + u * Window,
             y > 0 => /\ k \in L!Key /\ y <= count'[k] /\ until'[k] >= b + (u + 1) * Window
                      /\ u * Window <= e,
             u > 0 => (u - 1) * Window <= e
      PROVE  L!Accounted(s, i, p)'
  <2>1. L!Fits(s, i, p, u, y)'
    BY <1>4, <1>6, SameTime DEF L!Fits
  <2>. QED BY <1>4, <2>1 DEF L!Accounted
<1>. HIDE DEF k, b, e, m
<1>7. n \in Nat /\ n * Window \in Nat /\ n * m \in Nat /\ n \in 0..(now + 1)
  BY <1>1, ProductIsNat
<1>8. CASE x = 0 \/ until[k] > now + 1
  <2>1. n > 0 \/ x > 0 => now + 1 >= b + n * Window
    BY <1>1, <1>3, <1>7
  <2>2. x > 0 => /\ k \in L!Key /\ x <= count'[k] /\ until'[k] >= b + (n + 1) * Window
                 /\ n * Window <= e
    BY <1>3, <1>5, <1>8
  <2>. QED BY <1>3, <1>6, <1>7, <2>1, <2>2
<1>9. CASE x > 0 /\ ~(until[k] > now + 1)
  <2>1. (n + 1) * m = n * m + m /\ (n + 1) * Window = n * Window + Window
    BY <1>1, <1>7
  <2>2. p <= (n + 1) * m + 0
    BY <1>1, <1>3, <1>7, <2>1
  <2>3. now + 1 >= b + (n + 1) * Window
    <3>1. until[k] \in Nat
      BY <1>3, <1>5, <1>9
    <3>. QED BY <1>1, <1>3, <1>7, <1>9, <2>1, <3>1
  <2>4. n + 1 \in 0..(now + 1)
    <3>1. n <= n * Window
      BY <1>1, <1>7, FactorIsLess
    <3>. QED BY <1>1, <1>3, <1>7, <1>9, <3>1
  <2>5. ((n + 1) - 1) * Window <= e
    <3>1. (n + 1) - 1 = n
      BY <1>7
    <3>. QED BY <1>3, <1>9, <3>1
  <2>6. 0 \in 0..m /\ ~(0 > 0)
    BY <1>1
  <2>. QED BY <1>6, <2>2, <2>3, <2>4, <2>5, <2>6
<1>. QED BY <1>8, <1>9

\* When a key is counted it lives longer, and no count is lost.
LEMMA StoreKeepsPassed == ASSUME L!TypeOK, NEW s \in L!Subject, NEW i \in {0, 1}, NEW p \in Nat,
                                 L!Accounted(s, i, p), NEW key \in L!Key, L!Store(key),
                                 UNCHANGED <<now, mark>>
                          PROVE  L!Accounted(s, i, p)'
<1>. DEFINE k == <<s, L!First + i>>
            b == L!Begins(i)
<1>1. Window \in Nat \ {0} /\ now \in Nat /\ b \in Nat
  BY LimitTypes, TwoWindows
<1>2. PICK n \in 0..now, x \in 0..Limit[s] : L!Fits(s, i, p, n, x)
  BY DEF L!Accounted
<1>3. /\ p <= n * Limit[s] + x
      /\ n > 0 \/ x > 0 => now >= b + n * Window
      /\ x > 0 => /\ k \in L!Key /\ x <= count[k] /\ until[k] >= b + (n + 1) * Window
                  /\ n * Window <= L!Span(i)
      /\ n > 0 => (n - 1) * Window <= L!Span(i)
  BY <1>2 DEF L!Fits
<1>4. x > 0 => k \in L!Key /\ x <= count'[k] /\ until'[k] >= b + (n + 1) * Window
  <2>. SUFFICES ASSUME x > 0
                PROVE  k \in L!Key /\ x <= count'[k] /\ until'[k] >= b + (n + 1) * Window
    OBVIOUS
  <2>1. count[k] \in Nat /\ k \in L!Key
    BY <1>3 DEF L!TypeOK
  <2>2. (n + 1) * Window = n * Window + Window /\ n * Window \in Nat
    BY <1>1, ProductIsNat
  <2>. HIDE DEF k, b
  <2>3. CASE k = key
    <3>1. count'[k] = count[k] + 1 /\ until'[k] = now + Window
      BY <2>3, StoreSets
    <3>. QED BY <1>1, <1>2, <1>3, <2>1, <2>2, <3>1
  <2>4. CASE k # key
    <3>1. count'[k] = count[k] /\ until'[k] = until[k]
      BY <2>1, <2>4, StoreSets
    <3>. QED BY <1>3, <2>1, <3>1
  <2>. QED BY <2>3, <2>4
<1>5. L!Fits(s, i, p, n, x)'
  BY <1>3, <1>4, SameTime DEF L!Fits
<1>. QED BY <1>5 DEF L!Accounted

\* One more passes within the limit.
LEMMA HitPasses == ASSUME L!TypeOK, NEW s \in L!Subject, NEW i \in {0, 1}, NEW p \in Nat,
                          L!Accounted(s, i, p), <<s, L!First + i>> \in L!Key,
                          L!Store(<<s, L!First + i>>), UNCHANGED <<now, mark>>,
                          count[<<s, L!First + i>>] + 1 <= Limit[s],
                          L!Begins(i) <= now, now <= L!Latest(i) + Delay
                   PROVE  L!Accounted(s, i, p + 1)'
<1>. DEFINE k == <<s, L!First + i>>
            b == L!Begins(i)
            e == L!Span(i)
            m == Limit[s]
<1>1. /\ m \in Nat /\ Window \in Nat \ {0} /\ now \in Nat /\ b \in Nat /\ e \in Int
      /\ now - b <= e
  BY LimitTypes, TwoWindows
<1>2. PICK n \in 0..now, x \in 0..m : L!Fits(s, i, p, n, x)
  BY DEF L!Accounted
<1>3. /\ p <= n * m + x
      /\ n > 0 \/ x > 0 => now >= b + n * Window
      /\ x > 0 => k \in L!Key /\ x <= count[k]
      /\ n > 0 => (n - 1) * Window <= e
  BY <1>2 DEF L!Fits
<1>4. count[k] \in Nat
  BY DEF L!TypeOK
<1>5. count'[k] = count[k] + 1 /\ until'[k] = now + Window
  BY StoreSets
<1>6. k \in L!Key /\ count[k] + 1 <= m /\ b <= now
  OBVIOUS
<1>7. ASSUME NEW y \in 0..m, y > 0, p + 1 <= n * m + y,
             now >= b + n * Window, y <= count'[k],
             until'[k] >= b + (n + 1) * Window, n * Window <= e
      PROVE  L!Accounted(s, i, p + 1)'
  <2>1. L!Fits(s, i, p + 1, n, y)'
    BY <1>3, <1>6, <1>7, SameTime DEF L!Fits
  <2>. QED BY <2>1 DEF L!Accounted
<1>. HIDE DEF k, b, e, m
<1>8. n \in Nat /\ n * m \in Nat /\ n * Window \in Nat
  BY <1>1, ProductIsNat
<1>9. x + 1 \in 0..m /\ x + 1 > 0 /\ x + 1 <= count'[k] /\ p + 1 <= n * m + (x + 1)
  <2>1. x \in Nat /\ x <= count[k]
    BY <1>1, <1>3, <1>4
  <2>2. x + 1 \in 0..m /\ x + 1 > 0 /\ x + 1 <= count'[k]
    BY <1>1, <1>4, <1>5, <1>6, <2>1
  <2>. QED BY <1>3, <1>8, <2>1, <2>2
<1>10. now >= b + n * Window
  <2>1. CASE n = 0
    BY <1>1, <1>6, <2>1
  <2>2. CASE n > 0
    BY <1>3, <2>2
  <2>. QED BY <1>8, <2>1, <2>2
<1>11. (n + 1) * Window = n * Window + Window
  BY <1>1, <1>8
<1>12. until'[k] >= b + (n + 1) * Window /\ n * Window <= e
  BY <1>1, <1>5, <1>8, <1>10, <1>11
<1>. QED BY <1>7, <1>9, <1>10, <1>12

\* What the invariant says of the present windows, of one subject.
AllAccounted(s) == \E p \in 0..passed[s] : L!Accounted(s, 0, p) /\ L!Accounted(s, 1, passed[s] - p)

LEMMA LimitInit == L!Init => L!IInv
<1>. SUFFICES ASSUME L!Init PROVE L!IInv
  OBVIOUS
<1>1. Window \in Nat /\ MaxNow \in Nat /\ Logins \in Nat
  BY RateAssumption DEF L!Settings
<1>2. L!TypeOK
  <2>1. login \in [Req -> L!Job]
    BY IdleIsJob DEF L!Init
  <2>. QED BY <1>1, <2>1 DEF L!Init, L!TypeOK
<1>3. ASSUME NEW r \in Req PROVE L!Timely(r)
  BY IdleIsJob DEF L!Init, L!Timely
<1>4. ASSUME NEW s \in L!Subject PROVE AllAccounted(s)
  <2>1. passed[s] = 0 /\ Limit[s] \in Nat
    BY <1>2, LimitTypes DEF L!Init
  <2>2. ASSUME NEW i \in {0, 1} PROVE L!Accounted(s, i, 0)
    <3>1. L!Fits(s, i, 0, 0, 0)
      BY <2>1 DEF L!Fits
    <3>2. 0 \in 0..now /\ 0 \in 0..Limit[s]
      BY <2>1, <1>2, LimitTypes
    <3>. QED BY <3>1, <3>2 DEF L!Accounted
  <2>3. 0 \in 0..passed[s] /\ passed[s] - 0 = 0
    BY <2>1
  <2>. QED BY <2>2, <2>3 DEF AllAccounted
<1>. QED BY <1>2, <1>3, <1>4 DEF L!IInv, AllAccounted

\* A step that does not let the subject pass within the limit.
LEMMA NobodyPasses == ASSUME L!TypeOK, NEW s \in L!Subject, passed'[s] = passed[s], AllAccounted(s),
                             \A i \in {0, 1}, p \in Nat : L!Accounted(s, i, p) => L!Accounted(s, i, p)'
                      PROVE  AllAccounted(s)'
<1>1. passed[s] \in Nat
  BY DEF L!TypeOK
<1>2. PICK p \in 0..passed[s] : L!Accounted(s, 0, p) /\ L!Accounted(s, 1, passed[s] - p)
  BY DEF AllAccounted
<1>3. PICK q \in Nat : q = passed[s] - p /\ p \in Nat /\ L!Accounted(s, 1, q)
  BY <1>1, <1>2
<1>4. L!Accounted(s, 0, p)' /\ L!Accounted(s, 1, q)'
  BY <1>2, <1>3
<1>5. q = passed'[s] - p /\ p \in 0..passed'[s]
  BY <1>3
<1>. QED BY <1>4, <1>5 DEF AllAccounted

LEMMA SamePassed == ASSUME UNCHANGED <<now, count, until, mark>>, NEW s \in L!Subject,
                           NEW i \in {0, 1}, NEW p \in Nat, L!Accounted(s, i, p)
                    PROVE  L!Accounted(s, i, p)'
<1>1. PICK n \in 0..now, x \in 0..Limit[s] : L!Fits(s, i, p, n, x)
  BY DEF L!Accounted
<1>2. L!Fits(s, i, p, n, x)'
  BY <1>1, SameTime DEF L!Fits
<1>. QED BY <1>2 DEF L!Accounted

LEMMA LoginStep == ASSUME L!IInv, NEW r \in Req, L!Login(r) PROVE L!IInv'
<1>1. L!TypeOK /\ login \in [Req -> L!Job] /\ now \in Nat /\ Delay \in Nat
  BY LimitTypes DEF L!IInv, L!TypeOK
<1>2. PICK n \in Name, a \in Address :
         login' = [login EXCEPT ![r] = [pc |-> "hit", todo |-> <<n, a>>, made |-> now, since |-> now]]
  BY DEF L!Login
<1>3. /\ login'[r] = [pc |-> "hit", todo |-> <<n, a>>, made |-> now, since |-> now]
      /\ \A q \in Req : q # r => login'[q] = login[q]
  BY <1>1, <1>2
<1>4. L!TypeOK'
  <2>1. [pc |-> "hit", todo |-> <<n, a>>, made |-> now, since |-> now] \in L!Job
    BY <1>1 DEF L!Job, L!TypeOK
  <2>2. login' \in [Req -> L!Job]
    BY <1>1, <1>2, <2>1
  <2>3. begun' \in 0..Logins
    BY <1>1, RateAssumption DEF L!Login, L!TypeOK, L!Settings
  <2>. QED BY <1>1, <2>2, <2>3 DEF L!TypeOK, L!Login
<1>5. ASSUME NEW q \in Req PROVE L!Timely(q)'
  <2>1. CASE q = r
    <3>1. <<n, a>> # <<>>
      OBVIOUS
    <3>2. now' = now
      BY DEF L!Login
    <3>. QED BY <1>1, <1>3, <2>1, <3>1, <3>2 DEF L!Timely
  <2>2. CASE q # r
    BY <1>1, <1>3, <2>2, OthersTimely DEF L!IInv, L!Login
  <2>. QED BY <2>1, <2>2
<1>6. ASSUME NEW s \in L!Subject PROVE AllAccounted(s)'
  BY <1>1, NobodyPasses, SamePassed DEF L!IInv, L!Login, AllAccounted
<1>. QED BY <1>4, <1>5, <1>6 DEF L!IInv, AllAccounted

LEMMA RefuseStep == ASSUME L!IInv, NEW r \in Req, L!Refuse(r) PROVE L!IInv'
<1>1. L!TypeOK /\ login \in [Req -> L!Job]
  BY DEF L!IInv, L!TypeOK
<1>2. /\ login' \in [Req -> L!Job] /\ login'[r].pc = "idle"
      /\ \A q \in Req : q # r => login'[q] = login[q]
  BY <1>1, IdleIsJob DEF L!Refuse
<1>3. L!TypeOK'
  BY <1>1, <1>2 DEF L!TypeOK, L!Refuse
<1>4. ASSUME NEW q \in Req PROVE L!Timely(q)'
  <2>1. CASE q = r
    BY <1>2, <2>1 DEF L!Timely
  <2>2. CASE q # r
    BY <1>1, <1>2, <2>2, OthersTimely DEF L!IInv, L!Refuse
  <2>. QED BY <2>1, <2>2
<1>5. ASSUME NEW s \in L!Subject PROVE AllAccounted(s)'
  BY <1>1, NobodyPasses, SamePassed DEF L!IInv, L!Refuse, AllAccounted
<1>. QED BY <1>3, <1>4, <1>5 DEF L!IInv, AllAccounted

\* What the login itself has become when its key has been looked at.
LEMMA Onward == ASSUME L!TypeOK, NEW r \in Req, UNCHANGED now,
                       \/ login'[r].pc = "idle"
                       \/ /\ login'[r].pc = "hit" /\ login'[r].todo # <<>>
                          /\ login'[r].made = now /\ login'[r].since = now
                PROVE  L!Timely(r)'
<1>1. now \in Nat /\ Delay \in Nat
  BY LimitTypes
<1>. QED BY <1>1 DEF L!Timely

LEMMA UnreachableStep == ASSUME L!IInv, NEW r \in Req, L!Unreachable(r) PROVE L!IInv'
<1>1. L!TypeOK /\ login \in [Req -> L!Job] /\ L!Timely(r) /\ login[r].pc = "hit"
  BY DEF L!IInv, L!TypeOK, L!Unreachable
<1>2. L!KeyOf(r) \in L!Key
  BY <1>1, KeyType
<1>3. UNCHANGED <<now, begun, mark, passed>>
  BY DEF L!Unreachable
<1>4. UNCHANGED <<count, until>> \/ L!Store(L!KeyOf(r))
  BY DEF L!Unreachable
<1>5. count' \in [L!Key -> Nat] /\ until' \in [L!Key -> Nat]
  BY <1>1, <1>2, <1>4, StoreSets DEF L!TypeOK
<1>6. /\ login' \in [Req -> L!Job]
      /\ \A q \in Req : q # r => login'[q] = login[q]
      /\ \/ login'[r].pc = "idle"
         \/ /\ login'[r].pc = "hit" /\ login'[r].todo # <<>>
            /\ login'[r].made = now /\ login'[r].since = now
  <2>1. CASE L!Proceed(r)
    BY <1>1, <2>1, ProceedStep
  <2>2. CASE login' = [login EXCEPT ![r] = L!Idle]
    BY <1>1, <2>2, IdleIsJob
  <2>. QED BY <2>1, <2>2 DEF L!Unreachable
<1>7. L!TypeOK'
  BY <1>1, <1>3, <1>5, <1>6 DEF L!TypeOK
<1>8. ASSUME NEW q \in Req PROVE L!Timely(q)'
  <2>1. CASE q = r
    BY <1>1, <1>3, <1>6, <2>1, Onward
  <2>2. CASE q # r
    BY <1>1, <1>2, <1>3, <1>4, <1>6, <2>2, OthersTimely DEF L!IInv
  <2>. QED BY <2>1, <2>2
<1>9. ASSUME NEW s \in L!Subject PROVE AllAccounted(s)'
  <2>1. ASSUME NEW i \in {0, 1}, NEW p \in Nat, L!Accounted(s, i, p) PROVE L!Accounted(s, i, p)'
    BY <1>1, <1>2, <1>3, <1>4, <2>1, SamePassed, StoreKeepsPassed
  <2>. QED BY <1>1, <1>3, <2>1, NobodyPasses DEF L!IInv, AllAccounted
<1>. QED BY <1>7, <1>8, <1>9 DEF L!IInv, AllAccounted

LEMMA ResendStep == ASSUME L!IInv, NEW r \in Req, L!Resend(r) PROVE L!IInv'
<1>1. L!TypeOK /\ L!Timely(r) /\ login[r].pc = "hit" /\ Logins \in Nat /\ begun \in 0..Logins
  BY RateAssumption DEF L!IInv, L!Resend, L!TypeOK, L!Settings
<1>2. L!KeyOf(r) \in L!Key
  BY <1>1, KeyType
<1>3. UNCHANGED <<now, login, mark, passed>> /\ L!Store(L!KeyOf(r))
  BY DEF L!Resend
<1>4. begun' \in 0..Logins
  BY <1>1 DEF L!Resend
<1>5. count' \in [L!Key -> Nat] /\ until' \in [L!Key -> Nat]
  BY <1>1, <1>2, <1>3, StoreSets
<1>6. L!TypeOK'
  BY <1>1, <1>3, <1>4, <1>5 DEF L!TypeOK
<1>7. ASSUME NEW q \in Req PROVE L!Timely(q)'
  BY <1>1, <1>2, <1>3, OthersTimely DEF L!IInv
<1>8. ASSUME NEW s \in L!Subject PROVE AllAccounted(s)'
  <2>1. ASSUME NEW i \in {0, 1}, NEW p \in Nat, L!Accounted(s, i, p) PROVE L!Accounted(s, i, p)'
    BY <1>1, <1>2, <1>3, <2>1, StoreKeepsPassed
  <2>. QED BY <1>1, <1>3, <2>1, NobodyPasses DEF L!IInv, AllAccounted
<1>. QED BY <1>6, <1>7, <1>8 DEF L!IInv, AllAccounted

\* A subject is counted: it passes, or the limit is exceeded.
LEMMA HitStep == ASSUME L!IInv, NEW r \in Req, L!Hit(r) PROVE L!IInv'
<1>. DEFINE k == L!KeyOf(r)
            m == login[r].made
<1>1. L!TypeOK /\ login \in [Req -> L!Job] /\ L!Timely(r) /\ login[r].pc = "hit"
  BY DEF L!IInv, L!TypeOK, L!Hit
<1>2. k \in L!Key /\ k[1] \in L!Subject /\ k = <<k[1], m \div Window>>
  BY <1>1, KeyType
<1>3. UNCHANGED <<now, begun, mark>> /\ L!Store(k)
  BY DEF L!Hit
<1>4. now \in 0..MaxNow /\ now \in Nat /\ Delay \in Nat /\ Window \in Nat \ {0}
  BY <1>1, LimitTypes DEF L!TypeOK
<1>5. m \in Nat /\ m <= now /\ now <= m + Delay /\ login[r].todo # <<>>
  <2>1. m \in 0..MaxNow /\ login[r].since = m /\ login[r].since <= now /\ now - login[r].since <= Delay
    BY <1>1 DEF L!TypeOK, L!Job, L!Timely
  <2>2. login[r].todo # <<>>
    BY <1>1 DEF L!Timely
  <2>. QED BY <1>4, <2>1, <2>2
<1>6. /\ count' \in [L!Key -> Nat] /\ until' \in [L!Key -> Nat]
      /\ count'[k] = count[k] + 1 /\ until'[k] = now + Window
  BY <1>1, <1>2, <1>3, StoreSets
<1>7. CASE L!Within(k[1], count[k] + 1)
  <2>1. /\ L!Proceed(r)
        /\ passed' = [passed EXCEPT ![k[1]] = IF m - mark \in 0..(Window - 1) THEN @ + 1 ELSE @]
    BY <1>7 DEF L!Hit
  <2>2. /\ login' \in [Req -> L!Job]
        /\ \A q \in Req : q # r => login'[q] = login[q]
        /\ \/ login'[r].pc = "idle"
           \/ /\ login'[r].pc = "hit" /\ login'[r].todo # <<>>
              /\ login'[r].made = now /\ login'[r].since = now
    BY <1>1, <2>1, ProceedStep
  <2>3. passed' \in [L!Subject -> Nat]
    BY <1>1, <1>2, <2>1 DEF L!TypeOK
  <2>4. L!TypeOK'
    BY <1>1, <1>3, <1>6, <2>2, <2>3 DEF L!TypeOK
  <2>5. ASSUME NEW q \in Req PROVE L!Timely(q)'
    <3>1. CASE q = r
      BY <1>1, <1>3, <2>2, <3>1, Onward
    <3>2. CASE q # r
      BY <1>1, <1>2, <1>3, <2>2, <3>2, OthersTimely DEF L!IInv
    <3>. QED BY <3>1, <3>2
  <2>6. ASSUME NEW s \in L!Subject, NEW i \in {0, 1}, NEW p \in Nat, L!Accounted(s, i, p)
        PROVE  L!Accounted(s, i, p)'
    BY <1>1, <1>2, <1>3, <2>6, StoreKeepsPassed
  <2>7. ASSUME NEW s \in L!Subject PROVE AllAccounted(s)'
    <3>1. CASE s # k[1] \/ m - mark \notin 0..(Window - 1)
      <4>1. passed'[s] = passed[s]
        BY <1>1, <1>2, <2>1, <3>1 DEF L!TypeOK
      <4>. QED BY <1>1, <2>6, <4>1, NobodyPasses DEF L!IInv, AllAccounted
    <3>2. CASE s = k[1] /\ m - mark \in 0..(Window - 1)
      <4>1. PICK i \in {0, 1} : /\ m \div Window = L!First + i
                                /\ L!Begins(i) <= m /\ m <= L!Latest(i)
        BY <1>1, <1>5, <3>2, MadeIn
      <4>2. k = <<s, L!First + i>>
        BY <1>2, <3>2, <4>1
      <4>3. passed[s] \in Nat /\ passed'[s] = passed[s] + 1
        BY <1>1, <1>2, <2>1, <3>2 DEF L!TypeOK
      <4>4. PICK p \in 0..passed[s] : L!Accounted(s, 0, p) /\ L!Accounted(s, 1, passed[s] - p)
        BY DEF L!IInv
      <4>5. L!Begins(i) <= now /\ now <= L!Latest(i) + Delay
        <5>1. L!Begins(i) \in Nat /\ L!Latest(i) \in Int
          BY <1>1, TwoWindows
        <5>. QED BY <1>4, <1>5, <4>1, <5>1
      <4>6. count[<<s, L!First + i>>] + 1 <= Limit[s]
        BY <1>7, <3>2, <4>2 DEF L!Within
      <4>7. ASSUME NEW n \in Nat, L!Accounted(s, i, n) PROVE L!Accounted(s, i, n + 1)'
        <5>. HIDE DEF k, m
        <5>. QED BY <1>1, <1>2, <1>3, <4>2, <4>5, <4>6, <4>7, HitPasses
      <4>8. PICK q \in Nat : q = passed[s] - p /\ p \in Nat /\ L!Accounted(s, 1, q)
        BY <4>3, <4>4
      <4>9. CASE i = 0
        <5>1. L!Accounted(s, 0, p + 1)' /\ L!Accounted(s, 1, q)'
          BY <2>6, <4>4, <4>7, <4>8, <4>9
        <5>2. p + 1 \in 0..passed'[s] /\ passed'[s] - (p + 1) = q
          BY <4>3, <4>8
        <5>. QED BY <5>1, <5>2 DEF AllAccounted
      <4>10. CASE i = 1
        <5>1. L!Accounted(s, 0, p)' /\ L!Accounted(s, 1, q + 1)'
          BY <2>6, <4>4, <4>7, <4>8, <4>10
        <5>2. p \in 0..passed'[s] /\ passed'[s] - p = q + 1
          BY <4>3, <4>8
        <5>. QED BY <5>1, <5>2 DEF AllAccounted
      <4>. QED BY <4>9, <4>10
    <3>. QED BY <3>1, <3>2
  <2>. QED BY <2>4, <2>5, <2>7 DEF L!IInv, AllAccounted
<1>8. CASE ~L!Within(k[1], count[k] + 1)
  <2>1. UNCHANGED passed /\ login' = [login EXCEPT ![r].pc = "ttl", ![r].since = now]
    BY <1>8 DEF L!Hit
  <2>2. /\ login'[r].pc = "ttl" /\ login'[r].todo = login[r].todo
        /\ login'[r].made = m /\ login'[r].since = now
        /\ \A q \in Req : q # r => login'[q] = login[q]
    BY <1>1, <2>1 DEF L!Job
  <2>3. login' \in [Req -> L!Job]
    <3>1. [login[r] EXCEPT !.pc = "ttl", !.since = now] \in L!Job
      BY <1>1, <1>4 DEF L!Job
    <3>. QED BY <1>1, <1>4, <2>1, <3>1 DEF L!Job
  <2>4. L!TypeOK'
    BY <1>1, <1>3, <1>6, <2>1, <2>3 DEF L!TypeOK
  <2>5. ASSUME NEW q \in Req PROVE L!Timely(q)'
    <3>1. CASE q = r
      <4>1. L!KeyOf(r)' = k
        BY <2>2 DEF L!KeyOf
      <4>2. until'[k] >= m + Window
        BY <1>4, <1>5, <1>6
      <4>. HIDE DEF k, m
      <4>. QED BY <1>3, <1>4, <1>5, <2>2, <3>1, <4>1, <4>2 DEF L!Timely
    <3>2. CASE q # r
      BY <1>1, <1>2, <1>3, <2>2, <3>2, OthersTimely DEF L!IInv
    <3>. QED BY <3>1, <3>2
  <2>6. ASSUME NEW s \in L!Subject PROVE AllAccounted(s)'
    <3>1. ASSUME NEW i \in {0, 1}, NEW p \in Nat, L!Accounted(s, i, p) PROVE L!Accounted(s, i, p)'
      BY <1>1, <1>2, <1>3, <3>1, StoreKeepsPassed
    <3>. QED BY <1>1, <2>1, <3>1, NobodyPasses DEF L!IInv, AllAccounted
  <2>. QED BY <2>4, <2>5, <2>6 DEF L!IInv, AllAccounted
<1>. QED BY <1>7, <1>8

LEMMA TickStep == ASSUME L!IInv, L!Tick PROVE L!IInv'
<1>1. L!TypeOK /\ now \in 0..MaxNow /\ now \in Nat /\ MaxNow \in Nat /\ Delay \in Nat
  BY LimitTypes DEF L!IInv, L!TypeOK
<1>2. now' = now + 1 /\ now < MaxNow /\ UNCHANGED <<begun, login, mark, passed>>
  BY DEF L!Tick
<1>3. /\ until' = [k \in L!Key |-> IF until[k] > now + 1 THEN until[k] ELSE 0]
      /\ count' = [k \in L!Key |-> IF until[k] > now + 1 THEN count[k] ELSE 0]
  BY <1>2 DEF L!Tick
<1>4. L!TypeOK'
  <2>1. count' \in [L!Key -> Nat] /\ until' \in [L!Key -> Nat]
    BY <1>1, <1>3 DEF L!TypeOK
  <2>2. now' \in 0..MaxNow
    BY <1>1, <1>2
  <2>. QED BY <1>1, <1>2, <2>1, <2>2 DEF L!TypeOK
<1>5. ASSUME NEW r \in Req PROVE L!Timely(r)'
  <2>. SUFFICES ASSUME login[r].pc # "idle" PROVE L!Timely(r)'
    BY <1>2 DEF L!Timely
  <2>1. login[r].since \in Nat /\ login[r].made \in Nat /\ now - login[r].since < Delay
    BY <1>1, LimitTypes DEF L!Tick, L!TypeOK, L!Job
  <2>2. L!KeyOf(r) \in L!Key
    BY <1>1, KeyType DEF L!IInv
  <2>3. L!KeyOf(r)' = L!KeyOf(r)
    BY <1>2 DEF L!KeyOf
  <2>4. count'[L!KeyOf(r)] > 0 => /\ count[L!KeyOf(r)] > 0
                                  /\ until'[L!KeyOf(r)] = until[L!KeyOf(r)]
    BY <1>3, <2>2
  <2>. QED BY <1>1, <1>2, <2>1, <2>3, <2>4 DEF L!Timely, L!IInv
<1>6. ASSUME NEW s \in L!Subject PROVE AllAccounted(s)'
  BY <1>1, <1>2, NobodyPasses, TickKeepsPassed DEF L!IInv, AllAccounted
<1>. QED BY <1>4, <1>5, <1>6 DEF L!IInv, AllAccounted

LEMMA LimitStep == L!IInv /\ [L!Next]_VarsL => L!IInv'
<1>. SUFFICES ASSUME L!IInv, [L!Next]_VarsL PROVE L!IInv'
  OBVIOUS
<1>1. CASE UNCHANGED VarsL
  <2>1. L!TypeOK'
    BY <1>1 DEF VarsL, L!TypeOK, L!IInv
  <2>2. ASSUME NEW r \in Req PROVE L!Timely(r)'
    BY <1>1 DEF VarsL, L!Timely, L!KeyOf, L!IInv
  <2>3. ASSUME NEW s \in L!Subject PROVE AllAccounted(s)'
    BY <1>1, NobodyPasses, SamePassed DEF VarsL, L!IInv, AllAccounted
  <2>. QED BY <2>1, <2>2, <2>3 DEF L!IInv, AllAccounted
<1>. QED BY <1>1, LoginStep, HitStep, ResendStep, UnreachableStep, RefuseStep, TickStep DEF L!Next

-------------------------------------------------------------------------------
\* The lives of a subject's keys that a window's time meets: each but the first
\* of a window begins a window after the one before.
LEMMA LivesAreFew == ASSUME L!IInv, NEW g \in Nat, NEW h \in Nat,
                            g > 0 => (g - 1) * Window <= L!Span(0),
                            h > 0 => (h - 1) * Window <= L!Span(1)
                     PROVE  L!MostLives \in Nat /\ g + h <= L!MostLives
<1>. DEFINE c == 3 * Window + 2 * Delay - 2
            u == L!Span(0)
            v == L!Span(1)
            a == g * Window
            d == h * Window
            q == c \div Window
<1>1. /\ Window \in Nat \ {0} /\ Delay \in Nat /\ u \in Int /\ v \in Int
      /\ u <= Window - 1 + Delay /\ v <= Window - 1 + Delay
      /\ u + v = Window - 2 + 2 * Delay
  BY LimitTypes, TwoWindows DEF L!IInv
<1>2. a \in Nat /\ d \in Nat /\ (g - 1) * Window = a - Window /\ (h - 1) * Window = d - Window
      /\ (g + h) * Window = a + d /\ (g = 0 => a = 0) /\ (h = 0 => d = 0)
  BY <1>1, ProductIsNat
<1>3. /\ g > 0 => a - Window <= u
      /\ h > 0 => d - Window <= v
  BY <1>2
<1>4. c \in Nat
  BY <1>1
<1>5. q \in Nat /\ c < q * Window + Window
  BY <1>1, <1>4, Quotient
<1>6. L!MostLives = q
  BY DEF L!MostLives
<1>. HIDE DEF u, v, a, d, q
<1>7. a + d <= c
  <2>1. CASE g > 0 /\ h > 0
    BY <1>1, <1>2, <1>3, <2>1
  <2>2. CASE g = 0
    BY <1>1, <1>2, <1>3, <2>2
  <2>3. CASE h = 0
    BY <1>1, <1>2, <1>3, <2>3
  <2>. QED BY <2>1, <2>2, <2>3
<1>. HIDE DEF c
<1>8. ASSUME q < g + h PROVE FALSE
  <2>1. q * Window + Window <= (g + h) * Window
    BY <1>1, <1>5, <1>8, NextMultiple
  <2>. QED BY <1>1, <1>2, <1>4, <1>5, <1>7, <2>1, ProductIsNat
<1>. QED BY <1>5, <1>6, <1>8

LEMMA NoMoreThanLives == L!IInv => L!PassesAreBounded
<1>. SUFFICES ASSUME L!IInv, NEW s \in L!Subject PROVE passed[s] <= L!MostLives * Limit[s]
  BY DEF L!PassesAreBounded
<1>. DEFINE m == Limit[s]
<1>1. L!TypeOK /\ m \in Nat /\ passed[s] \in Nat /\ now \in Nat /\ Window \in Nat \ {0}
  BY LimitTypes DEF L!IInv, L!TypeOK
<1>2. PICK p \in 0..passed[s] : L!Accounted(s, 0, p) /\ L!Accounted(s, 1, passed[s] - p)
  BY DEF L!IInv
<1>3. ASSUME NEW i \in {0, 1}, NEW q \in Nat, L!Accounted(s, i, q)
      PROVE  \E l \in Nat : q <= l * m /\ (l > 0 => (l - 1) * Window <= L!Span(i))
  <2>1. PICK n \in 0..now, x \in 0..m : L!Fits(s, i, q, n, x)
    BY <1>3 DEF L!Accounted
  <2>2. /\ q <= n * m + x
        /\ x > 0 => n * Window <= L!Span(i)
        /\ n > 0 => (n - 1) * Window <= L!Span(i)
    BY <2>1 DEF L!Fits
  <2>. HIDE DEF m
  <2>3. n \in Nat /\ n * m \in Nat /\ (n + 1) * m = n * m + m /\ (n + 1) - 1 = n
    BY <1>1, ProductIsNat
  <2>4. CASE x = 0
    <3>1. q <= n * m
      BY <1>1, <2>2, <2>3, <2>4
    <3>. QED BY <2>2, <2>3, <3>1
  <2>5. CASE x > 0
    <3>1. q <= (n + 1) * m
      BY <1>1, <2>2, <2>3
    <3>2. n + 1 \in Nat /\ ((n + 1) - 1) * Window <= L!Span(i)
      BY <2>2, <2>3, <2>5
    <3>. QED BY <3>1, <3>2
  <2>. QED BY <2>4, <2>5
<1>. DEFINE q == passed[s] - p
<1>4. p \in Nat /\ q \in Nat /\ passed[s] = p + q
  BY <1>1
<1>5. PICK g \in Nat : p <= g * m /\ (g > 0 => (g - 1) * Window <= L!Span(0))
  BY <1>2, <1>3, <1>4
<1>6. PICK h \in Nat : q <= h * m /\ (h > 0 => (h - 1) * Window <= L!Span(1))
  BY <1>2, <1>3, <1>4
<1>7. L!MostLives \in Nat /\ g + h <= L!MostLives
  BY <1>5, <1>6, LivesAreFew
<1>. HIDE DEF m, q
<1>8. p + q <= (g + h) * m
  BY <1>1, <1>4, <1>5, <1>6, ProductIsNat
<1>9. (g + h) * m <= L!MostLives * m
  <2>1. PICK z \in Nat : L!MostLives = (g + h) + z
    <3>1. L!MostLives - (g + h) \in Nat
      BY <1>7
    <3>. QED BY <1>7, <3>1
  <2>2. L!MostLives * m = (g + h) * m + z * m
    BY <1>1, <2>1
  <2>. QED BY <1>1, <2>2, ProductIsNat
<1>. QED BY <1>1, <1>4, <1>7, <1>8, <1>9, ProductIsNat DEF m

\* A time in whole seconds is less than a second short.
LEMMA WholeIsClose == ASSUME NEW t \in Int, Second \in Nat \ {0}, NEW n \in L!Whole(t)
                      PROVE  n \in Int /\ t <= n + Second
<1>. DEFINE g == Second \div 2
<1>1. g \in Nat
  OBVIOUS
<1>2. ASSUME NEW u \in Int, t <= u, n = (u \div Second) * Second
      PROVE  n \in Int /\ t <= n + Second
  <2>1. u \div Second \in Int /\ u < Second * (u \div Second) + Second
    BY <1>2
  <2>2. PICK q \in Int : q = u \div Second /\ u < Second * q + Second /\ n = q * Second
    BY <1>2, <2>1
  <2>3. q * Second = Second * q /\ q * Second \in Int
    OBVIOUS
  <2>. QED BY <1>2, <2>2, <2>3
<1>3. t + g \in Int /\ t <= t + g
  BY <1>1
<1>. HIDE DEF g
<1>4. n = (t \div Second) * Second \/ n = ((t + g) \div Second) * Second
  BY DEF L!Whole, g
<1>. QED BY <1>2, <1>3, <1>4

LEMMA WaitingIsEnough == L!IInv => L!RetryIsEnough
<1>. SUFFICES ASSUME L!IInv, NEW r \in Req, login[r].pc = "ttl", NEW n \in L!RetryAfter(L!KeyOf(r))
              PROVE  (now + n + Second) \div Window > login[r].made \div Window
  BY DEF L!RetryIsEnough
<1>. DEFINE k == L!KeyOf(r)
            m == login[r].made
<1>1. L!TypeOK /\ L!Timely(r) /\ now \in Nat /\ Window \in Nat \ {0}
      /\ Second \in Nat \ {0}
  BY LimitTypes DEF L!IInv
<1>2. m \in Nat /\ m <= now
  <2>1. m \in Nat /\ login[r].since \in Nat
    BY <1>1, LimitTypes DEF L!TypeOK, L!Job
  <2>2. m <= login[r].since /\ login[r].since <= now
    BY <1>1 DEF L!Timely
  <2>. QED BY <1>1, <2>1, <2>2
<1>3. k \in L!Key
  BY <1>1, KeyType
<1>4. until[k] \in Nat
  BY <1>1, <1>3 DEF L!TypeOK
<1>5. now + n + Second \in Nat /\ m + Window <= now + n + Second
  <2>1. CASE n = Window
    BY <1>1, <1>2, <2>1
  <2>2. CASE count[k] > 0 /\ n \in L!Whole(until[k] - now)
    <3>1. until[k] >= m + Window
      BY <1>1, <2>2 DEF L!Timely
    <3>2. n \in Int /\ until[k] - now <= n + Second
      BY <1>1, <1>4, <2>2, WholeIsClose
    <3>. QED BY <1>1, <1>2, <1>4, <3>1, <3>2
  <2>. QED BY <2>1, <2>2 DEF L!RetryAfter
<1>. HIDE DEF m
<1>6. m \div Window < (now + n + Second) \div Window
  BY <1>1, <1>2, <1>5, AWindowLater
<1>7. m \div Window \in Nat /\ (now + n + Second) \div Window \in Nat
  BY <1>1, <1>2, <1>5, Quotient
<1>. QED BY <1>6, <1>7 DEF m

\* Logins are counted in time, and what has passed in the windows at hand is
\* accounted for by the lives of their keys.
THEOREM LimitInvariant == MCSpec => []L!IInv
<1>1. MCInit => L!IInv
  BY LimitInit DEF MCInit
<1>2. L!IInv /\ [MCNext /\ UNCHANGED part]_<<part, vars, VarsP, VarsL, VarsD, VarsN>> => L!IInv'
  <2>1. ASSUME [MCNext /\ UNCHANGED part]_<<part, vars, VarsP, VarsL, VarsD, VarsN>>
        PROVE  [L!Next]_VarsL
    BY <2>1 DEF MCNext
  <2>. QED BY <2>1, LimitStep
<1>. QED BY <1>1, <1>2, PTL DEF MCSpec

\* In a window's time no subject is let pass more than MostLives times its limit,
\* for any limits and windows, any number of logins at once and a back end that
\* is late, counts twice or fails; and who waits as long as he was told, in whole
\* seconds, and a second longer, meets a later window (LimitHolds).
THEOREM LimitIsKept == MCSpec => []LimitHolds
<1>1. L!IInv => LimitHolds
  BY NoMoreThanLives, WaitingIsEnough DEF LimitHolds, L!LimitHolds
<1>. QED BY <1>1, LimitInvariant, PTL

-------------------------------------------------------------------------------
\* Inboxes.

\* The module that is instantiated has its own name for what is finite.
LEMMA SameFinite == ASSUME NEW S PROVE N!IsFiniteSet(S) <=> IsFiniteSet(S)
BY DEF N!IsFiniteSet, IsFiniteSet

LEMMA SameCardinality == ASSUME NEW S PROVE N!Cardinality(S) = Cardinality(S)
BY Zenon DEF N!Cardinality, Cardinality, N!IsFiniteSet, IsFiniteSet

NTables == <<active, posted, sent, inbox>>

LEMMA SameTables == ASSUME NEW q \in Req, N!Local(q), sender'[q] = sender[q], mail'[q] = mail[q],
                           UNCHANGED NTables
                    PROVE  N!Local(q)'
<1>. USE DEF NTables
<1>1. N!Phase(q)'
  BY DEF N!Local, N!Phase
<1>2. N!Flushed(q)'
  BY DEF N!Local, N!Flushed
<1>3. N!Written(q)'
  <2>1. ASSUME NEW j, NEW t, N!Wrote(j, t) PROVE N!Wrote(j, t)'
    BY <2>1 DEF N!Wrote, N!Letter, N!RowsOf
  <2>2. N!Wrote(sender[q], mail[q].inbox)
    BY DEF N!Local, N!Written
  <2>3. PICK j, t : j = sender[q] /\ t = mail[q].inbox
    OBVIOUS
  <2>4. N!Wrote(j, t)'
    BY <2>1, <2>2, <2>3
  <2>5. j = sender'[q] /\ t = mail'[q].inbox
    BY <2>3
  <2>. QED BY <2>4, <2>5 DEF N!Written
<1>4. N!Fresh(q)' <=> N!Fresh(q)
  BY DEF N!Fresh
<1>. QED BY <1>1, <1>2, <1>3, <1>4 DEF N!Local

LEMMA SameApart == ASSUME NEW q \in Req, NEW r \in Req, N!Apart(q, r),
                          sender'[q] = sender[q], mail'[q] = mail[q],
                          sender'[r] = sender[r], mail'[r] = mail[r]
                   PROVE  N!Apart(q, r)'
BY DEF N!Apart

\* A step before the commit: it is enough to look at the request that takes it.
LEMMA OwnStep == ASSUME N!IInv, NEW r \in Req, UNCHANGED NTables,
                        letters' \in 0..Letters, sender' \in [Req -> N!Job],
                        mail' = [q \in Req |-> mail'[q]], N!Txn(mail'[r]),
                        \A q \in Req : q # r => sender'[q] = sender[q] /\ mail'[q] = mail[q],
                        N!Local(r)', \A q \in Req : q # r => N!Apart(q, r)'
                 PROVE  N!IInv'
<1>1. ASSUME NEW q \in Req PROVE N!Txn(mail'[q])
  BY DEF N!IInv, N!TypeOK
<1>2. N!TypeOK'
  BY <1>1 DEF N!IInv, N!TypeOK, NTables, N!Txn, N!Maps, N!Key, N!Row, N!Job, N!State
<1>3. N!Withdrawals' /\ N!Tables'
  BY DEF N!IInv, N!Withdrawals, N!Withdrawn, N!Tables, NTables
<1>4. ASSUME NEW q \in Req PROVE N!Local(q)'
  BY SameTables DEF N!IInv
<1>5. ASSUME NEW q \in Req, NEW p \in Req, q # p PROVE N!Apart(q, p)'
  <2>1. CASE p = r
    BY <1>5, <2>1
  <2>2. CASE q = r
    <3>1. N!Apart(p, q)'
      BY <1>5, <2>2
    <3>. QED BY <3>1 DEF N!Apart
  <2>3. CASE p # r /\ q # r
    BY <1>5, <2>3, SameApart DEF N!IInv
  <2>. QED BY <2>1, <2>2, <2>3
<1>. QED BY <1>2, <1>3, <1>4, <1>5 DEF N!IInv

\* What a request remembers moves on,
LEMMA GoesOn == ASSUME N!TypeOK, NEW r \in Req, NEW c, N!Goto(r, c),
                       c \in {"idle", "status", "tell", "insert", "purge", "withdraw", "mark", "commit"}
                PROVE  /\ sender' \in [Req -> N!Job]
                       /\ \A q \in Req : q # r => sender'[q] = sender[q]
                       /\ sender'[r] = [sender[r] EXCEPT !.pc = c]
                       /\ sender'[r].pc = c /\ sender'[r].op = sender[r].op
                       /\ sender'[r].user = sender[r].user /\ sender'[r].key = sender[r].key
                       /\ sender'[r].was = sender[r].was /\ sender'[r].on = sender[r].on
                       /\ sender'[r].to = sender[r].to /\ sender'[r].names = sender[r].names
                       /\ sender'[r].when = sender[r].when /\ sender'[r].stale = sender[r].stale
<1>1. sender \in [Req -> N!Job]
  BY DEF N!TypeOK
<1>2. sender[r] \in N!Job
  BY <1>1
<1>3. sender'[r] = [sender[r] EXCEPT !.pc = c] /\ \A q \in Req : q # r => sender'[q] = sender[q]
  BY <1>1 DEF N!Goto
<1>4. [sender[r] EXCEPT !.pc = c] \in N!Job
  BY <1>2 DEF N!Job
<1>5. sender' \in [Req -> N!Job]
  BY <1>1, <1>3, <1>4 DEF N!Goto
<1>. QED BY <1>2, <1>3, <1>5 DEF N!Job

\* and so does what it has flushed.
LEMMA WritesInbox == ASSUME N!TypeOK, NEW r \in Req, NEW rows, N!Write(r, "inbox", rows),
                            N!Maps(rows, N!Key, N!Row)
                     PROVE  /\ UNCHANGED NTables /\ mail' = [q \in Req |-> mail'[q]] /\ N!Txn(mail'[r])
                            /\ \A q \in Req : q # r => mail'[q] = mail[q]
                            /\ mail'[r].inbox = rows /\ mail'[r].active = mail[r].active
                            /\ mail'[r].posted = mail[r].posted /\ mail'[r].sent = mail[r].sent
                            /\ \A q \in Req : q # r => DOMAIN rows \intersect DOMAIN mail[q].inbox = {}
<1>1. mail = [q \in Req |-> mail[q]] /\ N!Txn(mail[r])
  BY DEF N!TypeOK
<1>2. mail' = [mail EXCEPT ![r]["inbox"] = rows] /\ UNCHANGED NTables
  BY DEF N!Write, N!tables, NTables
<1>3. mail[r] = [active |-> mail[r].active, posted |-> mail[r].posted, sent |-> mail[r].sent,
                 inbox |-> mail[r].inbox]
  BY <1>1 DEF N!Txn
<1>4. mail'[r] = [active |-> mail[r].active, posted |-> mail[r].posted, sent |-> mail[r].sent,
                  inbox |-> rows]
  BY <1>1, <1>2, <1>3
<1>5. N!Txn(mail'[r])
  BY <1>1, <1>4 DEF N!Txn
<1>6. \A q \in Req : q # r => DOMAIN rows \intersect DOMAIN mail[q].inbox = {}
  BY DEF N!Write, N!Held
<1>7. mail' = [q \in Req |-> mail'[q]] /\ \A q \in Req : q # r => mail'[q] = mail[q]
  BY <1>1, <1>2
<1>. QED BY <1>2, <1>4, <1>5, <1>6, <1>7

LEMMA WritesActive == ASSUME N!TypeOK, NEW r \in Req, NEW rows, N!Write(r, "active", rows),
                             N!Maps(rows, User, BOOLEAN)
                      PROVE  /\ UNCHANGED NTables /\ mail' = [q \in Req |-> mail'[q]] /\ N!Txn(mail'[r])
                             /\ \A q \in Req : q # r => mail'[q] = mail[q]
                             /\ mail'[r].active = rows /\ mail'[r].inbox = mail[r].inbox
                             /\ mail'[r].posted = mail[r].posted /\ mail'[r].sent = mail[r].sent
<1>1. mail = [q \in Req |-> mail[q]] /\ N!Txn(mail[r])
  BY DEF N!TypeOK
<1>2. mail' = [mail EXCEPT ![r]["active"] = rows] /\ UNCHANGED NTables
  BY DEF N!Write, N!tables, NTables
<1>3. mail[r] = [active |-> mail[r].active, posted |-> mail[r].posted, sent |-> mail[r].sent,
                 inbox |-> mail[r].inbox]
  BY <1>1 DEF N!Txn
<1>4. mail'[r] = [active |-> rows, posted |-> mail[r].posted, sent |-> mail[r].sent,
                  inbox |-> mail[r].inbox]
  BY <1>1, <1>2, <1>3
<1>5. N!Txn(mail'[r])
  BY <1>1, <1>4 DEF N!Txn
<1>6. mail' = [q \in Req |-> mail'[q]] /\ \A q \in Req : q # r => mail'[q] = mail[q]
  BY <1>1, <1>2
<1>. QED BY <1>2, <1>4, <1>5, <1>6

LEMMA WritesPosted == ASSUME N!TypeOK, NEW r \in Req, NEW rows, N!Write(r, "posted", rows),
                             N!Maps(rows, Ann, N!State)
                      PROVE  /\ UNCHANGED NTables /\ mail' = [q \in Req |-> mail'[q]] /\ N!Txn(mail'[r])
                             /\ \A q \in Req : q # r => mail'[q] = mail[q]
                             /\ mail'[r].posted = rows /\ mail'[r].active = mail[r].active
                             /\ mail'[r].inbox = mail[r].inbox /\ mail'[r].sent = mail[r].sent
<1>1. mail = [q \in Req |-> mail[q]] /\ N!Txn(mail[r])
  BY DEF N!TypeOK
<1>2. mail' = [mail EXCEPT ![r]["posted"] = rows] /\ UNCHANGED NTables
  BY DEF N!Write, N!tables, NTables
<1>3. mail[r] = [active |-> mail[r].active, posted |-> mail[r].posted, sent |-> mail[r].sent,
                 inbox |-> mail[r].inbox]
  BY <1>1 DEF N!Txn
<1>4. mail'[r] = [active |-> mail[r].active, posted |-> rows, sent |-> mail[r].sent,
                  inbox |-> mail[r].inbox]
  BY <1>1, <1>2, <1>3
<1>5. N!Txn(mail'[r])
  BY <1>1, <1>4 DEF N!Txn
<1>6. mail' = [q \in Req |-> mail'[q]] /\ \A q \in Req : q # r => mail'[q] = mail[q]
  BY <1>1, <1>2
<1>. QED BY <1>2, <1>4, <1>5, <1>6

\* A request begins with what it has read first.
LEMMA Starts == ASSUME N!TypeOK, NEW r \in Req, NEW j \in N!Job, N!Begin(r, j)
                PROVE  /\ sender[r].pc = "idle"
                       /\ sender' \in [Req -> N!Job] /\ letters' \in 0..Letters /\ letters' # 0
                       /\ letters' = letters + 1
                       /\ \A q \in Req : q # r => sender'[q] = sender[q]
                       /\ sender'[r] = [j EXCEPT !.when = letters']
<1>1. letters \in Nat /\ Letters \in Nat /\ letters < Letters /\ letters' = letters + 1
  BY NoticesAssumption DEF N!Population, N!TypeOK, N!Begin
<1>2. letters' \in 0..Letters /\ letters' # 0
  BY <1>1
<1>3. sender \in [Req -> N!Job] /\ sender' = [sender EXCEPT ![r] = [j EXCEPT !.when = letters']]
  BY DEF N!TypeOK, N!Begin
<1>4. [j EXCEPT !.when = letters'] \in N!Job
  BY <1>2 DEF N!Job
<1>5. sender[r].pc = "idle"
  BY DEF N!Begin, N!At
<1>. QED BY <1>1, <1>2, <1>3, <1>4, <1>5

LEMMA NIdleIsJob == N!Idle \in N!Job
BY NoticesAssumption DEF N!Idle, N!Job, N!Population

LEMMA IdleHasNothing == ASSUME N!IInv, NEW r \in Req, sender[r].pc = "idle"
                        PROVE  /\ mail = [q \in Req |-> mail[q]] /\ N!Txn(mail[r])
                               /\ DOMAIN mail[r].active = {} /\ DOMAIN mail[r].posted = {}
                               /\ DOMAIN mail[r].sent = {} /\ DOMAIN mail[r].inbox = {}
BY DEF N!IInv, N!TypeOK, N!Local, N!Flushed, N!Written, N!Wrote

\* A request that has begun and flushed nothing.
LEMMA BeginStep == ASSUME N!IInv, NEW r \in Req, NEW j \in N!Job, N!Begin(r, j),
                          UNCHANGED <<NTables, mail>>,
                          N!Phase(r)', j.op # "readAll",
                          j.pc \in {"status", "insert", "purge", "mark", "commit"},
                          j.pc = "commit" => j.op = "read" /\ inbox[j.key].read # 0,
                          j.op = "status" => j.was = active[j.user],
                          j.op = "announce" => j.names = {u \in j.to : active[u]},
                          j.op = "read" /\ j.pc = "mark" => inbox[j.key].read = 0,
                          j.op = "announce" => \A q \in Req : sender[q].key # j.key
                   PROVE  N!IInv'
<1>1. N!TypeOK
  BY DEF N!IInv
<1>2. /\ sender[r].pc = "idle"
      /\ sender' \in [Req -> N!Job] /\ letters' \in 0..Letters /\ letters' # 0
      /\ \A q \in Req : q # r => sender'[q] = sender[q]
      /\ sender'[r] = [j EXCEPT !.when = letters']
  BY <1>1, Starts
<1>3. /\ mail' = mail /\ mail = [q \in Req |-> mail[q]] /\ N!Txn(mail[r])
      /\ DOMAIN mail[r].active = {} /\ DOMAIN mail[r].posted = {}
      /\ DOMAIN mail[r].sent = {} /\ DOMAIN mail[r].inbox = {}
  BY <1>2, IdleHasNothing
<1>0. PICK k \in N!Job : k = sender'[r]
  BY <1>2
<1>4. /\ k.op = j.op /\ k.pc = j.pc /\ k.user = j.user /\ k.key = j.key /\ k.was = j.was
      /\ k.on = j.on /\ k.to = j.to /\ k.names = j.names /\ k.stale = j.stale
  BY <1>0, <1>2 DEF N!Job
<1>5. N!Flushed(r)'
  <2>1. /\ DOMAIN mail'[r].active = {} /\ DOMAIN mail'[r].posted = {}
        /\ DOMAIN mail'[r].sent = {}
    BY <1>3
  <2>2. /\ ~(k.op = "status" /\ k.pc \in {"tell", "commit"} /\ k.was # k.on)
        /\ ~(k.op \in {"announce", "revoke"} /\ k.pc = "commit")
    BY <1>4
  <2>. QED BY <2>1, <2>2, <1>0 DEF N!Flushed
<1>6. N!Written(r)'
  <2>1. PICK t : t = mail'[r].inbox
    OBVIOUS
  <2>2. DOMAIN t = {} /\ inbox' = inbox
    BY <1>3, <2>1 DEF NTables
  <2>3. N!Wrote(k, t)'
    BY <1>4, <2>2 DEF N!Wrote
  <2>. QED BY <1>0, <2>1, <2>3 DEF N!Written
<1>7. N!Fresh(r)'
  <2>1. DOMAIN mail'[r].inbox = {} /\ inbox' = inbox /\ active' = active
    BY <1>3 DEF NTables
  <2>. QED BY <1>0, <1>4, <2>1 DEF N!Fresh
<1>8. ASSUME NEW q \in Req, q # r PROVE N!Apart(q, r)'
  BY <1>2, <1>3, <1>4, <1>8, <1>0 DEF N!Apart
<1>9. N!Local(r)'
  BY <1>5, <1>6, <1>7 DEF N!Local
<1>. QED BY <1>2, <1>3, <1>8, <1>9, OwnStep

LEMMA BeginStatusStep == ASSUME N!IInv, NEW r \in Req, NEW u \in User, NEW on \in BOOLEAN,
                                N!BeginStatus(r, u, on)
                         PROVE  N!IInv'
<1>. DEFINE j == [N!Idle EXCEPT !.op = "status", !.pc = "status", !.user = u, !.on = on,
                                !.was = active[u]]
<1>1. N!Begin(r, j) /\ UNCHANGED <<NTables, mail>>
  BY DEF N!BeginStatus, N!tables, NTables
<1>2. /\ j \in N!Job /\ j.op = "status" /\ j.pc = "status" /\ j.was = active[j.user]
      /\ j.user = u
  BY NIdleIsJob DEF N!IInv, N!TypeOK, N!Job, N!Idle
<1>. HIDE DEF j
<1>3. N!Phase(r)'
  <2>1. sender'[r] = [j EXCEPT !.when = letters']
    BY <1>1, <1>2, Starts DEF N!IInv
  <2>. QED BY <1>2, <2>1 DEF N!Phase, N!Job
<1>. QED BY <1>1, <1>2, <1>3, BeginStep

LEMMA BeginAnnounceStep == ASSUME N!IInv, NEW r \in Req, NEW n \in Ann, NEW S \in SUBSET User,
                                  N!BeginAnnounce(r, n, S)
                           PROVE  N!IInv'
<1>. DEFINE j == [N!Idle EXCEPT !.op = "announce", !.pc = "insert", !.key = n, !.to = S,
                                !.names = N!Audience(S)]
<1>1. /\ N!Begin(r, j) /\ UNCHANGED <<NTables, mail>>
      /\ posted[n] = "none" /\ \A q \in Req : sender[q].key # n
  BY DEF N!BeginAnnounce, N!tables, NTables
<1>2. /\ j \in N!Job /\ j.op = "announce" /\ j.pc = "insert" /\ j.key = n
      /\ j.names = {u \in j.to : active[u]}
  BY NIdleIsJob DEF N!Job, N!Idle, N!Audience
<1>. HIDE DEF j
<1>3. N!Phase(r)'
  <2>1. sender'[r] = [j EXCEPT !.when = letters']
    BY <1>1, <1>2, Starts DEF N!IInv
  <2>. QED BY <1>1, <1>2, <2>1 DEF N!Phase, N!Job, NTables
<1>. QED BY <1>1, <1>2, <1>3, BeginStep

LEMMA BeginRevokeStep == ASSUME N!IInv, NEW r \in Req, NEW n \in Ann, N!BeginRevoke(r, n)
                         PROVE  N!IInv'
<1>. DEFINE j == [N!Idle EXCEPT !.op = "revoke", !.pc = "purge", !.key = n]
<1>1. N!Begin(r, j) /\ UNCHANGED <<NTables, mail>> /\ posted[n] = "live"
  BY DEF N!BeginRevoke, N!tables, NTables
<1>2. j \in N!Job /\ j.op = "revoke" /\ j.pc = "purge" /\ j.key = n
  BY NIdleIsJob DEF N!Job, N!Idle
<1>. HIDE DEF j
<1>3. N!Phase(r)'
  <2>1. sender'[r] = [j EXCEPT !.when = letters']
    BY <1>1, <1>2, Starts DEF N!IInv
  <2>. QED BY <1>1, <1>2, <2>1 DEF N!Phase, N!Job, NTables
<1>. QED BY <1>1, <1>2, <1>3, BeginStep

LEMMA BeginReadStep == ASSUME N!IInv, NEW r \in Req, NEW k \in N!Key, N!BeginRead(r, k)
                       PROVE  N!IInv'
<1>. DEFINE j == [N!Idle EXCEPT !.op = "read", !.key = k,
                                !.pc = IF inbox[k].read = 0 THEN "mark" ELSE "commit"]
<1>1. N!Begin(r, j) /\ UNCHANGED <<NTables, mail>> /\ inbox[k].state = "live"
  BY DEF N!BeginRead, N!tables, NTables
<1>2. /\ j \in N!Job /\ j.op = "read" /\ j.key = k
      /\ j.pc = IF inbox[k].read = 0 THEN "mark" ELSE "commit"
  BY NIdleIsJob DEF N!Job, N!Idle
<1>. HIDE DEF j
<1>3. N!Phase(r)'
  <2>1. sender'[r] = [j EXCEPT !.when = letters'] /\ letters' # 0
    BY <1>1, <1>2, Starts DEF N!IInv
  <2>. QED BY <1>1, <1>2, <2>1 DEF N!Phase, N!Job, NTables
<1>. QED BY <1>1, <1>2, <1>3, BeginStep

\* All that is unread is locked and marked at once.
LEMMA MarkAllReadStep == ASSUME N!IInv, NEW r \in Req, NEW u \in User, N!MarkAllRead(r, u)
                         PROVE  N!IInv'
<1>. DEFINE j    == [N!Idle EXCEPT !.op = "readAll", !.pc = "commit", !.user = u]
            mine == {k \in N!Key : k[2] = u /\ inbox[k].state = "live" /\ inbox[k].read = 0}
            rows == [k \in mine |-> [inbox[k] EXCEPT !.read = letters']]
<1>1. N!Begin(r, j) /\ N!Write(r, "inbox", rows) /\ N!TypeOK
  BY DEF N!MarkAllRead, N!IInv
<1>2. j \in N!Job /\ j.op = "readAll" /\ j.pc = "commit" /\ j.user = u
  BY NIdleIsJob DEF N!Job, N!Idle
<1>. HIDE DEF j
<1>3. /\ sender[r].pc = "idle"
      /\ sender' \in [Req -> N!Job] /\ letters' \in 0..Letters /\ letters' # 0
      /\ \A q \in Req : q # r => sender'[q] = sender[q]
      /\ sender'[r] = [j EXCEPT !.when = letters']
  BY <1>1, <1>2, Starts
<1>4. N!Maps(rows, N!Key, N!Row)
  BY <1>1, <1>3 DEF N!Maps, N!TypeOK, N!Row
<1>5. PICK t : t = rows
  OBVIOUS
<1>6. PICK k \in N!Job : k = sender'[r]
  BY <1>3
<1>7. k.op = "readAll" /\ k.pc = "commit" /\ k.user = u /\ k.when = letters'
  BY <1>2, <1>3, <1>6 DEF N!Job
<1>8. /\ DOMAIN t = mine /\ DOMAIN t \subseteq N!Key
      /\ \A x \in N!Key : x \in DOMAIN t <=> x[2] = u /\ inbox[x].state = "live" /\ inbox[x].read = 0
      /\ \A x \in DOMAIN t : t[x] = [inbox[x] EXCEPT !.read = k.when]
  BY <1>5, <1>7
<1>. HIDE DEF mine, rows
<1>9. /\ UNCHANGED NTables /\ mail' = [q \in Req |-> mail'[q]] /\ N!Txn(mail'[r])
      /\ \A q \in Req : q # r => mail'[q] = mail[q]
      /\ mail'[r].inbox = t /\ mail'[r].active = mail[r].active
      /\ mail'[r].posted = mail[r].posted /\ mail'[r].sent = mail[r].sent
      /\ \A q \in Req : q # r => DOMAIN t \intersect DOMAIN mail[q].inbox = {}
  BY <1>1, <1>4, <1>5, WritesInbox
<1>10. /\ DOMAIN mail[r].active = {} /\ DOMAIN mail[r].posted = {} /\ DOMAIN mail[r].sent = {}
  BY <1>3, IdleHasNothing
<1>11. inbox' = inbox
  BY <1>9 DEF NTables
<1>12. N!Local(r)'
  <2>1. N!Phase(r)'
    BY <1>3, <1>6, <1>7 DEF N!Phase
  <2>2. N!Flushed(r)'
    BY <1>6, <1>7, <1>9, <1>10 DEF N!Flushed
  <2>3. N!Wrote(k, t)'
    BY <1>7, <1>8, <1>11 DEF N!Wrote
  <2>4. N!Written(r)'
    BY <1>6, <1>9, <2>3 DEF N!Written
  <2>5. N!Fresh(r)'
    BY <1>6, <1>7, <1>8, <1>9, <1>11 DEF N!Fresh
  <2>. QED BY <2>1, <2>2, <2>4, <2>5 DEF N!Local
<1>13. ASSUME NEW q \in Req, q # r PROVE N!Apart(q, r)'
  BY <1>3, <1>6, <1>7, <1>9, <1>13 DEF N!Apart
<1>. QED BY <1>3, <1>9, <1>12, <1>13, OwnStep

\* What a request at a given place is known to be.
LEMMA OpAt == ASSUME N!IInv, NEW r \in Req
              PROVE  /\ N!TypeOK /\ N!Local(r) /\ sender[r] \in N!Job
                     /\ mail = [q \in Req |-> mail[q]] /\ N!Txn(mail[r])
                     /\ sender[r].pc \in {"status", "tell"} =>
                          sender[r].op = "status" /\ sender[r].user \in User
                     /\ sender[r].pc = "insert" => sender[r].op = "announce" /\ sender[r].key \in Ann
                     /\ sender[r].pc \in {"purge", "withdraw"} =>
                          sender[r].op = "revoke" /\ sender[r].key \in Ann
                     /\ sender[r].pc = "mark" => sender[r].op = "read" /\ sender[r].key \in N!Key
BY DEF N!IInv, N!TypeOK, N!Local, N!Phase

LEMMA WriteStatusStep == ASSUME N!IInv, NEW r \in Req, N!WriteStatus(r) PROVE N!IInv'
<1>. DEFINE rows == N!To(IF sender[r].was = sender[r].on THEN {} ELSE {sender[r].user}, sender[r].on)
            c    == IF sender[r].was = sender[r].on THEN "commit" ELSE "tell"
<1>1. /\ sender[r].pc = "status" /\ N!Write(r, "active", rows) /\ N!Goto(r, c)
      /\ letters' = letters
  BY DEF N!WriteStatus, N!At
<1>2. /\ N!TypeOK /\ N!Local(r) /\ sender[r] \in N!Job /\ sender[r].op = "status"
      /\ sender[r].user \in User
  BY <1>1, OpAt
<1>3. PICK k \in N!Job : k = sender[r]
  BY <1>2
<1>4. PICK t : t = rows
  OBVIOUS
<1>5. /\ DOMAIN t = IF k.was = k.on THEN {} ELSE {k.user}
      /\ \A u \in DOMAIN t : t[u] = k.on
  BY <1>3, <1>4 DEF N!To
<1>6. N!Maps(rows, User, BOOLEAN)
  BY <1>2, <1>3, <1>4, <1>5 DEF N!Maps, N!Job
<1>. HIDE DEF rows
<1>7. /\ UNCHANGED NTables /\ mail' = [q \in Req |-> mail'[q]] /\ N!Txn(mail'[r])
      /\ \A q \in Req : q # r => mail'[q] = mail[q]
      /\ mail'[r].active = t /\ mail'[r].inbox = mail[r].inbox
      /\ mail'[r].posted = mail[r].posted /\ mail'[r].sent = mail[r].sent
  BY <1>1, <1>2, <1>4, <1>6, WritesActive
<1>8. /\ sender' \in [Req -> N!Job] /\ \A q \in Req : q # r => sender'[q] = sender[q]
      /\ sender'[r] = [k EXCEPT !.pc = c]
  BY <1>1, <1>2, <1>3, GoesOn
<1>9. PICK m \in N!Job : m = sender'[r]
  BY <1>8
<1>10. /\ m.pc = c /\ m.op = "status" /\ m.user = k.user /\ m.was = k.was /\ m.on = k.on
       /\ m.stale = k.stale /\ m.key = k.key /\ k.pc = "status"
  BY <1>1, <1>2, <1>3, <1>8, <1>9 DEF N!Job
<1>11. /\ DOMAIN mail[r].posted = {} /\ DOMAIN mail[r].sent = {} /\ DOMAIN mail[r].inbox = {}
  BY <1>1, <1>2 DEF N!Local, N!Flushed, N!Written, N!Wrote
<1>12. c = (IF k.was = k.on THEN "commit" ELSE "tell")
  BY <1>3
<1>. HIDE DEF c
<1>13. N!Local(r)'
  <2>1. N!Phase(r)'
    BY <1>2, <1>3, <1>9, <1>10, <1>12 DEF N!Phase
  <2>2. N!Flushed(r)'
    BY <1>5, <1>7, <1>9, <1>10, <1>11, <1>12 DEF N!Flushed
  <2>3. PICK i : i = mail'[r].inbox
    OBVIOUS
  <2>4. N!Wrote(m, i)'
    BY <1>7, <1>10, <1>11, <1>12, <2>3 DEF N!Wrote
  <2>5. N!Written(r)'
    BY <1>9, <2>3, <2>4 DEF N!Written
  <2>6. ~k.stale => k.was = active[k.user]
    BY <1>2, <1>3, <1>10 DEF N!Local, N!Fresh
  <2>7. m.stale \/ N!Fresh(r)'
    BY <1>7, <1>9, <1>10, <2>6 DEF N!Fresh, NTables
  <2>. QED BY <1>9, <2>1, <2>2, <2>5, <2>7 DEF N!Local
<1>14. ASSUME NEW q \in Req, q # r PROVE N!Apart(q, r)'
  BY <1>7, <1>8, <1>9, <1>10, <1>11, <1>14 DEF N!Apart
<1>15. letters' \in 0..Letters
  BY <1>1, <1>2 DEF N!TypeOK
<1>. QED BY <1>7, <1>8, <1>13, <1>14, <1>15, OwnStep

LEMMA TellStep == ASSUME N!IInv, NEW r \in Req, N!Tell(r) PROVE N!IInv'
<1>1. /\ sender[r].pc = "tell" /\ N!Goto(r, "commit") /\ letters' = letters
  BY DEF N!Tell, N!At
<1>2. PICK e \in Event :
        /\ \A u \in User : inbox[e, u].state = "none" /\ <<e, u>> \notin N!Held(r, "inbox")
        /\ N!Write(r, "inbox", N!To({<<e, sender[r].user>>}, [state |-> "live", read |-> 0]))
  BY DEF N!Tell
<1>3. /\ N!TypeOK /\ N!Local(r) /\ sender[r] \in N!Job /\ sender[r].op = "status"
      /\ sender[r].user \in User
  BY <1>1, OpAt
<1>4. PICK k \in N!Job : k = sender[r]
  BY <1>3
<1>5. PICK t : t = N!To({<<e, k.user>>}, [state |-> "live", read |-> 0])
  OBVIOUS
<1>6. DOMAIN t = {<<e, k.user>>} /\ t[e, k.user] = N!Letter
  BY <1>5 DEF N!To, N!Letter
<1>7. N!Maps(t, N!Key, N!Row)
  <2>1. <<e, k.user>> \in N!Key
    BY <1>3, <1>4 DEF N!Key
  <2>2. N!Letter \in N!Row
    BY NoticesAssumption DEF N!Letter, N!Row, N!State, N!Population
  <2>. QED BY <1>6, <2>1, <2>2 DEF N!Maps
<1>8. N!Write(r, "inbox", t)
  BY <1>2, <1>4, <1>5
<1>9. /\ UNCHANGED NTables /\ mail' = [q \in Req |-> mail'[q]] /\ N!Txn(mail'[r])
      /\ \A q \in Req : q # r => mail'[q] = mail[q]
      /\ mail'[r].inbox = t /\ mail'[r].active = mail[r].active
      /\ mail'[r].posted = mail[r].posted /\ mail'[r].sent = mail[r].sent
      /\ \A q \in Req : q # r => DOMAIN t \intersect DOMAIN mail[q].inbox = {}
  BY <1>3, <1>7, <1>8, WritesInbox
<1>10. /\ sender' \in [Req -> N!Job] /\ \A q \in Req : q # r => sender'[q] = sender[q]
       /\ sender'[r] = [k EXCEPT !.pc = "commit"]
  BY <1>1, <1>3, <1>4, GoesOn
<1>11. PICK m \in N!Job : m = sender'[r]
  BY <1>10
<1>12. /\ m.pc = "commit" /\ m.op = "status" /\ m.user = k.user /\ m.was = k.was /\ m.on = k.on
       /\ m.stale = k.stale /\ k.pc = "tell" /\ k.op = "status"
  BY <1>1, <1>3, <1>4, <1>10, <1>11 DEF N!Job
<1>13. k.was # k.on
  BY <1>3, <1>4, <1>12 DEF N!Local, N!Phase
<1>14. N!Local(r)'
  <2>1. N!Phase(r)'
    BY <1>3, <1>4, <1>11, <1>12 DEF N!Phase
  <2>2. N!Flushed(r)'
    BY <1>3, <1>4, <1>9, <1>11, <1>12 DEF N!Flushed, N!Local
  <2>3. inbox'[e, k.user].state = "none"
    BY <1>2, <1>3, <1>4, <1>9 DEF NTables
  <2>4. N!Wrote(m, t)'
    BY <1>6, <1>12, <1>13, <2>3 DEF N!Wrote
  <2>5. N!Written(r)'
    BY <1>9, <1>11, <2>4 DEF N!Written
  <2>6. ~k.stale => k.was = active[k.user]
    BY <1>3, <1>4, <1>12 DEF N!Local, N!Fresh
  <2>7. m.stale \/ N!Fresh(r)'
    BY <1>9, <1>11, <1>12, <2>6 DEF N!Fresh, NTables
  <2>. QED BY <1>11, <2>1, <2>2, <2>5, <2>7 DEF N!Local
<1>15. ASSUME NEW q \in Req, q # r PROVE N!Apart(q, r)'
  BY <1>9, <1>10, <1>11, <1>12, <1>15 DEF N!Apart
<1>16. letters' \in 0..Letters
  BY <1>1, <1>3 DEF N!TypeOK
<1>. QED BY <1>9, <1>10, <1>14, <1>15, <1>16, OwnStep

\* What a request j can have flushed, v, of the row k, which was o.
Flushes(j, k, o, v) ==
    \/ /\ j.op = "status" /\ j.pc = "commit" /\ j.was # j.on
       /\ k[1] \in Event /\ k[2] = j.user /\ o.state = "none" /\ v = N!Letter
    \/ /\ j.op = "announce" /\ j.pc = "commit" /\ j.key \in Ann /\ posted[j.key] = "none"
       /\ k[1] = j.key /\ k[2] \in j.names /\ o.state = "none" /\ v = N!Letter
    \/ /\ j.op = "revoke" /\ j.pc \in {"withdraw", "commit"} /\ k[1] = j.key
       /\ o.state = "live" /\ v = [o EXCEPT !.state = "gone"]
    \/ /\ j.op = "read" /\ j.pc = "commit" /\ k = j.key /\ j.when # 0
       /\ o.state # "none" /\ v = [o EXCEPT !.read = j.when]
    \/ /\ j.op = "readAll" /\ j.pc = "commit" /\ k[2] = j.user /\ j.when # 0
       /\ o.state = "live" /\ o.read = 0 /\ v = [o EXCEPT !.read = j.when]

LEMMA FlushedRow == ASSUME N!IInv, NEW q \in Req, NEW k \in DOMAIN mail[q].inbox
                    PROVE  /\ k \in N!Key /\ mail[q].inbox[k] \in N!Row /\ inbox[k] \in N!Row
                           /\ Flushes(sender[q], k, inbox[k], mail[q].inbox[k])
<1>1. N!TypeOK /\ N!Txn(mail[q]) /\ N!Local(q) /\ N!Tables
  BY DEF N!IInv, N!TypeOK
<1>2. k \in N!Key /\ mail[q].inbox[k] \in N!Row /\ inbox[k] \in N!Row
  BY <1>1 DEF N!Txn, N!Maps, N!TypeOK
<1>3. PICK j \in N!Job : j = sender[q]
  BY <1>1 DEF N!TypeOK
<1>4. PICK t : t = mail[q].inbox
  OBVIOUS
<1>5. N!Wrote(j, t) /\ N!Phase(q) /\ k \in DOMAIN t
  BY <1>1, <1>3, <1>4 DEF N!Local, N!Written
<1>6. j.pc \notin {"idle", "status", "tell", "insert", "purge", "mark"} /\ ~(j.op = "status" /\ j.was = j.on)
  BY <1>5 DEF N!Wrote
<1>7. ASSUME j.op = "status" PROVE Flushes(j, k, inbox[k], t[k])
  <2>1. j.pc = "commit" /\ j.was # j.on
    BY <1>3, <1>5, <1>6, <1>7 DEF N!Phase
  <2>2. PICK e \in Event : /\ DOMAIN t = {<<e, j.user>>} /\ t[<<e, j.user>>] = N!Letter
                           /\ inbox[<<e, j.user>>].state = "none"
    BY <1>5, <1>7, <2>1 DEF N!Wrote
  <2>3. k = <<e, j.user>>
    BY <1>5, <2>2
  <2>. QED BY <1>7, <2>1, <2>2, <2>3 DEF Flushes
<1>8. ASSUME j.op = "announce" PROVE Flushes(j, k, inbox[k], t[k])
  <2>1. j.pc = "commit" /\ j.key \in Ann /\ posted[j.key] = "none"
    BY <1>3, <1>5, <1>6, <1>8 DEF N!Phase
  <2>2. k \in {j.key} \X j.names /\ t[k] = N!Letter
    BY <1>5, <1>8, <2>1 DEF N!Wrote
  <2>3. k[1] = j.key /\ k[2] \in j.names /\ k = <<j.key, k[2]>> /\ k[2] \in User
    BY <2>2 DEF N!Job
  <2>4. inbox[k].state = "none"
    BY <1>1, <2>1, <2>3 DEF N!Tables
  <2>. QED BY <1>8, <2>1, <2>2, <2>3, <2>4 DEF Flushes
<1>9. ASSUME j.op = "revoke" PROVE Flushes(j, k, inbox[k], t[k])
  <2>1. j.pc \in {"withdraw", "commit"}
    BY <1>3, <1>5, <1>6, <1>9 DEF N!Phase
  <2>2. k \in {j.key} \X User /\ inbox[k].state = "live" /\ t[k] = [inbox[k] EXCEPT !.state = "gone"]
    BY <1>5, <1>9, <2>1 DEF N!Wrote
  <2>. QED BY <1>9, <2>1, <2>2 DEF Flushes
<1>10. ASSUME j.op = "read" PROVE Flushes(j, k, inbox[k], t[k])
  <2>1. j.pc = "commit" /\ j.when # 0 /\ inbox[j.key].state # "none"
    BY <1>3, <1>5, <1>6, <1>10 DEF N!Phase
  <2>2. k = j.key /\ t[k] = [inbox[k] EXCEPT !.read = j.when]
    BY <1>5, <1>10, <2>1 DEF N!Wrote
  <2>. QED BY <1>10, <2>1, <2>2 DEF Flushes
<1>11. ASSUME j.op = "readAll" PROVE Flushes(j, k, inbox[k], t[k])
  <2>1. j.pc = "commit" /\ j.when # 0
    BY <1>3, <1>5, <1>6, <1>11 DEF N!Phase
  <2>2. /\ k[2] = j.user /\ t[k] = [inbox[k] EXCEPT !.read = j.when]
        /\ inbox[k].state = "live" /\ inbox[k].read = 0
    BY <1>5, <1>11, <2>1 DEF N!Wrote
  <2>. QED BY <1>11, <2>1, <2>2 DEF Flushes
<1>12. j.op \in {"status", "announce", "revoke", "read", "readAll"}
  BY <1>3, <1>5, <1>6 DEF N!Phase
<1>13. Flushes(j, k, inbox[k], t[k])
  BY <1>7, <1>8, <1>9, <1>10, <1>11, <1>12
<1>. QED BY <1>2, <1>3, <1>4, <1>13

LEMMA FanOutStep == ASSUME N!IInv, NEW r \in Req, N!FanOut(r) PROVE N!IInv'
<1>1. /\ sender[r].pc = "insert" /\ N!Goto(r, "commit") /\ letters' = letters /\ UNCHANGED NTables
  BY DEF N!FanOut, N!At, N!tables, NTables
<1>2. /\ N!TypeOK /\ N!Local(r) /\ sender[r] \in N!Job /\ sender[r].op = "announce"
      /\ sender[r].key \in Ann /\ mail = [q \in Req |-> mail[q]] /\ N!Txn(mail[r])
  BY <1>1, OpAt
<1>3. PICK k \in N!Job : k = sender[r]
  BY <1>2
<1>4. /\ k.key \in Ann /\ k.pc = "insert" /\ k.op = "announce" /\ k.names \subseteq User
      /\ posted[k.key] = "none"
  BY <1>1, <1>2, <1>3 DEF N!Local, N!Phase, N!Job
<1>5. PICK t : t = N!To({k.key} \X k.names, [state |-> "live", read |-> 0])
  OBVIOUS
<1>6. PICK c : c = N!To({k.key}, N!Cardinality(k.names))
  OBVIOUS
<1>7. PICK p : p = N!To({k.key}, "live")
  OBVIOUS
<1>8. /\ DOMAIN t = {k.key} \X k.names /\ \A x \in DOMAIN t : t[x] = N!Letter
      /\ DOMAIN c = {k.key} /\ c[k.key] = N!Cardinality(k.names)
      /\ DOMAIN p = {k.key} /\ p[k.key] = "live"
  BY <1>5, <1>6, <1>7 DEF N!To, N!Letter
<1>9. mail[r] = [active |-> mail[r].active, posted |-> mail[r].posted, sent |-> mail[r].sent,
                 inbox |-> mail[r].inbox]
  BY <1>2 DEF N!Txn
<1>10. mail' = [mail EXCEPT ![r] = [@ EXCEPT !.posted = p, !.inbox = t, !.sent = c]]
  BY <1>3, <1>5, <1>6, <1>7 DEF N!FanOut
<1>11. /\ mail'[r] = [active |-> mail[r].active, posted |-> p, sent |-> c, inbox |-> t]
       /\ mail' = [q \in Req |-> mail'[q]] /\ \A q \in Req : q # r => mail'[q] = mail[q]
  BY <1>2, <1>9, <1>10
<1>12. N!Txn(mail'[r])
  <2>1. N!Maps(t, N!Key, N!Row)
    <3>1. N!Letter \in N!Row
      BY NoticesAssumption DEF N!Letter, N!Row, N!State, N!Population
    <3>2. {k.key} \X k.names \subseteq N!Key
      BY <1>4 DEF N!Key
    <3>. QED BY <1>8, <3>1, <3>2 DEF N!Maps
  <2>2. N!Maps(p, Ann, N!State)
    BY <1>4, <1>8 DEF N!Maps, N!State
  <2>3. N!Maps(c, Ann, 0..N!Cardinality(User))
    <3>1. IsFiniteSet(User)
      BY NoticesAssumption, SameFinite DEF N!Population
    <3>2. IsFiniteSet(k.names) /\ Cardinality(k.names) <= Cardinality(User)
      BY <1>4, <3>1, FS_Subset
    <3>3. N!Cardinality(k.names) \in 0..N!Cardinality(User)
      BY <3>1, <3>2, FS_CardinalityType, SameCardinality
    <3>. QED BY <1>4, <1>8, <3>3 DEF N!Maps
  <2>4. N!Maps(mail[r].active, User, BOOLEAN)
    BY <1>2 DEF N!Txn
  <2>. QED BY <1>11, <2>1, <2>2, <2>3, <2>4 DEF N!Txn
<1>13. /\ sender' \in [Req -> N!Job] /\ \A q \in Req : q # r => sender'[q] = sender[q]
       /\ sender'[r] = [k EXCEPT !.pc = "commit"]
  BY <1>1, <1>2, <1>3, GoesOn
<1>14. PICK m \in N!Job : m = sender'[r]
  BY <1>13
<1>15. /\ m.pc = "commit" /\ m.op = "announce" /\ m.key = k.key /\ m.names = k.names /\ m.to = k.to
       /\ m.stale = k.stale
  BY <1>4, <1>13, <1>14 DEF N!Job
<1>16. N!Local(r)'
  <2>1. N!Phase(r)'
    BY <1>1, <1>4, <1>14, <1>15 DEF N!Phase, NTables
  <2>2. DOMAIN mail[r].active = {}
    BY <1>2, <1>3, <1>4 DEF N!Local, N!Flushed
  <2>3. N!Flushed(r)'
    BY <1>8, <1>11, <1>14, <1>15, <2>2 DEF N!Flushed
  <2>4. N!Wrote(m, t)'
    BY <1>8, <1>15 DEF N!Wrote
  <2>5. N!Written(r)'
    BY <1>11, <1>14, <2>4 DEF N!Written
  <2>6. ~k.stale => k.names = {u \in k.to : active[u]}
    BY <1>2, <1>3, <1>4 DEF N!Local, N!Fresh
  <2>7. m.stale \/ N!Fresh(r)'
    BY <1>1, <1>14, <1>15, <2>6 DEF N!Fresh, NTables
  <2>. QED BY <1>14, <2>1, <2>3, <2>5, <2>7 DEF N!Local
<1>17. ASSUME NEW q \in Req, q # r PROVE N!Apart(q, r)'
  <2>1. N!Apart(q, r)
    BY <1>17 DEF N!IInv
  <2>2. ASSUME NEW x \in DOMAIN mail[q].inbox, x \in DOMAIN t PROVE FALSE
    <3>1. x[1] = k.key /\ x[2] \in User /\ x = <<k.key, x[2]>>
      BY <1>4, <1>8, <2>2
    <3>2. inbox[x].state = "none"
      BY <1>4, <3>1 DEF N!IInv, N!Tables
    <3>3. x[1] \notin Event
      BY <1>4, <3>1, NoticesAssumption DEF N!Population
    <3>4. sender[q].op = "announce" /\ sender[q].pc = "commit" /\ x[1] = sender[q].key
      BY <2>2, <3>2, <3>3, FlushedRow DEF Flushes
    <3>. QED BY <1>3, <1>4, <2>1, <3>1, <3>4 DEF N!Apart
  <2>3. DOMAIN mail'[q].inbox \intersect DOMAIN mail'[r].inbox = {}
    BY <1>11, <1>17, <2>2
  <2>. QED BY <1>3, <1>4, <1>13, <1>14, <1>15, <1>17, <2>1, <2>3 DEF N!Apart
<1>18. letters' \in 0..Letters
  BY <1>1, <1>2 DEF N!TypeOK
<1>. QED BY <1>1, <1>11, <1>12, <1>13, <1>16, <1>17, <1>18, OwnStep

\* The rows that are still in an inbox are taken out.
LEMMA PurgeStep == ASSUME N!IInv, NEW r \in Req, N!Purge(r) PROVE N!IInv'
<1>1. /\ sender[r].pc = "purge" /\ N!Goto(r, "withdraw") /\ letters' = letters
  BY DEF N!Purge, N!At
<1>2. /\ N!TypeOK /\ N!Local(r) /\ sender[r] \in N!Job /\ sender[r].op = "revoke"
      /\ sender[r].key \in Ann
  BY <1>1, OpAt
<1>3. PICK k \in N!Job : k = sender[r]
  BY <1>2
<1>4. k.key \in Ann /\ k.pc = "purge" /\ k.op = "revoke" /\ posted[k.key] # "none"
  BY <1>1, <1>2, <1>3 DEF N!Local, N!Phase
<1>5. PICK t : t = [x \in N!RowsOf(k.key) |-> [inbox[x] EXCEPT !.state = "gone"]]
  OBVIOUS
<1>6. /\ DOMAIN t = N!RowsOf(k.key)
      /\ \A x \in DOMAIN t : t[x] = [inbox[x] EXCEPT !.state = "gone"]
  BY <1>5
<1>7. /\ DOMAIN t \subseteq {k.key} \X User /\ DOMAIN t \subseteq N!Key
      /\ \A x \in DOMAIN t : inbox[x].state = "live"
  BY <1>4, <1>6 DEF N!RowsOf, N!Key
<1>8. N!Maps(t, N!Key, N!Row)
  BY <1>2, <1>6, <1>7 DEF N!Maps, N!TypeOK, N!Row, N!State
<1>9. N!Write(r, "inbox", t)
  BY <1>3, <1>5 DEF N!Purge
<1>10. /\ UNCHANGED NTables /\ mail' = [q \in Req |-> mail'[q]] /\ N!Txn(mail'[r])
       /\ \A q \in Req : q # r => mail'[q] = mail[q]
       /\ mail'[r].inbox = t /\ mail'[r].active = mail[r].active
       /\ mail'[r].posted = mail[r].posted /\ mail'[r].sent = mail[r].sent
       /\ \A q \in Req : q # r => DOMAIN t \intersect DOMAIN mail[q].inbox = {}
  BY <1>2, <1>8, <1>9, WritesInbox
<1>11. /\ sender' \in [Req -> N!Job] /\ \A q \in Req : q # r => sender'[q] = sender[q]
       /\ sender'[r] = [k EXCEPT !.pc = "withdraw"]
  BY <1>1, <1>2, <1>3, GoesOn
<1>12. PICK m \in N!Job : m = sender'[r]
  BY <1>11
<1>13. m.pc = "withdraw" /\ m.op = "revoke" /\ m.key = k.key
  BY <1>4, <1>11, <1>12 DEF N!Job
<1>14. N!Local(r)'
  <2>1. N!Phase(r)'
    BY <1>4, <1>10, <1>12, <1>13 DEF N!Phase, NTables
  <2>2. N!Flushed(r)'
    BY <1>2, <1>3, <1>4, <1>10, <1>12, <1>13 DEF N!Flushed, N!Local
  <2>3. inbox' = inbox
    BY <1>10 DEF NTables
  <2>4. \A x \in {k.key} \X User : inbox'[x].state = "live" => x \in DOMAIN t
    BY <1>6, <2>3 DEF N!RowsOf
  <2>5. N!Wrote(m, t)'
    BY <1>6, <1>7, <1>13, <2>3, <2>4 DEF N!Wrote, N!RowsOf
  <2>6. N!Written(r)'
    BY <1>10, <1>12, <2>5 DEF N!Written
  <2>7. N!Fresh(r)'
    BY <1>12, <1>13 DEF N!Fresh
  <2>. QED BY <2>1, <2>2, <2>6, <2>7 DEF N!Local
<1>15. ASSUME NEW q \in Req, q # r PROVE N!Apart(q, r)'
  BY <1>10, <1>11, <1>12, <1>13, <1>15 DEF N!Apart
<1>16. letters' \in 0..Letters
  BY <1>1, <1>2 DEF N!TypeOK
<1>. QED BY <1>10, <1>11, <1>14, <1>15, <1>16, OwnStep

LEMMA WithdrawStep == ASSUME N!IInv, NEW r \in Req, N!Withdraw(r) PROVE N!IInv'
<1>1. /\ sender[r].pc = "withdraw" /\ N!Goto(r, "commit") /\ letters' = letters
  BY DEF N!Withdraw, N!At
<1>2. /\ N!TypeOK /\ N!Local(r) /\ sender[r] \in N!Job /\ sender[r].op = "revoke"
      /\ sender[r].key \in Ann
  BY <1>1, OpAt
<1>3. PICK k \in N!Job : k = sender[r]
  BY <1>2
<1>4. k.key \in Ann /\ k.pc = "withdraw" /\ k.op = "revoke" /\ posted[k.key] # "none"
  BY <1>1, <1>2, <1>3 DEF N!Local, N!Phase
<1>5. PICK p : p = N!To({k.key}, "gone")
  OBVIOUS
<1>6. DOMAIN p = {k.key} /\ p[k.key] = "gone"
  BY <1>5 DEF N!To
<1>7. N!Maps(p, Ann, N!State)
  BY <1>4, <1>6 DEF N!Maps, N!State
<1>8. N!Write(r, "posted", p)
  BY <1>3, <1>5 DEF N!Withdraw
<1>9. /\ UNCHANGED NTables /\ mail' = [q \in Req |-> mail'[q]] /\ N!Txn(mail'[r])
      /\ \A q \in Req : q # r => mail'[q] = mail[q]
      /\ mail'[r].posted = p /\ mail'[r].active = mail[r].active
      /\ mail'[r].inbox = mail[r].inbox /\ mail'[r].sent = mail[r].sent
  BY <1>2, <1>7, <1>8, WritesPosted
<1>10. /\ sender' \in [Req -> N!Job] /\ \A q \in Req : q # r => sender'[q] = sender[q]
       /\ sender'[r] = [k EXCEPT !.pc = "commit"]
  BY <1>1, <1>2, <1>3, GoesOn
<1>11. PICK m \in N!Job : m = sender'[r]
  BY <1>10
<1>12. m.pc = "commit" /\ m.op = "revoke" /\ m.key = k.key
  BY <1>4, <1>10, <1>11 DEF N!Job
<1>13. N!Local(r)'
  <2>1. N!Phase(r)'
    BY <1>4, <1>9, <1>11, <1>12 DEF N!Phase, NTables
  <2>2. N!Flushed(r)'
    BY <1>2, <1>3, <1>4, <1>6, <1>9, <1>11, <1>12 DEF N!Flushed, N!Local
  <2>3. PICK t : t = mail[r].inbox
    OBVIOUS
  <2>4. N!Wrote(k, t) /\ inbox' = inbox /\ mail'[r].inbox = t
    BY <1>2, <1>3, <1>9, <2>3 DEF N!Local, N!Written, NTables
  <2>5. N!Wrote(m, t)'
    BY <1>4, <1>12, <2>4 DEF N!Wrote, N!RowsOf
  <2>6. N!Written(r)'
    BY <1>11, <2>4, <2>5 DEF N!Written
  <2>7. N!Fresh(r)'
    BY <1>11, <1>12 DEF N!Fresh
  <2>. QED BY <2>1, <2>2, <2>6, <2>7 DEF N!Local
<1>14. ASSUME NEW q \in Req, q # r PROVE N!Apart(q, r)'
  <2>1. N!Apart(q, r)
    BY <1>14 DEF N!IInv
  <2>. QED BY <1>9, <1>10, <1>11, <1>12, <1>14, <2>1 DEF N!Apart
<1>15. letters' \in 0..Letters
  BY <1>1, <1>2 DEF N!TypeOK
<1>. QED BY <1>9, <1>10, <1>13, <1>14, <1>15, OwnStep

LEMMA MarkReadStep == ASSUME N!IInv, NEW r \in Req, N!MarkRead(r) PROVE N!IInv'
<1>1. /\ sender[r].pc = "mark" /\ N!Goto(r, "commit") /\ letters' = letters
  BY DEF N!MarkRead, N!At
<1>2. /\ N!TypeOK /\ N!Local(r) /\ sender[r] \in N!Job /\ sender[r].op = "read"
      /\ sender[r].key \in N!Key
  BY <1>1, OpAt
<1>3. PICK k \in N!Job : k = sender[r]
  BY <1>2
<1>4. /\ k.key \in N!Key /\ k.pc = "mark" /\ k.op = "read" /\ k.when # 0
      /\ inbox[k.key].state # "none"
  BY <1>1, <1>2, <1>3 DEF N!Local, N!Phase
<1>5. PICK t : t = N!To({k.key}, [inbox[k.key] EXCEPT !.read = k.when])
  OBVIOUS
<1>6. DOMAIN t = {k.key} /\ t[k.key] = [inbox[k.key] EXCEPT !.read = k.when]
  BY <1>5 DEF N!To
<1>7. N!Maps(t, N!Key, N!Row)
  BY <1>2, <1>4, <1>6 DEF N!Maps, N!TypeOK, N!Row, N!Job
<1>8. N!Write(r, "inbox", t)
  BY <1>3, <1>5 DEF N!MarkRead
<1>9. /\ UNCHANGED NTables /\ mail' = [q \in Req |-> mail'[q]] /\ N!Txn(mail'[r])
      /\ \A q \in Req : q # r => mail'[q] = mail[q]
      /\ mail'[r].inbox = t /\ mail'[r].active = mail[r].active
      /\ mail'[r].posted = mail[r].posted /\ mail'[r].sent = mail[r].sent
      /\ \A q \in Req : q # r => DOMAIN t \intersect DOMAIN mail[q].inbox = {}
  BY <1>2, <1>7, <1>8, WritesInbox
<1>10. /\ sender' \in [Req -> N!Job] /\ \A q \in Req : q # r => sender'[q] = sender[q]
       /\ sender'[r] = [k EXCEPT !.pc = "commit"]
  BY <1>1, <1>2, <1>3, GoesOn
<1>11. PICK m \in N!Job : m = sender'[r]
  BY <1>10
<1>12. /\ m.pc = "commit" /\ m.op = "read" /\ m.key = k.key /\ m.when = k.when
       /\ m.stale = k.stale
  BY <1>4, <1>10, <1>11 DEF N!Job
<1>13. N!Local(r)'
  <2>1. inbox' = inbox
    BY <1>9 DEF NTables
  <2>2. N!Phase(r)'
    BY <1>4, <1>11, <1>12, <2>1 DEF N!Phase
  <2>3. N!Flushed(r)'
    BY <1>2, <1>3, <1>4, <1>9, <1>11, <1>12 DEF N!Flushed, N!Local
  <2>4. N!Wrote(m, t)'
    BY <1>6, <1>12, <2>1 DEF N!Wrote
  <2>5. N!Written(r)'
    BY <1>9, <1>11, <2>4 DEF N!Written
  <2>6. ~k.stale => inbox[k.key].read = 0
    BY <1>2, <1>3, <1>4 DEF N!Local, N!Fresh
  <2>7. m.stale \/ N!Fresh(r)'
    BY <1>9, <1>11, <1>12, <2>1, <2>6 DEF N!Fresh
  <2>. QED BY <1>11, <2>2, <2>3, <2>5, <2>7 DEF N!Local
<1>14. ASSUME NEW q \in Req, q # r PROVE N!Apart(q, r)'
  BY <1>9, <1>10, <1>11, <1>12, <1>14 DEF N!Apart
<1>15. letters' \in 0..Letters
  BY <1>1, <1>2 DEF N!TypeOK
<1>. QED BY <1>9, <1>10, <1>13, <1>14, <1>15, OwnStep

\* What is committed.
LEMMA CommitSets == ASSUME N!IInv, NEW r \in Req, N!Commit(r)
                    PROVE  /\ sender[r].pc = "commit" /\ letters' = letters
                           /\ sender'[r] = N!Idle /\ sender' \in [Req -> N!Job]
                           /\ \A q \in Req : q # r =>
                                sender'[q] = [sender[q] EXCEPT !.stale = sender[q].pc # "idle"]
                           /\ mail' = [q \in Req |-> mail'[q]] /\ mail'[r] = N!NoWrite
                           /\ \A q \in Req : q # r => mail'[q] = mail[q]
                           /\ active' \in [User -> BOOLEAN] /\ posted' \in [Ann -> N!State]
                           /\ sent' \in [Ann -> 0..N!Cardinality(User)] /\ inbox' \in [N!Key -> N!Row]
                           /\ \A u \in User : active'[u] = IF u \in DOMAIN mail[r].active
                                                           THEN mail[r].active[u] ELSE active[u]
                           /\ \A n \in Ann : posted'[n] = IF n \in DOMAIN mail[r].posted
                                                          THEN mail[r].posted[n] ELSE posted[n]
                           /\ \A n \in Ann : sent'[n] = IF n \in DOMAIN mail[r].sent
                                                        THEN mail[r].sent[n] ELSE sent[n]
                           /\ \A k \in N!Key : inbox'[k] = IF k \in DOMAIN mail[r].inbox
                                                           THEN mail[r].inbox[k] ELSE inbox[k]
<1>1. /\ active \in [User -> BOOLEAN] /\ posted \in [Ann -> N!State]
      /\ sent \in [Ann -> 0..N!Cardinality(User)] /\ inbox \in [N!Key -> N!Row]
      /\ sender \in [Req -> N!Job] /\ mail = [q \in Req |-> mail[q]] /\ N!Txn(mail[r])
  BY DEF N!IInv, N!TypeOK
<1>2. sender[r].pc = "commit" /\ letters' = letters
  BY DEF N!Commit, N!At
<1>3. sender' = [q \in Req |-> IF q = r THEN N!Idle
                               ELSE [sender[q] EXCEPT !.stale = sender[q].pc # "idle"]]
  BY DEF N!Commit
<1>4. sender' \in [Req -> N!Job]
  <2>1. ASSUME NEW q \in Req PROVE [sender[q] EXCEPT !.stale = sender[q].pc # "idle"] \in N!Job
    BY <1>1, ZenonT(40) DEF N!Job
  <2>. QED BY <1>3, <2>1, NIdleIsJob
<1>5. mail' = [mail EXCEPT ![r] = N!NoWrite]
  BY DEF N!Commit
<1>6. active' \in [User -> BOOLEAN]
      /\ \A u \in User : active'[u] = IF u \in DOMAIN mail[r].active THEN mail[r].active[u] ELSE active[u]
  <2>1. active' = [u \in User |-> IF u \in DOMAIN mail[r].active THEN mail[r].active[u] ELSE active[u]]
    BY <1>1 DEF N!Commit, N!Over
  <2>2. \A u \in DOMAIN mail[r].active : mail[r].active[u] \in BOOLEAN
    BY <1>1 DEF N!Txn, N!Maps
  <2>. QED BY <1>1, <2>1, <2>2
<1>7. posted' \in [Ann -> N!State]
      /\ \A n \in Ann : posted'[n] = IF n \in DOMAIN mail[r].posted THEN mail[r].posted[n] ELSE posted[n]
  <2>1. posted' = [n \in Ann |-> IF n \in DOMAIN mail[r].posted THEN mail[r].posted[n] ELSE posted[n]]
    BY <1>1 DEF N!Commit, N!Over
  <2>2. \A n \in DOMAIN mail[r].posted : mail[r].posted[n] \in N!State
    BY <1>1 DEF N!Txn, N!Maps
  <2>. QED BY <1>1, <2>1, <2>2
<1>8. sent' \in [Ann -> 0..N!Cardinality(User)]
      /\ \A n \in Ann : sent'[n] = IF n \in DOMAIN mail[r].sent THEN mail[r].sent[n] ELSE sent[n]
  <2>1. sent' = [n \in Ann |-> IF n \in DOMAIN mail[r].sent THEN mail[r].sent[n] ELSE sent[n]]
    BY <1>1 DEF N!Commit, N!Over
  <2>2. \A n \in DOMAIN mail[r].sent : mail[r].sent[n] \in 0..N!Cardinality(User)
    BY <1>1 DEF N!Txn, N!Maps
  <2>. QED BY <1>1, <2>1, <2>2
<1>9. inbox' \in [N!Key -> N!Row]
      /\ \A k \in N!Key : inbox'[k] = IF k \in DOMAIN mail[r].inbox THEN mail[r].inbox[k] ELSE inbox[k]
  <2>1. inbox' = [k \in N!Key |-> IF k \in DOMAIN mail[r].inbox THEN mail[r].inbox[k] ELSE inbox[k]]
    BY <1>1 DEF N!Commit, N!Over
  <2>2. \A k \in DOMAIN mail[r].inbox : mail[r].inbox[k] \in N!Row
    BY <1>1 DEF N!Txn, N!Maps
  <2>. QED BY <1>1, <2>1, <2>2
<1>. QED BY <1>1, <1>2, <1>3, <1>4, <1>5, <1>6, <1>7, <1>8, <1>9

\* What becomes of a row: it is sent, taken out or read, in this order.
LEMMA RowStep == ASSUME N!IInv, NEW r \in Req, N!Commit(r), NEW k \in N!Key
                 PROVE  LET j == sender[r]
                        IN  /\ k \notin DOMAIN mail[r].inbox => inbox'[k] = inbox[k]
                            /\ inbox[k].state # "none" => inbox'[k].state # "none"
                            /\ inbox'[k].state = "none" => inbox'[k] = inbox[k]
                            /\ inbox[k].state = "gone" => inbox'[k].state = "gone"
                            /\ inbox[k].read # 0 => inbox'[k].read # 0
                            /\ inbox[k].state = "none" /\ inbox'[k].state # "none" /\ k[1] \notin Event =>
                                 /\ j.op = "announce" /\ j.key \in Ann /\ posted[j.key] = "none"
                                 /\ k[1] = j.key /\ k[2] \in j.names
                            /\ inbox[k].state # "none" /\ inbox'[k].state = "live" => inbox[k].state = "live"
                            /\ j.op = "revoke" /\ k \in DOMAIN mail[r].inbox => inbox'[k].state = "gone"
<1>1. inbox'[k] = IF k \in DOMAIN mail[r].inbox THEN mail[r].inbox[k] ELSE inbox[k]
  BY CommitSets
<1>2. inbox[k] \in N!Row
  BY DEF N!IInv, N!TypeOK
<1>3. inbox[k].state = "none" => inbox[k].read = 0
  BY DEF N!IInv, N!Tables
<1>4. CASE k \notin DOMAIN mail[r].inbox
  <2>1. sender[r].op = "revoke" /\ k \in DOMAIN mail[r].inbox => FALSE
    BY <1>4
  <2>. QED BY <1>1, <1>2, <1>4, <2>1 DEF N!Row, N!State
<1>5. CASE k \in DOMAIN mail[r].inbox
  <2>1. PICK v : v = mail[r].inbox[k] /\ v = inbox'[k]
    BY <1>1, <1>5
  <2>2. PICK o \in N!Row : o = inbox[k]
    BY <1>2
  <2>3. PICK j : j = sender[r]
    OBVIOUS
  <2>4. Flushes(j, k, o, v)
    BY <1>5, <2>1, <2>2, <2>3, FlushedRow
  <2>5. o.state = "none" => o.read = 0
    BY <1>3, <2>2
  <2>6. N!Letter.state = "live" /\ N!Letter.read = 0
    BY DEF N!Letter
  <2>7. /\ o.state # "none" => v.state # "none"
        /\ v.state # "none"
        /\ o.state = "gone" => v.state = "gone"
        /\ o.read # 0 => v.read # 0
        /\ o.state = "none" /\ v.state # "none" /\ k[1] \notin Event =>
             /\ j.op = "announce" /\ j.key \in Ann /\ posted[j.key] = "none"
             /\ k[1] = j.key /\ k[2] \in j.names
        /\ o.state # "none" /\ v.state = "live" => o.state = "live"
        /\ j.op = "revoke" => v.state = "gone"
    BY <2>2, <2>4, <2>5, <2>6 DEF Flushes, N!Row, N!State
  <2>. QED BY <1>5, <2>1, <2>2, <2>3, <2>7
<1>. QED BY <1>4, <1>5

\* What becomes of an announcement.
LEMMA PostedStep == ASSUME N!IInv, NEW r \in Req, N!Commit(r), NEW n \in Ann
                    PROVE  LET j == sender[r]
                           IN  /\ j.op = "announce" /\ n = j.key =>
                                    /\ posted[n] = "none" /\ posted'[n] = "live"
                                    /\ sent'[n] = N!Cardinality(j.names)
                               /\ j.op = "revoke" /\ n = j.key => posted[n] # "none" /\ posted'[n] = "gone"
                               /\ ~(j.op \in {"announce", "revoke"} /\ n = j.key) => posted'[n] = posted[n]
                               /\ ~(j.op = "announce" /\ n = j.key) => sent'[n] = sent[n]
<1>1. /\ sender[r].pc = "commit"
      /\ posted'[n] = IF n \in DOMAIN mail[r].posted THEN mail[r].posted[n] ELSE posted[n]
      /\ sent'[n] = IF n \in DOMAIN mail[r].sent THEN mail[r].sent[n] ELSE sent[n]
  BY CommitSets
<1>2. N!Flushed(r) /\ N!Phase(r)
  BY DEF N!IInv, N!Local
<1>3. PICK j : j = sender[r]
  OBVIOUS
<1>4. /\ DOMAIN mail[r].posted = IF j.op \in {"announce", "revoke"} /\ j.pc = "commit" THEN {j.key} ELSE {}
      /\ \A x \in DOMAIN mail[r].posted : mail[r].posted[x] = IF j.op = "announce" THEN "live" ELSE "gone"
      /\ DOMAIN mail[r].sent = IF j.op = "announce" /\ j.pc = "commit" THEN {j.key} ELSE {}
      /\ \A x \in DOMAIN mail[r].sent : mail[r].sent[x] = N!Cardinality(j.names)
  BY <1>2, <1>3 DEF N!Flushed
<1>5. /\ j.op = "announce" => posted[j.key] = "none"
      /\ j.op = "revoke" => posted[j.key] # "none"
  BY <1>1, <1>2, <1>3 DEF N!Phase
<1>6. CASE j.op = "announce" /\ n = j.key
  BY <1>1, <1>3, <1>4, <1>5, <1>6
<1>7. CASE j.op = "revoke" /\ n = j.key
  BY <1>1, <1>3, <1>4, <1>5, <1>7
<1>8. CASE ~(j.op \in {"announce", "revoke"} /\ n = j.key)
  BY <1>1, <1>3, <1>4, <1>8
<1>. QED BY <1>3, <1>6, <1>7, <1>8

\* A commit leaves what it has published in order,
LEMMA CommitPublishes == ASSUME N!IInv, NEW r \in Req, N!Commit(r)
                         PROVE  N!Withdrawals' /\ N!Tables'
<1>1. PICK j : j = sender[r]
  OBVIOUS
<1>2. PICK t : t = mail[r].inbox
  OBVIOUS
<1>3. j.pc = "commit" /\ N!Wrote(j, t) /\ j \in N!Job
  BY <1>1, <1>2, CommitSets DEF N!IInv, N!Local, N!Written, N!TypeOK
<1>4. \A n \in Ann, u \in User : <<n, u>> \in N!Key /\ n \notin Event
  BY NoticesAssumption DEF N!Key, N!Population
<1>5. ASSUME NEW n \in Ann, NEW u \in User, posted'[n] = "gone"
      PROVE  inbox'[<<n, u>>].state # "live"
  <2>1. PICK k \in N!Key : k = <<n, u>> /\ k[1] = n /\ k[2] = u
    BY <1>4
  <2>2. CASE j.op = "revoke" /\ j.key = n
    <3>1. N!RowsOf(n) \subseteq DOMAIN t
      BY <1>3, <2>2 DEF N!Wrote
    <3>2. CASE k \in DOMAIN t
      <4>1. inbox'[k].state = "gone"
        BY <1>1, <1>2, <2>2, <3>2, RowStep
      <4>. QED BY <2>1, <4>1
    <3>3. CASE k \notin DOMAIN t
      <4>1. k \in {n} \X User
        BY <2>1
      <4>2. inbox[k].state # "live"
        BY <3>1, <3>3, <4>1 DEF N!RowsOf
      <4>3. inbox'[k] = inbox[k]
        BY <1>2, <3>3, RowStep
      <4>. QED BY <2>1, <4>2, <4>3
    <3>. QED BY <3>2, <3>3
  <2>3. CASE ~(j.op = "revoke" /\ j.key = n)
    <3>1. ~(j.op = "announce" /\ j.key = n) /\ posted[n] = "gone"
      BY <1>1, <1>5, <2>3, PostedStep
    <3>2. inbox[k].state # "live"
      BY <2>1, <3>1 DEF N!IInv, N!Withdrawals, N!Withdrawn
    <3>3. inbox[k].state = "none" => inbox'[k].state = "none"
      BY <1>1, <1>4, <2>1, <3>1, RowStep
    <3>4. inbox[k].state # "none" /\ inbox'[k].state = "live" => inbox[k].state = "live"
      BY RowStep
    <3>. QED BY <2>1, <3>2, <3>3, <3>4
  <2>. QED BY <2>2, <2>3
<1>6. ASSUME NEW n \in Ann
      PROVE  N!Cardinality({u \in User : inbox'[<<n, u>>].state # "none"}) = sent'[n]
  <2>1. CASE j.op = "announce" /\ j.key = n
    <3>1. posted[n] = "none" /\ sent'[n] = N!Cardinality(j.names)
      BY <1>1, <2>1, PostedStep
    <3>2. DOMAIN t = {n} \X j.names /\ \A k \in DOMAIN t : t[k] = N!Letter
      BY <1>3, <2>1 DEF N!Wrote
    <3>3. ASSUME NEW u \in User PROVE inbox'[<<n, u>>].state # "none" <=> u \in j.names
      <4>1. PICK k \in N!Key : k = <<n, u>> /\ k[1] = n /\ k[2] = u
        BY <1>4
      <4>2. inbox[k].state = "none"
        BY <3>1, <4>1 DEF N!IInv, N!Tables
      <4>3. inbox'[k] = IF k \in DOMAIN t THEN t[k] ELSE inbox[k]
        BY <1>2, CommitSets
      <4>4. k \in DOMAIN t <=> u \in j.names
        BY <3>2, <4>1
      <4>5. N!Letter.state # "none"
        BY DEF N!Letter
      <4>. QED BY <3>2, <4>1, <4>2, <4>3, <4>4, <4>5
    <3>4. j.names \subseteq User
      BY <1>3 DEF N!Job
    <3>5. {u \in User : inbox'[<<n, u>>].state # "none"} = j.names
      BY <3>3, <3>4
    <3>. QED BY <3>1, <3>5
  <2>2. CASE ~(j.op = "announce" /\ j.key = n)
    <3>1. sent'[n] = sent[n]
      BY <1>1, <2>2, PostedStep
    <3>2. ASSUME NEW u \in User
          PROVE  inbox'[<<n, u>>].state # "none" <=> inbox[<<n, u>>].state # "none"
      <4>1. PICK k \in N!Key : k = <<n, u>> /\ k[1] = n /\ k[2] = u
        BY <1>4
      <4>2. inbox[k].state = "none" => inbox'[k].state = "none"
        BY <1>1, <1>4, <2>2, <4>1, RowStep
      <4>3. inbox[k].state # "none" => inbox'[k].state # "none"
        BY RowStep
      <4>. QED BY <4>1, <4>2, <4>3
    <3>3. {u \in User : inbox'[<<n, u>>].state # "none"} = {u \in User : inbox[<<n, u>>].state # "none"}
      BY <3>2
    <3>4. N!Cardinality({u \in User : inbox[<<n, u>>].state # "none"}) = sent[n]
      BY DEF N!IInv, N!Withdrawals, N!Withdrawn
    <3>. QED BY <3>1, <3>3, <3>4
  <2>. QED BY <2>1, <2>2
<1>7. N!Withdrawals'
  BY <1>5, <1>6 DEF N!Withdrawals, N!Withdrawn
<1>8. ASSUME NEW k \in N!Key, inbox'[k].state = "none" PROVE inbox'[k].read = 0
  <2>1. inbox'[k] = inbox[k]
    BY <1>8, RowStep
  <2>. QED BY <1>8, <2>1 DEF N!IInv, N!Tables
<1>9. ASSUME NEW n \in Ann, NEW u \in User, posted'[n] = "none"
      PROVE  inbox'[<<n, u>>].state = "none"
  <2>1. PICK k \in N!Key : k = <<n, u>> /\ k[1] = n /\ k[2] = u
    BY <1>4
  <2>2. posted[n] = "none" /\ ~(j.op = "announce" /\ j.key = n)
    BY <1>1, <1>9, PostedStep
  <2>3. inbox[k].state = "none"
    BY <2>1, <2>2 DEF N!IInv, N!Tables
  <2>4. inbox'[k].state = "none"
    BY <1>1, <1>4, <2>1, <2>2, <2>3, RowStep
  <2>. QED BY <2>1, <2>4
<1>. QED BY <1>7, <1>8, <1>9 DEF N!Tables

\* and the others where they are.
LEMMA CommitSpares == ASSUME N!IInv, NEW r \in Req, N!Commit(r), NEW q \in Req, q # r
                      PROVE  N!Local(q)'
<1>1. PICK j \in N!Job : j = sender[r]
  BY DEF N!IInv, N!TypeOK
<1>2. PICK i \in N!Job : i = sender[q]
  BY DEF N!IInv, N!TypeOK
<1>3. PICK t : t = mail[q].inbox
  OBVIOUS
<1>4. sender'[q] = [i EXCEPT !.stale = i.pc # "idle"] /\ mail'[q] = mail[q] /\ j.pc = "commit"
  BY <1>1, <1>2, CommitSets
<1>5. PICK m : m = sender'[q]
  OBVIOUS
<1>6. /\ m.op = i.op /\ m.pc = i.pc /\ m.user = i.user /\ m.key = i.key /\ m.was = i.was
      /\ m.on = i.on /\ m.to = i.to /\ m.names = i.names /\ m.when = i.when
      /\ m.stale = (i.pc # "idle")
  BY <1>2, <1>4, <1>5 DEF N!Job
<1>7. N!Phase(q) /\ N!Flushed(q) /\ N!Wrote(i, t) /\ N!Txn(mail[q]) /\ N!Apart(q, r)
  BY <1>2, <1>3 DEF N!IInv, N!Local, N!Written, N!TypeOK
<1>8. DOMAIN t \subseteq N!Key /\ \A k \in DOMAIN t : inbox'[k] = inbox[k]
  <2>1. DOMAIN t \subseteq N!Key /\ DOMAIN t \intersect DOMAIN mail[r].inbox = {}
    BY <1>3, <1>7 DEF N!Txn, N!Maps, N!Apart
  <2>. QED BY <2>1, RowStep
<1>9. i.pc # "idle" /\ i.op = "announce" /\ i.key \in Ann /\ posted[i.key] = "none" =>
        posted'[i.key] = "none"
  <2>1. i.pc # "idle" /\ i.op = "announce" => ~(j.op = "announce" /\ i.key = j.key)
    BY <1>1, <1>2, <1>4, <1>7 DEF N!Apart
  <2>. QED BY <1>1, <2>1, PostedStep
<1>10. i.key \in Ann /\ posted[i.key] # "none" => posted'[i.key] # "none"
  BY <1>1, PostedStep
<1>11. i.key \in N!Key => /\ inbox[i.key].state # "none" => inbox'[i.key].state # "none"
                          /\ inbox[i.key].read # 0 => inbox'[i.key].read # 0
  BY RowStep
<1>12. N!Phase(q)'
  BY <1>2, <1>5, <1>6, <1>7, <1>9, <1>10, <1>11 DEF N!Phase
<1>13. N!Flushed(q)'
  BY <1>2, <1>4, <1>5, <1>6, <1>7 DEF N!Flushed
<1>14. i.op = "revoke" /\ i.pc # "idle" =>
         \A k \in {i.key} \X User : inbox'[k].state = "live" => inbox[k].state = "live"
  <2>. SUFFICES ASSUME i.op = "revoke", i.pc # "idle", NEW k \in {i.key} \X User,
                       inbox'[k].state = "live"
                PROVE  inbox[k].state = "live"
    OBVIOUS
  <2>1. i.key \in Ann /\ posted[i.key] # "none"
    BY <1>2, <1>7 DEF N!Phase
  <2>2. k \in N!Key /\ k[1] = i.key /\ k[1] \notin Event
    BY <2>1, NoticesAssumption DEF N!Key, N!Population
  <2>3. inbox[k].state # "none"
    BY <1>1, <2>1, <2>2, RowStep
  <2>. QED BY <2>2, <2>3, RowStep
<1>15. i.op = "read" /\ i.pc = "commit" => i.key \in N!Key
  BY <1>2, <1>7 DEF N!Phase
<1>16. N!Wrote(m, t)'
  <2>1. i.op = "status" /\ i.pc = "commit" /\ i.was # i.on =>
         \E e \in Event : /\ DOMAIN t = {<<e, i.user>>} /\ t[<<e, i.user>>] = N!Letter
                          /\ inbox'[<<e, i.user>>].state = "none"
    BY <1>7, <1>8 DEF N!Wrote
  <2>2. i.op = "revoke" /\ i.pc \in {"withdraw", "commit"} =>
          /\ {k \in {i.key} \X User : inbox'[k].state = "live"} \subseteq DOMAIN t
          /\ DOMAIN t \subseteq {i.key} \X User
          /\ \A k \in DOMAIN t : inbox'[k].state = "live" /\ t[k] = [inbox'[k] EXCEPT !.state = "gone"]
    <3>. SUFFICES ASSUME i.op = "revoke", i.pc \in {"withdraw", "commit"}
                  PROVE  /\ {k \in {i.key} \X User : inbox'[k].state = "live"} \subseteq DOMAIN t
                         /\ DOMAIN t \subseteq {i.key} \X User
                         /\ \A k \in DOMAIN t :
                              inbox'[k].state = "live" /\ t[k] = [inbox'[k] EXCEPT !.state = "gone"]
      OBVIOUS
    <3>1. /\ N!RowsOf(i.key) \subseteq DOMAIN t /\ DOMAIN t \subseteq {i.key} \X User
          /\ \A k \in DOMAIN t : inbox[k].state = "live" /\ t[k] = [inbox[k] EXCEPT !.state = "gone"]
      BY <1>7 DEF N!Wrote
    <3>2. \A k \in {i.key} \X User : inbox'[k].state = "live" => k \in N!RowsOf(i.key)
      BY <1>14 DEF N!RowsOf
    <3>. QED BY <1>8, <3>1, <3>2
  <2>3. i.op = "read" /\ i.pc = "commit" =>
          /\ DOMAIN t \subseteq {i.key} /\ (i.key \in DOMAIN t \/ inbox'[i.key].read # 0)
          /\ \A k \in DOMAIN t : t[k] = [inbox'[k] EXCEPT !.read = i.when]
    BY <1>7, <1>8, <1>11, <1>15 DEF N!Wrote
  <2>4. i.op = "readAll" /\ i.pc = "commit" =>
          \A k \in DOMAIN t : /\ k[2] = i.user /\ t[k] = [inbox'[k] EXCEPT !.read = i.when]
                              /\ inbox'[k].state = "live" /\ inbox'[k].read = 0
    BY <1>7, <1>8 DEF N!Wrote
  <2>5. /\ i.pc \in {"idle", "status", "tell", "insert", "purge", "mark"} => DOMAIN t = {}
        /\ i.op = "status" /\ i.was = i.on => DOMAIN t = {}
        /\ i.op = "announce" /\ i.pc = "commit" =>
             DOMAIN t = {i.key} \X i.names /\ \A k \in DOMAIN t : t[k] = N!Letter
    BY <1>7 DEF N!Wrote
  <2>6. N!Letter' = N!Letter /\ N!RowsOf(i.key)' = {k \in {i.key} \X User : inbox'[k].state = "live"}
    BY DEF N!Letter, N!RowsOf
  <2>7. N!Wrote(i, t)'
    BY <2>1, <2>2, <2>3, <2>4, <2>5, <2>6 DEF N!Wrote
  <2>8. /\ m.op = i.op /\ m.pc = i.pc /\ m.user = i.user /\ m.key = i.key /\ m.was = i.was
        /\ m.on = i.on /\ m.names = i.names /\ m.when = i.when
    BY <1>6
  <2>. QED BY <2>7, <2>8, ZenonT(40) DEF N!Wrote, N!RowsOf, N!Letter
<1>17. N!Written(q)'
  BY <1>3, <1>4, <1>5, <1>16 DEF N!Written
<1>18. m.pc # "idle" => m.stale
  BY <1>6
<1>. QED BY <1>5, <1>12, <1>13, <1>17, <1>18 DEF N!Local

LEMMA CommitStep == ASSUME N!IInv, NEW r \in Req, N!Commit(r) PROVE N!IInv'
<1>1. mail'[r] = N!NoWrite /\ sender'[r] = N!Idle /\ \A q \in Req : q # r => mail'[q] = mail[q]
  BY CommitSets
<1>2. N!TypeOK'
  <2>1. N!Txn(N!NoWrite)
    BY DEF N!Txn, N!NoWrite, N!Maps
  <2>2. ASSUME NEW q \in Req PROVE N!Txn(mail'[q])
    <3>1. CASE q = r
      BY <1>1, <2>1, <3>1
    <3>2. CASE q # r
      BY <1>1, <3>2 DEF N!IInv, N!TypeOK
    <3>. QED BY <3>1, <3>2
  <2>3. /\ active' \in [User -> BOOLEAN] /\ posted' \in [Ann -> N!State]
        /\ sent' \in [Ann -> 0..N!Cardinality(User)] /\ inbox' \in [N!Key -> N!Row]
        /\ letters' = letters /\ sender' \in [Req -> N!Job] /\ mail' = [q \in Req |-> mail'[q]]
    BY CommitSets
  <2>4. letters' \in 0..Letters
    BY <2>3 DEF N!IInv, N!TypeOK
  <2>5. \A q \in Req : N!Txn(mail[q])'
    BY <2>2 DEF N!Txn, N!Maps, N!Key, N!Row, N!State
  <2>. QED BY <2>3, <2>4, <2>5 DEF N!TypeOK, N!Key, N!Row, N!Job, N!State
<1>3. N!Local(r)'
  <2>1. /\ N!Idle.op = "none" /\ N!Idle.pc = "idle"
        /\ DOMAIN N!NoWrite.active = {} /\ DOMAIN N!NoWrite.posted = {}
        /\ DOMAIN N!NoWrite.sent = {} /\ DOMAIN N!NoWrite.inbox = {}
    BY DEF N!Idle, N!NoWrite
  <2>2. N!Phase(r)'
    BY <1>1, <2>1 DEF N!Phase
  <2>3. N!Flushed(r)'
    BY <1>1, <2>1 DEF N!Flushed
  <2>4. PICK m, t : m = sender'[r] /\ t = mail'[r].inbox
    OBVIOUS
  <2>5. m.op = "none" /\ m.pc = "idle" /\ DOMAIN t = {}
    BY <1>1, <2>1, <2>4
  <2>6. N!Wrote(m, t)'
    BY <2>5 DEF N!Wrote
  <2>7. N!Written(r)'
    BY <2>4, <2>6 DEF N!Written
  <2>. QED BY <1>1, <2>1, <2>2, <2>3, <2>7 DEF N!Local
<1>4. ASSUME NEW q \in Req PROVE N!Local(q)'
  BY <1>3, CommitSpares
<1>5. ASSUME NEW q \in Req, NEW p \in Req, q # p PROVE N!Apart(q, p)'
  <2>1. N!Apart(q, p)
    BY <1>5 DEF N!IInv
  <2>2. N!Idle.pc = "idle" /\ DOMAIN N!NoWrite.inbox = {}
    BY DEF N!Idle, N!NoWrite
  <2>3. CASE q = r \/ p = r
    BY <1>1, <2>2, <2>3 DEF N!Apart
  <2>4. CASE q # r /\ p # r
    <3>1. PICK i \in N!Job, l \in N!Job : i = sender[q] /\ l = sender[p]
      BY DEF N!IInv, N!TypeOK
    <3>2. PICK m, w : m = sender'[q] /\ w = sender'[p]
      OBVIOUS
    <3>3. m = [i EXCEPT !.stale = i.pc # "idle"] /\ w = [l EXCEPT !.stale = l.pc # "idle"]
      BY <2>4, <3>1, <3>2, CommitSets
    <3>4. /\ m.op = i.op /\ m.pc = i.pc /\ m.key = i.key
          /\ w.op = l.op /\ w.pc = l.pc /\ w.key = l.key
      BY <3>1, <3>3 DEF N!Job
    <3>. QED BY <1>1, <2>1, <2>4, <3>1, <3>2, <3>4 DEF N!Apart
  <2>. QED BY <2>3, <2>4
<1>. QED BY <1>2, <1>4, <1>5, CommitPublishes DEF N!IInv

LEMMA NoticesInit == N!Init => N!IInv
<1>. SUFFICES ASSUME N!Init PROVE N!IInv
  OBVIOUS
<1>1. /\ active \in [User -> BOOLEAN]
      /\ posted = [n \in Ann |-> "none"] /\ sent = [n \in Ann |-> 0]
      /\ inbox = [k \in N!Key |-> [state |-> "none", read |-> 0]] /\ letters = 0
      /\ sender = [r \in Req |-> N!Idle] /\ mail = [r \in Req |-> N!NoWrite]
  BY DEF N!Init
<1>2. IsFiniteSet(User) /\ Letters \in Nat
  BY NoticesAssumption, SameFinite DEF N!Population
<1>3. /\ N!Idle.op = "none" /\ N!Idle.pc = "idle" /\ N!Txn(N!NoWrite)
      /\ DOMAIN N!NoWrite.active = {} /\ DOMAIN N!NoWrite.posted = {}
      /\ DOMAIN N!NoWrite.sent = {} /\ DOMAIN N!NoWrite.inbox = {}
  BY DEF N!Idle, N!Txn, N!NoWrite, N!Maps
<1>4. \A u \in User, n \in Ann : <<n, u>> \in N!Key
  BY DEF N!Key
<1>5. N!TypeOK
  <2>1. 0 \in 0..N!Cardinality(User)
    BY <1>2, FS_CardinalityType, SameCardinality
  <2>2. 0 \in 0..Letters /\ [state |-> "none", read |-> 0] \in N!Row
    BY <1>2 DEF N!Row, N!State
  <2>3. \A r \in Req : N!Txn(mail[r])
    BY <1>1, <1>3
  <2>. QED BY <1>1, <2>1, <2>2, <2>3, NIdleIsJob DEF N!TypeOK, N!State
<1>6. N!Withdrawals
  <2>1. ASSUME NEW n \in Ann
        PROVE  /\ \A u \in User : inbox[<<n, u>>].state = "none"
               /\ N!Cardinality({u \in User : inbox[<<n, u>>].state # "none"}) = 0
    <3>1. \A u \in User : inbox[<<n, u>>].state = "none"
      BY <1>1, <1>4
    <3>2. {u \in User : inbox[<<n, u>>].state # "none"} = {}
      BY <3>1
    <3>. QED BY <3>1, <3>2, FS_EmptySet, SameCardinality
  <2>. QED BY <1>1, <2>1 DEF N!Withdrawals, N!Withdrawn
<1>7. N!Tables
  BY <1>1, <1>4 DEF N!Tables
<1>8. ASSUME NEW r \in Req PROVE N!Local(r)
  <2>1. sender[r].op = "none" /\ sender[r].pc = "idle" /\ mail[r] = N!NoWrite
    BY <1>1, <1>3
  <2>2. N!Phase(r) /\ N!Flushed(r)
    BY <1>3, <2>1 DEF N!Phase, N!Flushed
  <2>3. N!Written(r)
    BY <1>3, <2>1 DEF N!Written, N!Wrote
  <2>. QED BY <2>1, <2>2, <2>3 DEF N!Local
<1>9. ASSUME NEW q \in Req, NEW r \in Req PROVE N!Apart(q, r)
  BY <1>1, <1>3 DEF N!Apart
<1>. QED BY <1>5, <1>6, <1>7, <1>8, <1>9 DEF N!IInv

\* Who takes a step, and that only a commit touches the tables.
EarlyStep(r) == \/ \E u \in User : N!MarkAllRead(r, u) \/ \E on \in BOOLEAN : N!BeginStatus(r, u, on)
                \/ \E n \in Ann : N!BeginRevoke(r, n) \/ \E S \in SUBSET User : N!BeginAnnounce(r, n, S)
                \/ \E k \in N!Key : N!BeginRead(r, k)
                \/ N!WriteStatus(r) \/ N!Tell(r) \/ N!FanOut(r) \/ N!Purge(r) \/ N!Withdraw(r)
                \/ N!MarkRead(r)

LEMMA EarlyOrCommit == N!Next <=> \E r \in Req : EarlyStep(r) \/ N!Commit(r)
BY DEF N!Next, EarlyStep

LEMMA NoticesStep == N!IInv /\ [N!Next]_VarsN => N!IInv'
<1>. SUFFICES ASSUME N!IInv, [N!Next]_VarsN PROVE N!IInv'
  OBVIOUS
<1>1. ASSUME NEW r \in Req, EarlyStep(r) PROVE N!IInv'
  BY <1>1, MarkAllReadStep, BeginStatusStep, BeginRevokeStep, BeginAnnounceStep, BeginReadStep,
     WriteStatusStep, TellStep, FanOutStep, PurgeStep, WithdrawStep, MarkReadStep DEF EarlyStep
<1>2. ASSUME UNCHANGED VarsN PROVE N!IInv'
  <2>1. UNCHANGED NTables /\ letters' = letters /\ sender' = sender /\ mail' = mail
    BY <1>2 DEF VarsN, NTables
  <2>2. N!TypeOK'
    BY <2>1 DEF N!IInv, N!TypeOK, NTables, N!Txn, N!Maps, N!Key, N!Row, N!Job, N!State
  <2>3. N!Withdrawals' /\ N!Tables'
    BY <2>1 DEF N!IInv, N!Withdrawals, N!Withdrawn, N!Tables, NTables
  <2>4. ASSUME NEW q \in Req PROVE N!Local(q)'
    BY <2>1, SameTables DEF N!IInv
  <2>5. ASSUME NEW q \in Req, NEW p \in Req, q # p PROVE N!Apart(q, p)'
    BY <2>1, <2>5, SameApart DEF N!IInv
  <2>. QED BY <2>2, <2>3, <2>4, <2>5 DEF N!IInv
<1>. QED BY <1>1, <1>2, CommitStep, EarlyOrCommit

LEMMA EarlyTouchesNothing == ASSUME N!TypeOK, NEW r \in Req, EarlyStep(r)
                             PROVE  /\ UNCHANGED NTables /\ sender[r].pc # "commit"
                                    /\ \A q \in Req : q # r => sender'[q] = sender[q]
<1>1. ASSUME NEW j, N!Begin(r, j)
      PROVE  sender[r].pc # "commit" /\ \A q \in Req : q # r => sender'[q] = sender[q]
  BY <1>1 DEF N!Begin, N!At, N!TypeOK
<1>2. ASSUME NEW c, N!Goto(r, c) PROVE \A q \in Req : q # r => sender'[q] = sender[q]
  BY <1>2 DEF N!Goto, N!TypeOK
<1>3. ASSUME NEW table, NEW rows, N!Write(r, table, rows) PROVE UNCHANGED NTables
  BY <1>3 DEF N!Write, N!tables, NTables
<1>4. ASSUME NEW u \in User, N!MarkAllRead(r, u)
      PROVE  UNCHANGED NTables /\ \E j : N!Begin(r, j)
  BY <1>3, <1>4 DEF N!MarkAllRead
<1>5. ASSUME NEW u \in User, NEW on \in BOOLEAN, N!BeginStatus(r, u, on)
      PROVE  UNCHANGED NTables /\ \E j : N!Begin(r, j)
  BY <1>5 DEF N!BeginStatus, N!tables, NTables
<1>6. ASSUME NEW n \in Ann, N!BeginRevoke(r, n)
      PROVE  UNCHANGED NTables /\ \E j : N!Begin(r, j)
  BY <1>6 DEF N!BeginRevoke, N!tables, NTables
<1>7. ASSUME NEW n \in Ann, NEW S \in SUBSET User, N!BeginAnnounce(r, n, S)
      PROVE  UNCHANGED NTables /\ \E j : N!Begin(r, j)
  BY <1>7 DEF N!BeginAnnounce, N!tables, NTables
<1>8. ASSUME NEW k \in N!Key, N!BeginRead(r, k)
      PROVE  UNCHANGED NTables /\ \E j : N!Begin(r, j)
  BY <1>8 DEF N!BeginRead, N!tables, NTables
<1>9. ASSUME N!WriteStatus(r)
      PROVE  UNCHANGED NTables /\ sender[r].pc # "commit" /\ \E c : N!Goto(r, c)
  BY <1>3, <1>9 DEF N!WriteStatus, N!At
<1>10. ASSUME N!Tell(r)
       PROVE  UNCHANGED NTables /\ sender[r].pc # "commit" /\ \E c : N!Goto(r, c)
  BY <1>3, <1>10 DEF N!Tell, N!At
<1>11. ASSUME N!FanOut(r)
       PROVE  UNCHANGED NTables /\ sender[r].pc # "commit" /\ \E c : N!Goto(r, c)
  BY <1>11 DEF N!FanOut, N!At, N!tables, NTables
<1>12. ASSUME N!Purge(r)
       PROVE  UNCHANGED NTables /\ sender[r].pc # "commit" /\ \E c : N!Goto(r, c)
  BY <1>3, <1>12 DEF N!Purge, N!At
<1>13. ASSUME N!Withdraw(r)
       PROVE  UNCHANGED NTables /\ sender[r].pc # "commit" /\ \E c : N!Goto(r, c)
  BY <1>3, <1>13 DEF N!Withdraw, N!At
<1>14. ASSUME N!MarkRead(r)
       PROVE  UNCHANGED NTables /\ sender[r].pc # "commit" /\ \E c : N!Goto(r, c)
  BY <1>3, <1>14 DEF N!MarkRead, N!At
<1>15. CASE \E j : N!Begin(r, j)
  <2>1. UNCHANGED NTables
    BY <1>4, <1>5, <1>6, <1>7, <1>8, <1>9, <1>10, <1>11, <1>12, <1>13, <1>14 DEF EarlyStep
  <2>. QED BY <1>1, <1>15, <2>1
<1>16. CASE ~\E j : N!Begin(r, j)
  BY <1>2, <1>4, <1>5, <1>6, <1>7, <1>8, <1>9, <1>10, <1>11, <1>12, <1>13, <1>14, <1>16 DEF EarlyStep
<1>. QED BY <1>15, <1>16

LEMMA FinalStep == N!IInv /\ [N!Next]_VarsN => [N!Final]_VarsN
<1>. SUFFICES ASSUME N!IInv, N!Next PROVE N!Final
  OBVIOUS
<1>1. ASSUME NEW r \in Req, EarlyStep(r) PROVE N!Final
  <2>1. inbox' = inbox
    BY <1>1, EarlyTouchesNothing DEF N!IInv, NTables
  <2>. QED BY <2>1 DEF N!Final
<1>2. ASSUME NEW r \in Req, N!Commit(r) PROVE N!Final
  BY <1>2, RowStep DEF N!Final
<1>. QED BY <1>1, <1>2, EarlyOrCommit

\* A request that no other commit has disturbed does what it was asked for.
LEMMA CommitServes == ASSUME N!IInv, NEW r \in Req, N!Commit(r), ~sender[r].stale
                      PROVE  N!Done(sender[r])
<1>1. PICK j \in N!Job : j = sender[r]
  BY DEF N!IInv, N!TypeOK
<1>2. PICK t : t = mail[r].inbox
  OBVIOUS
<1>3. /\ j.pc = "commit" /\ N!Phase(r) /\ N!Flushed(r) /\ N!Wrote(j, t) /\ N!Fresh(r)
      /\ N!TypeOK /\ N!Tables /\ DOMAIN t \subseteq N!Key
  BY <1>1, <1>2, CommitSets DEF N!IInv, N!Local, N!Written, N!TypeOK, N!Txn, N!Maps
<1>4. \A k \in N!Key : inbox'[k] = IF k \in DOMAIN t THEN t[k] ELSE inbox[k]
  BY <1>2, CommitSets
<1>5. \A n \in Ann \union Event, u \in User : <<n, u>> \in N!Key
  BY DEF N!Key
<1>6. j.op = "status" =>
        active'[j.user] = j.on /\ N!Cardinality(N!New(j.user)) = IF active[j.user] = j.on THEN 0 ELSE 1
  <2>. SUFFICES ASSUME j.op = "status"
                PROVE  /\ active'[j.user] = j.on
                       /\ N!Cardinality(N!New(j.user)) = IF active[j.user] = j.on THEN 0 ELSE 1
    OBVIOUS
  <2>1. j.user \in User /\ j.was = active[j.user]
    BY <1>1, <1>3 DEF N!Phase, N!Fresh
  <2>2. PICK f : f = mail[r].active
    OBVIOUS
  <2>3. DOMAIN f = (IF j.was # j.on THEN {j.user} ELSE {}) /\ \A u \in DOMAIN f : f[u] = j.on
    BY <1>1, <1>3, <2>2 DEF N!Flushed
  <2>4. active'[j.user] = IF j.user \in DOMAIN f THEN f[j.user] ELSE active[j.user]
    BY <2>1, <2>2, CommitSets
  <2>5. active'[j.user] = j.on
    BY <2>1, <2>3, <2>4
  <2>6. CASE j.was = j.on
    <3>1. DOMAIN t = {}
      BY <1>3, <2>6 DEF N!Wrote
    <3>2. N!New(j.user) = {}
      BY <1>4, <1>5, <2>1, <3>1 DEF N!New
    <3>. QED BY <2>1, <2>5, <2>6, <3>2, FS_EmptySet, SameCardinality
  <2>7. CASE j.was # j.on
    <3>1. PICK e \in Event : /\ DOMAIN t = {<<e, j.user>>} /\ t[<<e, j.user>>] = N!Letter
                             /\ inbox[<<e, j.user>>].state = "none"
      BY <1>3, <2>7 DEF N!Wrote
    <3>2. ASSUME NEW d \in Event
          PROVE  (inbox[<<d, j.user>>].state = "none" /\ inbox'[<<d, j.user>>].state = "live") <=> d = e
      <4>1. <<d, j.user>> \in DOMAIN t <=> d = e
        BY <3>1
      <4>2. N!Letter.state = "live"
        BY DEF N!Letter
      <4>. QED BY <1>4, <1>5, <2>1, <3>1, <4>1, <4>2
    <3>3. N!New(j.user) = {e}
      BY <3>2 DEF N!New
    <3>. QED BY <2>1, <2>5, <2>7, <3>3, FS_Singleton, SameCardinality
  <2>. QED BY <2>6, <2>7
<1>7. j.op = "announce" =>
        \A u \in User : inbox'[<<j.key, u>>].state = "live" <=> u \in j.to /\ active[u]
  <2>. SUFFICES ASSUME j.op = "announce", NEW u \in User
                PROVE  inbox'[<<j.key, u>>].state = "live" <=> u \in j.to /\ active[u]
    OBVIOUS
  <2>1. j.key \in Ann /\ posted[j.key] = "none" /\ j.names = {x \in j.to : active[x]}
    BY <1>1, <1>3 DEF N!Phase, N!Fresh
  <2>2. DOMAIN t = {j.key} \X j.names /\ \A k \in DOMAIN t : t[k] = N!Letter
    BY <1>3 DEF N!Wrote
  <2>3. PICK k \in N!Key : k = <<j.key, u>>
    BY <1>5, <2>1
  <2>4. inbox[k].state = "none"
    BY <1>3, <2>1, <2>3 DEF N!Tables
  <2>5. k \in DOMAIN t <=> u \in j.to /\ active[u]
    BY <2>1, <2>2, <2>3
  <2>6. N!Letter.state = "live"
    BY DEF N!Letter
  <2>. QED BY <1>4, <2>2, <2>3, <2>4, <2>5, <2>6
<1>8. j.op = "read" => inbox'[j.key].read # 0
  <2>. SUFFICES ASSUME j.op = "read" PROVE inbox'[j.key].read # 0
    OBVIOUS
  <2>1. j.key \in N!Key /\ j.when # 0
    BY <1>1, <1>3 DEF N!Phase
  <2>2. /\ j.key \in DOMAIN t \/ inbox[j.key].read # 0
        /\ \A k \in DOMAIN t : t[k] = [inbox[k] EXCEPT !.read = j.when]
    BY <1>3 DEF N!Wrote
  <2>3. inbox[j.key] \in N!Row
    BY <1>3, <2>1 DEF N!TypeOK
  <2>. QED BY <1>4, <2>1, <2>2, <2>3 DEF N!Row
<1>9. j.op = "readAll" =>
        \A k \in N!Key : k[2] = j.user /\ inbox[k].state = "live" => inbox'[k].read # 0
  <2>. SUFFICES ASSUME j.op = "readAll", NEW k \in N!Key, k[2] = j.user, inbox[k].state = "live"
                PROVE  inbox'[k].read # 0
    OBVIOUS
  <2>1. j.when # 0 /\ (inbox[k].read = 0 => k \in DOMAIN t)
    BY <1>1, <1>2, <1>3 DEF N!Phase, N!Fresh
  <2>2. \A x \in DOMAIN t : t[x] = [inbox[x] EXCEPT !.read = j.when]
    BY <1>3 DEF N!Wrote
  <2>3. inbox[k] \in N!Row
    BY <1>3 DEF N!TypeOK
  <2>. QED BY <1>4, <2>1, <2>2, <2>3 DEF N!Row
<1>10. ASSUME NEW k \in N!Key, inbox[k].read # 0 PROVE inbox'[k].read = inbox[k].read
  <2>1. CASE k \notin DOMAIN t
    BY <1>4, <2>1
  <2>2. CASE k \in DOMAIN t
    <3>1. PICK o \in N!Row, v \in N!Row : o = inbox[k] /\ v = t[k]
      BY <1>2, <2>2, FlushedRow
    <3>2. Flushes(j, k, o, v)
      BY <1>1, <1>2, <2>2, <3>1, FlushedRow
    <3>3. o.state # "none"
      BY <1>3, <1>10, <3>1 DEF N!Tables
    <3>4. ~(j.op = "read" /\ k = j.key)
      BY <1>1, <1>2, <1>3, <1>10, <2>2 DEF N!Fresh
    <3>5. j.op = "revoke" /\ v = [o EXCEPT !.state = "gone"]
      BY <1>10, <3>1, <3>2, <3>3, <3>4 DEF Flushes
    <3>. QED BY <1>4, <2>2, <3>1, <3>5, ZenonT(40) DEF N!Row
  <2>. QED BY <2>1, <2>2
<1>. QED BY <1>1, <1>6, <1>7, <1>8, <1>9, <1>10 DEF N!Done

LEMMA ServedStep == N!IInv /\ [N!Next]_VarsN => [N!Served]_VarsN
<1>. SUFFICES ASSUME N!IInv, N!Next, NEW r \in Req, sender[r].pc = "commit",
                     sender'[r].pc = "idle", ~sender[r].stale
              PROVE  N!Done(sender[r])
  BY DEF N!Served, N!At
<1>1. PICK q \in Req : EarlyStep(q) \/ N!Commit(q)
  BY EarlyOrCommit
<1>2. CASE EarlyStep(q)
  BY <1>2, EarlyTouchesNothing DEF N!IInv
<1>3. CASE N!Commit(q) /\ q # r
  <2>1. sender'[r] = [sender[r] EXCEPT !.stale = sender[r].pc # "idle"] /\ sender[r] \in N!Job
    BY <1>3, CommitSets DEF N!IInv, N!TypeOK
  <2>. QED BY <2>1 DEF N!Job
<1>4. CASE N!Commit(q) /\ q = r
  BY <1>4, CommitServes
<1>. QED BY <1>1, <1>2, <1>3, <1>4

\* The inductive invariant of the inboxes.
THEOREM NoticesInvariant == MCSpec => []N!IInv
<1>1. MCInit => N!IInv
  BY NoticesInit DEF MCInit
<1>2. N!IInv /\ [MCNext /\ UNCHANGED part]_<<part, vars, VarsP, VarsL, VarsD, VarsN>> => N!IInv'
  <2>1. ASSUME [MCNext /\ UNCHANGED part]_<<part, vars, VarsP, VarsL, VarsD, VarsN>>
        PROVE  [N!Next]_VarsN
    BY <2>1 DEF MCNext
  <2>. QED BY <2>1, NoticesStep
<1>. QED BY <1>1, <1>2, PTL DEF MCSpec

\* For any users, announcements and requests at once: what is revoked leaves
\* every inbox and never comes back, what is read stays read, and whom no other
\* commit has disturbed has reached everybody he should (InboxIsKept).
THEOREM InboxKept == MCSpec => InboxIsKept
<1>1. N!IInv => N!Withdrawals
  BY DEF N!IInv
<1>2. N!IInv /\ [MCNext /\ UNCHANGED part]_<<part, vars, VarsP, VarsL, VarsD, VarsN>>
        => [N!Final]_VarsN /\ [N!Served]_VarsN
  <2>1. ASSUME [MCNext /\ UNCHANGED part]_<<part, vars, VarsP, VarsL, VarsD, VarsN>>
        PROVE  [N!Next]_VarsN
    BY <2>1 DEF MCNext
  <2>. QED BY <2>1, FinalStep, ServedStep
<1>3. MCSpec => []N!Withdrawals /\ [][N!Final]_VarsN /\ [][N!Served]_VarsN
  BY <1>1, <1>2, NoticesInvariant, PTL DEF MCSpec
<1>. QED BY <1>3 DEF InboxIsKept, N!InboxIsKept, N!Withdrawals, N!vars, VarsN

-------------------------------------------------------------------------------
\* Passwords.

LEMMA SizeOf == ASSUME NEW S
                PROVE  /\ P!IsFiniteSet(S) <=> IsFiniteSet(S)
                       /\ P!Cardinality(S) = Cardinality(S)
<1>1. P!IsFiniteSet(S) <=> IsFiniteSet(S)
  BY DEF P!IsFiniteSet, IsFiniteSet
<1>2. P!Cardinality(S) = Cardinality(S)
  BY Zenon DEF P!Cardinality, Cardinality, P!IsFiniteSet, IsFiniteSet
<1>. QED BY <1>1, <1>2

\* The rows above one of them, of which it takes less than n to be among the newest.
AboveRow(rows, h) == {k \in rows : k.id > h.id}

LEMMA IsNewest == ASSUME NEW rows, NEW n, NEW h
                  PROVE  h \in P!Newest(rows, n) <=> h \in rows /\ Cardinality(AboveRow(rows, h)) < n
BY SizeOf DEF P!Newest, AboveRow

LEMMA AboveIsFinite == ASSUME NEW rows, IsFiniteSet(rows), NEW h
                       PROVE  IsFiniteSet(AboveRow(rows, h)) /\ Cardinality(AboveRow(rows, h)) \in Nat
<1>1. AboveRow(rows, h) \in SUBSET rows
  BY DEF AboveRow
<1>. QED BY <1>1, FS_Subset, FS_CardinalityType

\* There are at most n newest: each has another number of rows above it.
LEMMA NewestAreFew == ASSUME NEW rows \in SUBSET P!Old, IsFiniteSet(rows), NEW n \in Nat,
                             \A h, k \in rows : h.id = k.id => h = k
                      PROVE  Cardinality(P!Newest(rows, n)) <= n
<1>. DEFINE S == P!Newest(rows, n)
            f == [h \in S |-> Cardinality(AboveRow(rows, h)) + 1]
<1>1. \A h \in S : h \in rows /\ Cardinality(AboveRow(rows, h)) < n
  BY IsNewest
<1>2. ASSUME NEW h \in rows, NEW k \in rows, h.id < k.id
      PROVE  Cardinality(AboveRow(rows, h)) # Cardinality(AboveRow(rows, k))
  <2>1. h.id \in Nat /\ k.id \in Nat /\ \A x \in rows : x.id \in Nat
    BY DEF P!Old
  <2>2. AboveRow(rows, k) \in SUBSET AboveRow(rows, h)
    BY <1>2, <2>1 DEF AboveRow
  <2>3. k \in AboveRow(rows, h) /\ k \notin AboveRow(rows, k)
    BY <1>2, <2>1 DEF AboveRow
  <2>. QED BY <2>2, <2>3, AboveIsFinite, FS_Subset
<1>3. \A h \in S : f[h] \in 1..n
  <2>1. ASSUME NEW h \in S PROVE f[h] \in 1..n
    BY <1>1, AboveIsFinite
  <2>. QED BY <2>1
<1>4. ASSUME NEW h \in S, NEW k \in S, f[h] = f[k] PROVE h = k
  <2>1. Cardinality(AboveRow(rows, h)) = Cardinality(AboveRow(rows, k))
    BY <1>4, AboveIsFinite
  <2>2. h \in rows /\ k \in rows
    BY <1>1
  <2>3. h.id \in Nat /\ k.id \in Nat
    BY <2>2 DEF P!Old
  <2>4. ~(h.id < k.id) /\ ~(k.id < h.id)
    BY <1>2, <2>1, <2>2
  <2>. QED BY <2>2, <2>3, <2>4
<1>5. f \in Injection(S, 1..n)
  BY <1>3, <1>4 DEF Injection, IsInjective
<1>6. IsFiniteSet(1..n) /\ Cardinality(1..n) = n
  BY FS_Interval
<1>. QED BY <1>5, <1>6, FS_Injection

\* A row with a new identifier is the newest, and moves the others by one.
LEMMA AddRow == ASSUME NEW rows \in SUBSET P!Old, IsFiniteSet(rows), NEW h \in P!Old,
                       \A k \in rows : k.id < h.id, NEW n \in Nat \ {0}
                PROVE  /\ h \in P!Newest(rows \union {h}, n)
                       /\ P!Newest(rows, n - 1) \subseteq P!Newest(rows \union {h}, n)
<1>. DEFINE all == rows \union {h}
<1>1. h.id \in Nat /\ \A k \in rows : k.id \in Nat
  BY DEF P!Old
<1>2. AboveRow(all, h) = {}
  BY <1>1 DEF AboveRow
<1>3. h \in P!Newest(all, n)
  <2>1. Cardinality(AboveRow(all, h)) = 0
    BY <1>2, FS_EmptySet
  <2>2. Cardinality(AboveRow(all, h)) < n /\ h \in all
    BY <2>1
  <2>. QED BY <2>2, IsNewest
<1>4. ASSUME NEW k \in P!Newest(rows, n - 1) PROVE k \in P!Newest(all, n)
  <2>1. k \in rows /\ Cardinality(AboveRow(rows, k)) < n - 1
    BY <1>4, IsNewest
  <2>2. AboveRow(all, k) = AboveRow(rows, k) \union {h} /\ h \notin AboveRow(rows, k)
    BY <1>1, <2>1 DEF AboveRow
  <2>3. Cardinality(AboveRow(all, k)) = Cardinality(AboveRow(rows, k)) + 1
    BY <2>2, AboveIsFinite, FS_AddElement
  <2>. QED BY <2>1, <2>3, AboveIsFinite, IsNewest
<1>. QED BY <1>3, <1>4

LEMMA OneNewest == ASSUME NEW rows \in SUBSET P!Old, IsFiniteSet(rows), NEW h \in rows,
                          \A k \in rows : k = h \/ k.id < h.id
                   PROVE  P!Newest(rows, 1) = {h}
<1>1. h.id \in Nat /\ \A k \in rows : k.id \in Nat
  BY DEF P!Old
<1>2. h \in P!Newest(rows, 1)
  <2>1. AboveRow(rows, h) = {}
    BY <1>1 DEF AboveRow
  <2>2. Cardinality(AboveRow(rows, h)) = 0
    BY <2>1, FS_EmptySet
  <2>. QED BY <2>2, IsNewest
<1>3. ASSUME NEW k \in P!Newest(rows, 1) PROVE k = h
  <2>1. k \in rows /\ Cardinality(AboveRow(rows, k)) < 1
    BY IsNewest
  <2>2. Cardinality(AboveRow(rows, k)) = 0
    BY <2>1, AboveIsFinite
  <2>3. AboveRow(rows, k) = {}
    BY <2>2, AboveIsFinite, FS_EmptySet
  <2>. QED BY <1>1, <2>1, <2>3 DEF AboveRow
<1>. QED BY <1>2, <1>3

\* Who does nothing keeps what he has.
LEMMA OthersChange == ASSUME P!IInv, NEW q \in Req, job'[q] = job[q], txn'[q] = txn[q],
                             account' = account, history' = history,
                             nextRow' \in Nat, nextRow <= nextRow'
                      PROVE  P!Local(q)'
<1>1. nextRow \in Nat /\ P!Local(q) /\ txn[q] \in P!Txn
  BY DEF P!IInv, P!TypeOK
<1>2. P!Changed(q)' = P!Changed(q)
  BY DEF P!Changed
<1>3. \A h \in txn[q].add : h.id \in Nat
  BY <1>1 DEF P!Txn, P!Old
<1>4. P!Phase(q)'
  BY <1>1, <1>2, <1>3 DEF P!Local, P!Phase
<1>5. P!Fresh(q)' <=> P!Fresh(q)
  BY DEF P!Fresh, P!Newest, P!Superfluous, P!Seen
<1>. QED BY <1>1, <1>4, <1>5 DEF P!Local

\* A step before the commit: it is enough to look at the request that takes it.
LEMMA OwnChange == ASSUME P!IInv, NEW r \in Req, account' = account, history' = history,
                          nextRow' \in Nat, nextRow <= nextRow', handed' \in BOOLEAN,
                          job' \in [Req -> P!Job], txn' \in [Req -> P!Txn],
                          \A q \in Req : q # r => job'[q] = job[q] /\ txn'[q] = txn[q],
                          P!Local(r)', \A q \in Req : q # r => P!Apart(q, r)'
                   PROVE  P!IInv'
<1>1. P!TypeOK'
  BY DEF P!IInv, P!TypeOK, P!Job, P!Txn, P!Account, P!Old, P!Columns
<1>2. P!Ordered'
  <2>1. nextRow \in Nat /\ history \in SUBSET P!Old
    BY DEF P!IInv, P!TypeOK
  <2>2. \A h \in history : h.id \in Nat
    BY <2>1 DEF P!Old
  <2>. QED BY <2>1, <2>2, SizeOf DEF P!IInv, P!Ordered
<1>3. ASSUME NEW q \in Req PROVE P!Local(q)'
  BY OthersChange
<1>4. ASSUME NEW q \in Req, NEW p \in Req, q # p PROVE P!Apart(q, p)'
  <2>1. CASE p = r
    BY <1>4, <2>1
  <2>2. CASE q = r
    <3>1. P!Apart(p, q)'
      BY <1>4, <2>2
    <3>. QED BY <3>1 DEF P!Apart
  <2>3. CASE p # r /\ q # r
    BY <1>4, <2>3 DEF P!IInv, P!Apart
  <2>. QED BY <2>1, <2>2, <2>3
<1>. QED BY <1>1, <1>2, <1>3, <1>4 DEF P!IInv

LEMMA BlankIsJob == P!Blank \in P!Job /\ P!Blank.pc = "idle" /\ P!Blank.op = "none"
BY DEF P!Blank, P!Job

\* What moves on is the place of a request only.
LEMMA MovesOn == ASSUME P!IInv, NEW r \in Req, NEW c, P!Goto(r, c),
                        c \in {"idle", "recent", "append", "choose", "prune", "write", "commit"}
                 PROVE  /\ job' \in [Req -> P!Job] /\ \A q \in Req : q # r => job'[q] = job[q]
                        /\ job'[r] = [job[r] EXCEPT !.pc = c]
<1>1. job \in [Req -> P!Job]
  BY DEF P!IInv, P!TypeOK
<1>2. [job[r] EXCEPT !.pc = c] \in P!Job
  BY <1>1 DEF P!Job
<1>3. job' = [job EXCEPT ![r] = [job[r] EXCEPT !.pc = c]]
  BY DEF P!Goto
<1>. QED BY <1>1, <1>2, <1>3

LEMMA BeginChange == ASSUME P!IInv, NEW r \in Req, NEW op \in {"own", "reset"}, NEW new \in Password,
                            P!Begin(r, op, new)
                     PROVE  P!IInv'
<1>1. /\ job[r].pc = "idle" /\ new # account.hash
      /\ job' = [job EXCEPT ![r] = [P!Blank EXCEPT !.op = op, !.pc = "recent", !.new = new,
                                                   !.copy = account]]
      /\ account' = account /\ history' = history /\ nextRow' = nextRow
      /\ handed' = handed /\ txn' = txn
  BY DEF P!Begin, P!At
<1>2. /\ P!TypeOK /\ job \in [Req -> P!Job] /\ txn \in [Req -> P!Txn] /\ account \in P!Account
      /\ nextRow \in Nat
  BY DEF P!IInv, P!TypeOK
<1>3. PICK j : j = [P!Blank EXCEPT !.op = op, !.pc = "recent", !.new = new, !.copy = account]
  OBVIOUS
<1>4. /\ j \in P!Job /\ j.pc = "recent" /\ j.op = op /\ j.new = new /\ j.copy = account
  BY <1>2, <1>3, BlankIsJob DEF P!Job, P!Blank
<1>5. job' \in [Req -> P!Job] /\ job'[r] = j /\ \A q \in Req : q # r => job'[q] = job[q]
  BY <1>1, <1>2, <1>3, <1>4
<1>6. txn[r].add = {} /\ txn[r].del = {} /\ txn[r].row = <<>>
  BY <1>1 DEF P!IInv, P!Local, P!Phase
<1>7. P!Phase(r)'
  BY <1>1, <1>2, <1>4, <1>5, <1>6 DEF P!Phase
<1>8. P!Fresh(r)'
  BY <1>1, <1>4, <1>5 DEF P!Fresh
<1>9. ASSUME NEW q \in Req, q # r PROVE P!Apart(q, r)'
  BY <1>1, <1>6 DEF P!Apart
<1>10. handed' \in BOOLEAN /\ nextRow <= nextRow'
  BY <1>1, <1>2 DEF P!TypeOK
<1>. QED BY <1>1, <1>2, <1>5, <1>7, <1>8, <1>9, <1>10, OwnChange DEF P!Local

LEMMA CheckRecentStep == ASSUME P!IInv, NEW r \in Req, P!CheckRecent(r) PROVE P!IInv'
<1>1. /\ job[r].pc = "recent"
      /\ account' = account /\ history' = history /\ nextRow' = nextRow
      /\ handed' = handed /\ txn' = txn
  BY DEF P!CheckRecent, P!At
<1>2. /\ P!TypeOK /\ job \in [Req -> P!Job] /\ txn \in [Req -> P!Txn] /\ nextRow \in Nat
      /\ handed' \in BOOLEAN /\ nextRow <= nextRow' /\ txn' \in [Req -> P!Txn]
  BY <1>1 DEF P!IInv, P!TypeOK
<1>3. txn[r].add = {} /\ txn[r].del = {} /\ txn[r].row = <<>>
  BY <1>1 DEF P!IInv, P!Local, P!Phase
<1>4. ASSUME NEW q \in Req, q # r PROVE P!Apart(q, r)'
  BY <1>1, <1>3 DEF P!Apart
<1>5. CASE job' = [job EXCEPT ![r] = P!Blank]
  <2>1. job'[r] = P!Blank /\ job' \in [Req -> P!Job] /\ \A q \in Req : q # r => job'[q] = job[q]
    BY <1>2, <1>5, BlankIsJob
  <2>2. P!Local(r)'
    BY <1>1, <1>3, <2>1, BlankIsJob DEF P!Local, P!Phase
  <2>. QED BY <1>1, <1>2, <1>4, <2>1, <2>2, OwnChange
<1>6. CASE /\ P!Goto(r, "append")
           /\ ~\E h \in P!Recent(P!Seen(r)) : h.hash = job[r].new
  <2>1. /\ job'[r] = [job[r] EXCEPT !.pc = "append"] /\ job' \in [Req -> P!Job]
        /\ \A q \in Req : q # r => job'[q] = job[q]
    BY <1>6, MovesOn
  <2>2. PICK i \in P!Job, j \in P!Job : i = job[r] /\ j = job'[r]
    BY <1>2, <2>1
  <2>3. /\ j.pc = "append" /\ j.op = i.op /\ j.new = i.new /\ j.copy = i.copy /\ j.stale = i.stale
        /\ i.pc = "recent"
    BY <1>1, <2>1, <2>2 DEF P!Job
  <2>4. P!Phase(r)'
    <3>1. P!Phase(r)
      BY DEF P!IInv, P!Local
    <3>. QED BY <1>1, <1>3, <2>2, <2>3, <3>1 DEF P!Phase
  <2>5. P!Seen(r) = history
    BY <1>3 DEF P!Seen
  <2>6. \A h \in P!Newest(history, Kept) : h.hash # i.new
    BY <1>6, <2>2, <2>5 DEF P!Recent
  <2>7. ~i.stale => i.copy = account
    BY <1>1, <2>2 DEF P!IInv, P!Local, P!Fresh
  <2>8. ~i.stale => P!Fresh(r)'
    BY <1>1, <2>2, <2>3, <2>6, <2>7 DEF P!Fresh, P!Newest
  <2>9. P!Local(r)'
    BY <2>2, <2>3, <2>4, <2>8 DEF P!Local
  <2>. QED BY <1>1, <1>2, <1>4, <2>1, <2>9, OwnChange
<1>. QED BY <1>5, <1>6 DEF P!CheckRecent

LEMMA AppendStep == ASSUME P!IInv, NEW r \in Req, P!AppendHistory(r) PROVE P!IInv'
<1>1. /\ job[r].pc = "append" /\ P!Goto(r, "choose")
      /\ txn' = [txn EXCEPT ![r].add = {[id |-> nextRow, hash |-> job[r].copy.hash]}]
      /\ nextRow' = nextRow + 1
      /\ account' = account /\ history' = history /\ handed' = handed
  BY DEF P!AppendHistory, P!At
<1>2. /\ job \in [Req -> P!Job] /\ txn \in [Req -> P!Txn] /\ nextRow \in Nat
      /\ handed' \in BOOLEAN /\ history \in SUBSET P!Old
  BY <1>1 DEF P!IInv, P!TypeOK
<1>3. /\ job'[r] = [job[r] EXCEPT !.pc = "choose"] /\ job' \in [Req -> P!Job]
      /\ \A q \in Req : q # r => job'[q] = job[q]
  BY <1>1, MovesOn
<1>4. PICK i \in P!Job, j \in P!Job : i = job[r] /\ j = job'[r]
  BY <1>2, <1>3
<1>5. /\ j.pc = "choose" /\ j.op = i.op /\ j.new = i.new /\ j.copy = i.copy /\ j.stale = i.stale
      /\ i.pc = "append"
  BY <1>1, <1>3, <1>4 DEF P!Job
<1>6. P!Phase(r) /\ txn[r].add = {} /\ txn[r].del = {} /\ txn[r].row = <<>>
  BY <1>1 DEF P!IInv, P!Local, P!Phase
<1>7. PICK h : h = [id |-> nextRow, hash |-> i.copy.hash]
  OBVIOUS
<1>8. i.copy \in P!Account /\ i.op # "none" /\ i.new \in Password /\ i.new # i.copy.hash
  BY <1>4, <1>5, <1>6 DEF P!Phase
<1>9. h \in P!Old /\ h.id = nextRow /\ h.hash = i.copy.hash
  BY <1>2, <1>7, <1>8 DEF P!Old, P!Account
<1>10. /\ txn' \in [Req -> P!Txn] /\ \A q \in Req : q # r => txn'[q] = txn[q]
       /\ txn'[r].add = {h} /\ txn'[r].del = {} /\ txn'[r].row = <<>>
  <2>1. txn' = [txn EXCEPT ![r] = [txn[r] EXCEPT !.add = {h}]]
    BY <1>1, <1>4, <1>7
  <2>2. [txn[r] EXCEPT !.add = {h}] \in P!Txn
    BY <1>2, <1>9 DEF P!Txn
  <2>. QED BY <1>2, <1>6, <2>1, <2>2 DEF P!Txn
<1>11. \A k \in history : k.id < h.id /\ k.id # h.id
  <2>1. \A k \in history : k.id < nextRow /\ k.id \in Nat
    BY <1>2 DEF P!IInv, P!Ordered, P!Old
  <2>. QED BY <1>2, <1>9, <2>1
<1>12. P!Phase(r)'
  BY <1>1, <1>2, <1>4, <1>5, <1>8, <1>9, <1>10, <1>11 DEF P!Phase
<1>13. ~i.stale => P!Fresh(r)'
  <2>1. ~i.stale => i.copy = account /\ \A k \in P!Newest(history, Kept) : k.hash # i.new
    BY <1>4, <1>5 DEF P!IInv, P!Local, P!Fresh
  <2>. QED BY <1>1, <1>4, <1>5, <1>10, <1>11, <2>1 DEF P!Fresh, P!Newest
<1>14. P!Local(r)'
  BY <1>4, <1>5, <1>12, <1>13 DEF P!Local
<1>15. ASSUME NEW q \in Req, q # r PROVE P!Apart(q, r)'
  <2>1. \A k \in txn[q].add : k.id < nextRow /\ k.id \in Nat
    BY <1>2 DEF P!IInv, P!Local, P!Phase, P!Txn, P!Old
  <2>. QED BY <1>2, <1>9, <1>10, <1>15, <2>1 DEF P!Apart
<1>16. nextRow' \in Nat /\ nextRow <= nextRow'
  BY <1>1, <1>2
<1>. QED BY <1>1, <1>2, <1>3, <1>10, <1>14, <1>15, <1>16, OwnChange

LEMMA ChooseVictimsStep == ASSUME P!IInv, NEW r \in Req, P!ChooseVictims(r) PROVE P!IInv'
<1>1. /\ job[r].pc = "choose"
      /\ job' = [job EXCEPT ![r].pc = "prune", ![r].victims = P!Superfluous(P!Seen(r))]
      /\ account' = account /\ history' = history /\ nextRow' = nextRow
      /\ handed' = handed /\ txn' = txn
  BY DEF P!ChooseVictims, P!At
<1>2. /\ job \in [Req -> P!Job] /\ txn \in [Req -> P!Txn] /\ nextRow \in Nat
      /\ handed' \in BOOLEAN /\ history \in SUBSET P!Old /\ nextRow <= nextRow'
      /\ txn' \in [Req -> P!Txn]
  BY <1>1 DEF P!IInv, P!TypeOK
<1>3. PICK i \in P!Job : i = job[r]
  BY <1>2
<1>4. i.pc = "choose" /\ P!Phase(r) /\ txn[r].del = {} /\ txn[r].row = <<>>
  BY <1>1, <1>3 DEF P!IInv, P!Local, P!Phase
<1>5. PICK add : add = txn[r].add
  OBVIOUS
<1>6. PICK v : v = P!Superfluous(history \union add)
  OBVIOUS
<1>7. P!Seen(r) = history \union add
  BY <1>4, <1>5 DEF P!Seen
<1>8. v \in SUBSET P!Old
  BY <1>2, <1>5, <1>6 DEF P!Superfluous, P!Txn
<1>9. /\ job' = [job EXCEPT ![r] = [i EXCEPT !.pc = "prune", !.victims = v]]
      /\ [i EXCEPT !.pc = "prune", !.victims = v] \in P!Job
  BY <1>1, <1>2, <1>3, <1>6, <1>7, <1>8 DEF P!Job
<1>10. PICK j \in P!Job : j = [i EXCEPT !.pc = "prune", !.victims = v]
  BY <1>9
<1>11. job' \in [Req -> P!Job] /\ job'[r] = j /\ \A q \in Req : q # r => job'[q] = job[q]
  BY <1>2, <1>9, <1>10
<1>12. /\ j.pc = "prune" /\ j.op = i.op /\ j.new = i.new /\ j.copy = i.copy /\ j.stale = i.stale
       /\ j.victims = v
  BY <1>10 DEF P!Job
<1>13. P!Phase(r)'
  BY <1>1, <1>3, <1>4, <1>11, <1>12 DEF P!Phase
<1>14. ~i.stale => P!Fresh(r)'
  <2>1. ~i.stale => /\ i.copy = account /\ \A k \in P!Newest(history, Kept) : k.hash # i.new
                    /\ \E h \in add : add = {h} /\ \A k \in history : k.id < h.id
    BY <1>3, <1>4, <1>5 DEF P!IInv, P!Local, P!Fresh
  <2>. QED BY <1>1, <1>5, <1>6, <1>11, <1>12, <2>1, ZenonT(40) DEF P!Fresh, P!Newest, P!Superfluous
<1>15. P!Local(r)'
  BY <1>11, <1>12, <1>13, <1>14 DEF P!Local
<1>16. ASSUME NEW q \in Req, q # r PROVE P!Apart(q, r)'
  BY <1>1, <1>16 DEF P!IInv, P!Apart
<1>. QED BY <1>1, <1>2, <1>11, <1>15, <1>16, OwnChange

LEMMA PruneStep == ASSUME P!IInv, NEW r \in Req, P!Prune(r) PROVE P!IInv'
<1>1. /\ job[r].pc = "prune" /\ P!Goto(r, "write")
      /\ txn' = [txn EXCEPT ![r].add = txn[r].add \ job[r].victims,
                            ![r].del = history \intersect job[r].victims]
      /\ account' = account /\ history' = history /\ nextRow' = nextRow /\ handed' = handed
  BY DEF P!Prune, P!At
<1>2. /\ job \in [Req -> P!Job] /\ txn \in [Req -> P!Txn] /\ nextRow \in Nat
      /\ handed' \in BOOLEAN /\ history \in SUBSET P!Old /\ nextRow <= nextRow'
  BY <1>1 DEF P!IInv, P!TypeOK
<1>3. /\ job'[r] = [job[r] EXCEPT !.pc = "write"] /\ job' \in [Req -> P!Job]
      /\ \A q \in Req : q # r => job'[q] = job[q]
  BY <1>1, MovesOn
<1>4. PICK i \in P!Job, j \in P!Job : i = job[r] /\ j = job'[r]
  BY <1>2, <1>3
<1>5. /\ j.pc = "write" /\ j.op = i.op /\ j.new = i.new /\ j.copy = i.copy /\ j.stale = i.stale
      /\ i.pc = "prune"
  BY <1>1, <1>3, <1>4 DEF P!Job
<1>6. PICK add \in SUBSET P!Old, v \in SUBSET P!Old : add = txn[r].add /\ v = i.victims
  BY <1>2 DEF P!Txn, P!Job
<1>7. P!Phase(r) /\ txn[r].row = <<>>
  BY <1>1 DEF P!IInv, P!Local, P!Phase
<1>8. /\ txn' \in [Req -> P!Txn] /\ \A q \in Req : q # r => txn'[q] = txn[q]
      /\ txn'[r].add = add \ v /\ txn'[r].del = history \intersect v /\ txn'[r].row = <<>>
  <2>1. txn' = [txn EXCEPT ![r] = [txn[r] EXCEPT !.add = add \ v, !.del = history \intersect v]]
    BY <1>1, <1>2, <1>4, <1>6
  <2>2. [txn[r] EXCEPT !.add = add \ v, !.del = history \intersect v] \in P!Txn
    BY <1>2 DEF P!Txn
  <2>. QED BY <1>2, <1>7, <2>1, <2>2 DEF P!Txn
<1>9. P!Phase(r)'
  BY <1>1, <1>4, <1>5, <1>6, <1>7, <1>8 DEF P!Phase
<1>10. ASSUME ~i.stale PROVE P!Fresh(r)'
  <2>1. /\ i.copy = account /\ \A k \in P!Newest(history, Kept) : k.hash # i.new
        /\ v = P!Superfluous(history \union add)
    BY <1>4, <1>5, <1>6, <1>10 DEF P!IInv, P!Local, P!Fresh
  <2>2. PICK h \in add : add = {h} /\ \A k \in history : k.id < h.id
    BY <1>4, <1>5, <1>6, <1>10 DEF P!IInv, P!Local, P!Fresh
  <2>3. h \in P!Newest(history \union {h}, Kept)
    BY <1>2, <2>2, PasswordAssumption, AddRow, SizeOf DEF P!Size, P!IInv, P!Ordered
  <2>4. add \ v = {h}
    BY <2>1, <2>2, <2>3 DEF P!Superfluous
  <2>5. PICK all : all = history \union {h}
    OBVIOUS
  <2>6. (history \ (history \intersect v)) \union {h} = P!Newest(all, Kept)
    <3>1. v = all \ P!Newest(all, Kept) /\ P!Newest(all, Kept) \subseteq all
      BY <2>1, <2>2, <2>5, IsNewest DEF P!Superfluous
    <3>. QED BY <2>3, <2>5, <3>1
  <2>7. P!Seen(r)' = P!Newest(all, Kept) /\ history' \union txn'[r].add = all
    BY <1>1, <1>6, <1>8, <2>4, <2>5, <2>6 DEF P!Seen
  <2>8. j.copy = account' /\ \A k \in P!Newest(history, Kept)' : k.hash # j.new
    BY <1>1, <1>5, <2>1 DEF P!Newest
  <2>9. \E k \in txn'[r].add : txn'[r].add = {k} /\ \A x \in history' : x.id < k.id
    BY <1>1, <1>6, <1>8, <2>2, <2>4
  <2>. QED BY <1>4, <1>5, <2>7, <2>8, <2>9 DEF P!Fresh, P!Newest
<1>11. P!Local(r)'
  BY <1>4, <1>5, <1>9, <1>10 DEF P!Local
<1>12. ASSUME NEW q \in Req, q # r PROVE P!Apart(q, r)'
  BY <1>6, <1>8, <1>12 DEF P!IInv, P!Apart
<1>. QED BY <1>1, <1>2, <1>3, <1>8, <1>11, <1>12, OwnChange

LEMMA WriteAccountStep == ASSUME P!IInv, NEW r \in Req, P!WriteAccount(r) PROVE P!IInv'
<1>1. /\ job[r].pc = "write" /\ P!Goto(r, "commit")
      /\ txn' = [txn EXCEPT ![r].row = P!Changed(r)]
      /\ account' = account /\ history' = history /\ nextRow' = nextRow /\ handed' = handed
  BY DEF P!WriteAccount, P!At
<1>2. /\ job \in [Req -> P!Job] /\ txn \in [Req -> P!Txn] /\ nextRow \in Nat
      /\ handed' \in BOOLEAN /\ history \in SUBSET P!Old /\ nextRow <= nextRow'
  BY <1>1 DEF P!IInv, P!TypeOK
<1>3. /\ job'[r] = [job[r] EXCEPT !.pc = "commit"] /\ job' \in [Req -> P!Job]
      /\ \A q \in Req : q # r => job'[q] = job[q]
  BY <1>1, MovesOn
<1>4. PICK i \in P!Job, j \in P!Job : i = job[r] /\ j = job'[r]
  BY <1>2, <1>3
<1>5. /\ j.pc = "commit" /\ j.op = i.op /\ j.new = i.new /\ j.copy = i.copy /\ j.stale = i.stale
      /\ i.pc = "write"
  BY <1>1, <1>3, <1>4 DEF P!Job
<1>6. P!Phase(r) /\ i.new \in Password
  BY <1>4, <1>5 DEF P!IInv, P!Local, P!Phase
<1>7. PICK row : row = P!Changed(r)
  OBVIOUS
<1>8. row \in P!Columns
  <2>1. (i.op = "reset") \in BOOLEAN
    OBVIOUS
  <2>. QED BY <1>4, <1>6, <1>7, <2>1 DEF P!Changed, P!Columns, P!Account
<1>9. P!Changed(r)' = row
  BY <1>4, <1>5, <1>7 DEF P!Changed
<1>10. /\ txn' \in [Req -> P!Txn] /\ \A q \in Req : q # r => txn'[q] = txn[q]
       /\ txn'[r].add = txn[r].add /\ txn'[r].del = txn[r].del /\ txn'[r].row = row
  <2>1. txn' = [txn EXCEPT ![r] = [txn[r] EXCEPT !.row = row]]
    BY <1>1, <1>7
  <2>2. [txn[r] EXCEPT !.row = row] \in P!Txn
    BY <1>2, <1>8 DEF P!Txn
  <2>. QED BY <1>2, <2>1, <2>2 DEF P!Txn
<1>11. P!Phase(r)'
  BY <1>1, <1>4, <1>5, <1>6, <1>9, <1>10 DEF P!Phase
<1>12. ASSUME ~i.stale PROVE P!Fresh(r)'
  <2>1. P!Fresh(r)
    BY <1>4, <1>5, <1>12 DEF P!IInv, P!Local
  <2>. QED BY <1>1, <1>4, <1>5, <1>10, <2>1 DEF P!Fresh, P!Newest, P!Seen
<1>13. P!Local(r)'
  BY <1>4, <1>5, <1>11, <1>12 DEF P!Local
<1>14. ASSUME NEW q \in Req, q # r PROVE P!Apart(q, r)'
  BY <1>10, <1>14 DEF P!IInv, P!Apart
<1>. QED BY <1>1, <1>2, <1>3, <1>10, <1>13, <1>14, OwnChange

\* What is committed.
LEMMA CommitChangeSets == ASSUME P!IInv, NEW r \in Req, P!Commit(r)
                          PROVE  /\ job[r].pc = "commit" /\ nextRow' = nextRow /\ handed' \in BOOLEAN
                                 /\ account' \in P!Account /\ account'.hash = job[r].new
                                 /\ job[r].copy = account => account'.must = (job[r].op = "reset")
                                 /\ history' = P!Seen(r)
                                 /\ job' \in [Req -> P!Job] /\ job'[r] = P!Blank
                                 /\ \A q \in Req : q # r =>
                                      job'[q] = [job[q] EXCEPT !.stale = job[q].pc # "idle"]
                                 /\ txn' \in [Req -> P!Txn] /\ txn'[r] = P!NoWrite
                                 /\ \A q \in Req : q # r => txn'[q] = txn[q]
<1>1. job \in [Req -> P!Job] /\ txn \in [Req -> P!Txn] /\ account \in P!Account
  BY DEF P!IInv, P!TypeOK
<1>2. job[r].pc = "commit" /\ nextRow' = nextRow /\ handed' \in BOOLEAN /\ history' = P!Seen(r)
  BY DEF P!Commit, P!At
<1>3. PICK j \in P!Job : j = job[r]
  BY <1>1
<1>4. PICK row : row = txn[r].row
  OBVIOUS
<1>5. /\ row = P!Changed(r) /\ j.new \in Password /\ j.copy \in P!Account
      /\ j.op \in {"own", "reset"}
  BY <1>2, <1>3, <1>4 DEF P!IInv, P!Local, P!Phase, P!Job
<1>6. account' = [hash |-> row.hash,
                  must |-> IF "must" \in DOMAIN row THEN row.must ELSE account.must]
  BY <1>4 DEF P!Commit
<1>7. /\ account' \in P!Account /\ account'.hash = j.new
      /\ j.copy = account => account'.must = (j.op = "reset")
  <2>1. CASE (j.op = "reset") = j.copy.must
    <3>1. row = [hash |-> j.new]
      BY <1>3, <1>5, <2>1 DEF P!Changed
    <3>2. row.hash = j.new /\ "must" \notin DOMAIN row
      BY <3>1
    <3>. QED BY <1>1, <1>5, <1>6, <2>1, <3>2 DEF P!Account
  <2>2. CASE (j.op = "reset") # j.copy.must
    <3>1. row = [hash |-> j.new, must |-> j.op = "reset"]
      BY <1>3, <1>5, <2>2 DEF P!Changed
    <3>2. row.hash = j.new /\ "must" \in DOMAIN row /\ row.must = (j.op = "reset")
      BY <3>1
    <3>. QED BY <1>1, <1>5, <1>6, <3>2 DEF P!Account
  <2>. QED BY <2>1, <2>2
<1>8. /\ job' \in [Req -> P!Job] /\ job'[r] = P!Blank
      /\ \A q \in Req : q # r => job'[q] = [job[q] EXCEPT !.stale = job[q].pc # "idle"]
  <2>1. job' = [q \in Req |-> IF q = r THEN P!Blank
                             ELSE [job[q] EXCEPT !.stale = job[q].pc # "idle"]]
    BY DEF P!Commit
  <2>2. ASSUME NEW q \in Req PROVE [job[q] EXCEPT !.stale = job[q].pc # "idle"] \in P!Job
    BY <1>1 DEF P!Job
  <2>. QED BY <2>1, <2>2, BlankIsJob
<1>9. /\ txn' \in [Req -> P!Txn] /\ txn'[r] = P!NoWrite
      /\ \A q \in Req : q # r => txn'[q] = txn[q]
  <2>1. txn' = [txn EXCEPT ![r] = P!NoWrite] /\ P!NoWrite \in P!Txn
    BY DEF P!Commit, P!NoWrite, P!Txn
  <2>. QED BY <1>1, <2>1
<1>. QED BY <1>2, <1>3, <1>7, <1>8, <1>9

LEMMA CommitChange == ASSUME P!IInv, NEW r \in Req, P!Commit(r) PROVE P!IInv'
<1>1. /\ P!TypeOK /\ job \in [Req -> P!Job] /\ txn \in [Req -> P!Txn] /\ nextRow \in Nat
      /\ history \in SUBSET P!Old /\ IsFiniteSet(history) /\ P!Phase(r)
  BY SizeOf DEF P!IInv, P!TypeOK, P!Ordered, P!Local
<1>2. PICK add \in SUBSET P!Old, del \in SUBSET P!Old : add = txn[r].add /\ del = txn[r].del
  BY <1>1 DEF P!Txn
<1>3. history' = (history \ del) \union add /\ nextRow' = nextRow
  BY <1>2, CommitChangeSets DEF P!Seen
<1>4. \A h \in add : /\ h.id < nextRow /\ \A k \in history : k.id # h.id
                     /\ \A k \in add : k = h
  BY <1>2 DEF P!IInv, P!Local, P!Phase
<1>5. P!TypeOK'
  <2>1. history' \in SUBSET P!Old
    BY <1>1, <1>2, <1>3
  <2>. QED BY <1>1, <1>3, <2>1, CommitChangeSets
           DEF P!TypeOK, P!Job, P!Txn, P!Account, P!Old, P!Columns
<1>6. P!Ordered'
  <2>1. IsFiniteSet(add)
    <3>1. CASE add = {}
      BY <3>1, FS_EmptySet
    <3>2. CASE add # {}
      <4>1. PICK h \in add : TRUE
        BY <3>2
      <4>2. add = {h}
        BY <1>4
      <4>. QED BY <4>2, FS_Singleton
    <3>. QED BY <3>1, <3>2
  <2>2. IsFiniteSet(history \ del)
    <3>1. history \ del \in SUBSET history
      OBVIOUS
    <3>. QED BY <1>1, <3>1, FS_Subset
  <2>3. IsFiniteSet(history')
    BY <1>3, <2>1, <2>2, FS_Union
  <2>4. /\ \A h \in history' : h.id < nextRow'
        /\ \A h, k \in history' : h.id = k.id => h = k
    BY <1>3, <1>4 DEF P!IInv, P!Ordered
  <2>. QED BY <2>3, <2>4, SizeOf DEF P!Ordered
<1>7. /\ P!Blank.pc = "idle" /\ P!NoWrite.add = {} /\ P!NoWrite.del = {} /\ P!NoWrite.row = <<>>
  BY DEF P!Blank, P!NoWrite
<1>8. P!Local(r)'
  <2>1. job'[r].pc = "idle" /\ txn'[r].add = {} /\ txn'[r].del = {} /\ txn'[r].row = <<>>
    BY <1>7, CommitChangeSets
  <2>. QED BY <2>1 DEF P!Local, P!Phase
<1>9. ASSUME NEW q \in Req, q # r PROVE P!Local(q)'
  <2>1. PICK i \in P!Job : i = job[q]
    BY <1>1
  <2>2. job'[q] = [i EXCEPT !.stale = i.pc # "idle"] /\ txn'[q] = txn[q]
    BY <1>9, <2>1, CommitChangeSets
  <2>3. PICK j : j = job'[q]
    OBVIOUS
  <2>4. /\ j.pc = i.pc /\ j.op = i.op /\ j.new = i.new /\ j.copy = i.copy
        /\ i.pc # "idle" => j.stale
    BY <2>1, <2>2, <2>3 DEF P!Job
  <2>5. P!Phase(q)
    BY DEF P!IInv, P!Local
  <2>6. P!Changed(q)' = P!Changed(q)
    BY <2>1, <2>3, <2>4 DEF P!Changed
  <2>7. \A h \in txn[q].add, k \in history' : k.id # h.id
    <3>1. P!Apart(q, r)
      BY <1>9 DEF P!IInv
    <3>. QED BY <1>2, <1>3, <2>5, <3>1 DEF P!Apart, P!Phase
  <2>8. P!Phase(q)'
    BY <1>3, <2>1, <2>2, <2>3, <2>4, <2>5, <2>6, <2>7 DEF P!Phase
  <2>. QED BY <2>3, <2>4, <2>8 DEF P!Local
<1>10. ASSUME NEW q \in Req, NEW p \in Req, q # p PROVE P!Apart(q, p)'
  <2>1. P!Apart(q, p) /\ P!NoWrite.add = {}
    BY <1>7, <1>10 DEF P!IInv
  <2>. QED BY <2>1, CommitChangeSets DEF P!Apart
<1>. QED BY <1>5, <1>6, <1>8, <1>9, <1>10 DEF P!IInv

\* What an undisturbed change has promised.
LEMMA ChangeRemembers == ASSUME P!IInv, NEW r \in Req, P!Commit(r), ~job[r].stale
                         PROVE  P!Remembers(r)
<1>1. /\ job[r].pc = "commit" /\ P!Fresh(r) /\ P!Phase(r)
      /\ history \in SUBSET P!Old /\ IsFiniteSet(history) /\ txn \in [Req -> P!Txn]
      /\ nextRow \in Nat /\ Kept \in Nat \ {0}
  BY CommitChangeSets, SizeOf, PasswordAssumption
     DEF P!IInv, P!Local, P!TypeOK, P!Ordered, P!Size
<1>2. /\ job[r].copy = account /\ job[r].new # account.hash
      /\ \A h \in P!Newest(history, Kept) : h.hash # job[r].new
  BY <1>1 DEF P!Fresh, P!Phase
<1>3. PICK h \in txn[r].add : txn[r].add = {h} /\ \A k \in history : k.id < h.id
  BY <1>1 DEF P!Fresh
<1>4. h \in P!Old /\ h.hash = account.hash
  BY <1>1, <1>2, <1>3 DEF P!Phase, P!Txn
<1>5. PICK all : all = history \union {h}
  OBVIOUS
<1>6. history' = P!Newest(all, Kept)
  BY <1>1, <1>3, <1>5, CommitChangeSets DEF P!Fresh
<1>7. h \in history' /\ P!Newest(history, Kept - 1) \subseteq history'
  BY <1>1, <1>3, <1>4, <1>5, <1>6, AddRow
<1>8. all \in SUBSET P!Old /\ IsFiniteSet(all)
  BY <1>1, <1>4, <1>5, FS_AddElement
<1>9. history' \in SUBSET all /\ IsFiniteSet(history') /\ history' \in SUBSET P!Old
  <2>1. history' \in SUBSET all
    BY <1>6, IsNewest
  <2>. QED BY <1>8, <2>1, FS_Subset
<1>10. P!Newest(history', 1) = {h}
  <2>1. PICK rows \in SUBSET P!Old : rows = history' /\ IsFiniteSet(rows)
    BY <1>9
  <2>2. h \in rows /\ \A k \in rows : k = h \/ k.id < h.id
    BY <1>3, <1>5, <1>7, <1>9, <2>1
  <2>3. P!Newest(rows, 1) = {h}
    BY <2>1, <2>2, OneNewest
  <2>. QED BY <2>1, <2>3
<1>11. P!Cardinality(history') <= Kept
  <2>1. \A x, y \in all : x.id = y.id => x = y
    <3>1. \A x \in history : x.id # h.id
      <4>1. \A x \in history : x.id \in Nat /\ h.id \in Nat
        BY <1>1, <1>4 DEF P!Old
      <4>. QED BY <1>3, <4>1
    <3>. QED BY <1>5, <3>1 DEF P!IInv, P!Ordered
  <2>2. Cardinality(P!Newest(all, Kept)) <= Kept
    BY <1>1, <1>8, <2>1, NewestAreFew
  <2>. QED BY <1>6, <2>2, SizeOf
<1>12. account'.hash = job[r].new /\ account'.must = (job[r].op = "reset")
  BY <1>2, CommitChangeSets
<1>13. {x.hash : x \in P!Newest(history', 1)} = {account.hash}
  BY <1>4, <1>10
<1>. QED BY <1>2, <1>7, <1>11, <1>12, <1>13 DEF P!Remembers

LEMMA PasswordsInit == P!Init => P!IInv
<1>. SUFFICES ASSUME P!Init PROVE P!IInv
  OBVIOUS
<1>1. /\ account \in P!Account /\ handed = TRUE /\ history = {} /\ nextRow = 1
      /\ job = [r \in Req |-> P!Blank] /\ txn = [r \in Req |-> P!NoWrite]
  BY DEF P!Init, P!Account
<1>2. /\ P!NoWrite \in P!Txn /\ P!NoWrite.add = {} /\ P!NoWrite.del = {} /\ P!NoWrite.row = <<>>
  BY DEF P!NoWrite, P!Txn
<1>3. P!TypeOK
  BY <1>1, <1>2, BlankIsJob DEF P!TypeOK
<1>4. P!Ordered
  BY <1>1, FS_EmptySet, SizeOf DEF P!Ordered
<1>5. ASSUME NEW r \in Req PROVE P!Local(r)
  BY <1>1, <1>2, BlankIsJob DEF P!Local, P!Phase
<1>6. ASSUME NEW q \in Req, NEW r \in Req PROVE P!Apart(q, r)
  BY <1>1, <1>2 DEF P!Apart
<1>. QED BY <1>3, <1>4, <1>5, <1>6 DEF P!IInv

\* All steps but the commit.
Prepares(r) == \/ \E op \in {"own", "reset"}, new \in Password : P!Begin(r, op, new)
               \/ P!CheckRecent(r) \/ P!AppendHistory(r) \/ P!ChooseVictims(r)
               \/ P!Prune(r) \/ P!WriteAccount(r)

LEMMA PreparesOrCommits == P!Next <=> \E r \in Req : Prepares(r) \/ P!Commit(r)
BY DEF P!Next, Prepares

LEMMA PasswordsStep == P!IInv /\ [P!Next]_VarsP => P!IInv'
<1>. SUFFICES ASSUME P!IInv, [P!Next]_VarsP PROVE P!IInv'
  OBVIOUS
<1>1. ASSUME NEW r \in Req, Prepares(r) PROVE P!IInv'
  BY <1>1, BeginChange, CheckRecentStep, AppendStep, ChooseVictimsStep, PruneStep,
     WriteAccountStep DEF Prepares
<1>2. ASSUME UNCHANGED VarsP PROVE P!IInv'
  <2>1. /\ account' = account /\ history' = history /\ nextRow' = nextRow /\ handed' = handed
        /\ job' = job /\ txn' = txn
    BY <1>2 DEF VarsP
  <2>2. nextRow' \in Nat /\ nextRow <= nextRow'
    BY <2>1 DEF P!IInv, P!TypeOK
  <2>3. P!TypeOK'
    BY <2>1 DEF P!IInv, P!TypeOK, P!Job, P!Txn, P!Account, P!Old, P!Columns
  <2>4. P!Ordered'
    BY <2>1, SizeOf DEF P!IInv, P!Ordered
  <2>5. ASSUME NEW q \in Req PROVE P!Local(q)'
    BY <2>1, <2>2, OthersChange
  <2>6. ASSUME NEW q \in Req, NEW p \in Req, q # p PROVE P!Apart(q, p)'
    BY <2>1, <2>6 DEF P!IInv, P!Apart
  <2>. QED BY <2>3, <2>4, <2>5, <2>6 DEF P!IInv
<1>. QED BY <1>1, <1>2, CommitChange, PreparesOrCommits

LEMMA PreparesOnly == ASSUME NEW r \in Req, Prepares(r) PROVE UNCHANGED <<account, history>>
BY DEF Prepares, P!Begin, P!CheckRecent, P!AppendHistory, P!ChooseVictims, P!Prune, P!WriteAccount

\* Each commit of an undisturbed change is as promised.
RemembersAll == \A r \in Req : P!At(r, "commit") /\ job'[r].pc = "idle" /\ ~job[r].stale
                                 => P!Remembers(r)

LEMMA RemembersStep == P!IInv /\ [P!Next]_VarsP => [RemembersAll]_<<account, history>>
<1>. SUFFICES ASSUME P!IInv, P!Next, ~UNCHANGED <<account, history>>, NEW r \in Req,
                     job[r].pc = "commit", job'[r].pc = "idle", ~job[r].stale
              PROVE  P!Remembers(r)
  BY DEF RemembersAll, P!At, VarsP
<1>1. PICK q \in Req : P!Commit(q)
  BY PreparesOrCommits, PreparesOnly
<1>2. CASE q # r
  <2>1. job'[r] = [job[r] EXCEPT !.stale = job[r].pc # "idle"] /\ job[r] \in P!Job
    BY <1>1, <1>2, CommitChangeSets DEF P!IInv, P!TypeOK
  <2>. QED BY <2>1 DEF P!Job
<1>. QED BY <1>1, <1>2, ChangeRemembers

\* The inductive invariant of the passwords.
THEOREM PasswordsInvariant == MCSpec => []P!IInv
<1>1. MCInit => P!IInv
  BY PasswordsInit DEF MCInit
<1>2. P!IInv /\ [MCNext /\ UNCHANGED part]_<<part, vars, VarsP, VarsL, VarsD, VarsN>> => P!IInv'
  <2>1. ASSUME [MCNext /\ UNCHANGED part]_<<part, vars, VarsP, VarsL, VarsD, VarsN>>
        PROVE  [P!Next]_VarsP
    BY <2>1 DEF MCNext
  <2>. QED BY <2>1, PasswordsStep
<1>. QED BY <1>1, <1>2, PTL DEF MCSpec

\* However many changes of a password overlap and however many passwords are
\* kept: who is not disturbed refuses the last of them and remembers the one he
\* replaces, and prunes the others (UndisturbedRemembers).
THEOREM PasswordsAreRemembered == MCSpec => UndisturbedRemembers
<1>1. P!IInv /\ [MCNext /\ UNCHANGED part]_<<part, vars, VarsP, VarsL, VarsD, VarsN>>
        => [RemembersAll]_<<account, history>>
  <2>1. ASSUME [MCNext /\ UNCHANGED part]_<<part, vars, VarsP, VarsL, VarsD, VarsN>>
        PROVE  [P!Next]_VarsP
    BY <2>1 DEF MCNext
  <2>. QED BY <2>1, RemembersStep
<1>2. MCSpec => [][RemembersAll]_<<account, history>>
  BY <1>1, PasswordsInvariant, PTL DEF MCSpec
<1>. QED BY <1>2 DEF UndisturbedRemembers, P!UndisturbedRemembers, RemembersAll

-------------------------------------------------------------------------------
\* Dictionaries.  A table of rows and what requests have written of it.

\* Columns are those of some row.
LEMMA ColsOfDict ==
    ASSUME NEW w \in D!DictCols
    PROVE  \E C \in SUBSET {"state", "code", "on"}, y \in D!DictRow : w = [c \in C |-> y[c]]
<1>. DEFINE Part(C, y) == [c \in C |-> y[c]]
            Names == SUBSET {"state", "code", "on"}
<1>1. w \in {Part(C, y) : C \in Names, y \in D!DictRow}
  <2>1. D!DictCols = {Part(C, y) : C \in Names, y \in D!DictRow}
    BY DEF D!DictCols
  <2>. QED BY <2>1
<1>2. \E C \in Names, y \in D!DictRow : w = Part(C, y)
  <2>. HIDE DEF Part, Names
  <2>. QED BY <1>1
<1>. QED BY <1>2

LEMMA ColsOfItem ==
    ASSUME NEW w \in D!ItemCols
    PROVE  \E C \in SUBSET {"state", "dict", "value", "on", "default"}, y \in D!ItemRow :
              w = [c \in C |-> y[c]]
<1>. DEFINE Part(C, y) == [c \in C |-> y[c]]
            Names == SUBSET {"state", "dict", "value", "on", "default"}
<1>1. w \in {Part(C, y) : C \in Names, y \in D!ItemRow}
  <2>1. D!ItemCols = {Part(C, y) : C \in Names, y \in D!ItemRow}
    BY DEF D!ItemCols
  <2>. QED BY <2>1
<1>2. \E C \in Names, y \in D!ItemRow : w = Part(C, y)
  <2>. HIDE DEF Part, Names
  <2>. QED BY <1>1
<1>. QED BY <1>2

LEMMA DictSet == ASSUME NEW x \in D!DictRow, NEW w \in D!DictCols
                 PROVE  /\ D!Set(x, w) \in D!DictRow
                        /\ DOMAIN w \subseteq DOMAIN x
                        /\ DOMAIN w = {} => D!Set(x, w) = x
<1>1. PICK C \in SUBSET {"state", "code", "on"}, y \in D!DictRow : w = [c \in C |-> y[c]]
  BY ColsOfDict
<1>2. DOMAIN x = {"state", "code", "on"} /\ DOMAIN w = C
  BY <1>1 DEF D!DictRow
<1>3. D!Set(x, w) = [state |-> IF "state" \in C THEN y.state ELSE x.state,
                     code |-> IF "code" \in C THEN y.code ELSE x.code,
                     on |-> IF "on" \in C THEN y.on ELSE x.on]
  BY <1>1, <1>2 DEF D!Set
<1>4. D!Set(x, w) \in D!DictRow
  BY <1>3 DEF D!DictRow
<1>5. ASSUME C = {} PROVE D!Set(x, w) = x
  BY <1>3, <1>5 DEF D!DictRow
<1>. QED BY <1>2, <1>4, <1>5

LEMMA ItemSet == ASSUME NEW x \in D!ItemRow, NEW w \in D!ItemCols
                 PROVE  /\ D!Set(x, w) \in D!ItemRow
                        /\ DOMAIN w \subseteq DOMAIN x
                        /\ DOMAIN w = {} => D!Set(x, w) = x
<1>1. PICK C \in SUBSET {"state", "dict", "value", "on", "default"}, y \in D!ItemRow :
         w = [c \in C |-> y[c]]
  BY ColsOfItem
<1>2. DOMAIN x = {"state", "dict", "value", "on", "default"} /\ DOMAIN w = C
  BY <1>1 DEF D!ItemRow
<1>3. D!Set(x, w) = [state |-> IF "state" \in C THEN y.state ELSE x.state,
                     dict |-> IF "dict" \in C THEN y.dict ELSE x.dict,
                     value |-> IF "value" \in C THEN y.value ELSE x.value,
                     on |-> IF "on" \in C THEN y.on ELSE x.on,
                     default |-> IF "default" \in C THEN y.default ELSE x.default]
  BY <1>1, <1>2 DEF D!Set
<1>4. D!Set(x, w) \in D!ItemRow
  BY <1>3 DEF D!ItemRow
<1>5. ASSUME C = {} PROVE D!Set(x, w) = x
  BY <1>3, <1>5 DEF D!ItemRow
<1>. QED BY <1>2, <1>4, <1>5

LEMMA ChangedCols == ASSUME NEW x, NEW w
                     PROVE  /\ w \in D!DictCols => D!Changed(x, w) \in D!DictCols
                            /\ w \in D!ItemCols => D!Changed(x, w) \in D!ItemCols
<1>. DEFINE K == {c \in DOMAIN w : w[c] # x[c]}
<1>1. ASSUME w \in D!DictCols PROVE D!Changed(x, w) \in D!DictCols
  <2>1. PICK C \in SUBSET {"state", "code", "on"}, y \in D!DictRow : w = [c \in C |-> y[c]]
    BY <1>1, ColsOfDict
  <2>2. K \in SUBSET {"state", "code", "on"} /\ D!Changed(x, w) = [c \in K |-> y[c]]
    BY <2>1 DEF D!Changed
  <2>. QED BY <2>2 DEF D!DictCols
<1>2. ASSUME w \in D!ItemCols PROVE D!Changed(x, w) \in D!ItemCols
  <2>1. PICK C \in SUBSET {"state", "dict", "value", "on", "default"}, y \in D!ItemRow :
           w = [c \in C |-> y[c]]
    BY <1>2, ColsOfItem
  <2>2. /\ K \in SUBSET {"state", "dict", "value", "on", "default"}
        /\ D!Changed(x, w) = [c \in K |-> y[c]]
    BY <2>1 DEF D!Changed
  <2>. QED BY <2>2 DEF D!ItemCols
<1>. QED BY <1>1, <1>2

LEMMA SetChanged == ASSUME NEW x, NEW w
                    PROVE  D!Set(x, D!Changed(x, w)) = D!Set(x, w)
BY DEF D!Set, D!Changed

LEMMA NoCols == /\ D!Nothing \in D!DictCols /\ D!Nothing \in D!ItemCols
                /\ DOMAIN D!Nothing = {}
                /\ D!NoWrite \in D!Txn
                /\ D!Touched(D!NoWrite.dict) = {} /\ D!Touched(D!NoWrite.item) = {}
<1>1. DOMAIN D!Nothing = {}
  BY DEF D!Nothing
<1>2. D!NoDict \in D!DictRow /\ D!NoItem \in D!ItemRow
  BY DEF D!NoDict, D!DictRow, D!NoItem, D!ItemRow
<1>3. D!Nothing = [c \in {} |-> D!NoDict[c]] /\ D!Nothing = [c \in {} |-> D!NoItem[c]]
  BY DEF D!Nothing
<1>4. D!Nothing \in D!DictCols
  <2>1. \A C \in SUBSET {"state", "code", "on"}, x \in D!DictRow :
           [c \in C |-> x[c]] \in D!DictCols
    BY DEF D!DictCols
  <2>2. [c \in {} |-> D!NoDict[c]] \in D!DictCols
    BY <1>2, <2>1
  <2>. QED BY <1>3, <2>2
<1>5. D!Nothing \in D!ItemCols
  <2>1. \A C \in SUBSET {"state", "dict", "value", "on", "default"}, x \in D!ItemRow :
           [c \in C |-> x[c]] \in D!ItemCols
    BY DEF D!ItemCols
  <2>2. [c \in {} |-> D!NoItem[c]] \in D!ItemCols
    BY <1>2, <2>1
  <2>. QED BY <1>3, <2>2
<1>6. /\ D!NoWrite.dict = [d \in Dict |-> D!Nothing] /\ D!NoWrite.item = [i \in Item |-> D!Nothing]
      /\ D!NoWrite \in D!Txn
  BY <1>4, <1>5 DEF D!NoWrite, D!Txn
<1>7. D!Touched(D!NoWrite.dict) = {} /\ D!Touched(D!NoWrite.item) = {}
  BY <1>1, <1>6 DEF D!Touched
<1>. QED BY <1>1, <1>4, <1>5, <1>6, <1>7

\* A table whose rows are functions.
Table(rows) == \A x \in DOMAIN rows : rows[x] = [c \in DOMAIN rows[x] |-> rows[x][c]]

LEMMA OverOf == ASSUME NEW rows, Table(rows), NEW w, DOMAIN w = DOMAIN rows
                PROVE  /\ DOMAIN D!Over(rows, w) = DOMAIN rows /\ Table(D!Over(rows, w))
                       /\ \A x \in DOMAIN rows : D!Over(rows, w)[x] = D!Set(rows[x], w[x])
                       /\ \A x \in DOMAIN rows :
                             x \notin D!Touched(w) => D!Over(rows, w)[x] = rows[x]
                       /\ D!Touched(w) \subseteq DOMAIN rows
<1>1. D!Over(rows, w) = [x \in DOMAIN rows |-> D!Set(rows[x], w[x])]
  BY DEF D!Over
<1>2. ASSUME NEW x \in DOMAIN rows, x \notin D!Touched(w) PROVE D!Over(rows, w)[x] = rows[x]
  <2>1. DOMAIN w[x] = {}
    BY <1>2 DEF D!Touched
  <2>2. D!Set(rows[x], w[x]) = [c \in DOMAIN rows[x] |-> rows[x][c]]
    BY <2>1 DEF D!Set
  <2>. QED BY <1>1, <2>2 DEF Table
<1>3. \A x \in DOMAIN rows : D!Set(rows[x], w[x]) =
                               [c \in DOMAIN D!Set(rows[x], w[x]) |-> D!Set(rows[x], w[x])[c]]
  BY DEF D!Set
<1>4. Table(D!Over(rows, w))
  BY <1>1, <1>3 DEF Table
<1>5. D!Touched(w) \subseteq DOMAIN rows
  BY DEF D!Touched
<1>. QED BY <1>1, <1>2, <1>4, <1>5

LEMMA NothingOver == ASSUME NEW rows, Table(rows), NEW S, DOMAIN rows = S, rows = [x \in S |-> rows[x]],
                            NEW w, DOMAIN w = S, D!Touched(w) = {}
                     PROVE  D!Over(rows, w) = rows
<1>1. D!Over(rows, w) = [x \in S |-> D!Over(rows, w)[x]]
  BY DEF D!Over
<1>2. \A x \in S : D!Over(rows, w)[x] = rows[x]
  BY OverOf
<1>. QED BY <1>1, <1>2

LEMMA AddOf == ASSUME NEW rows, Table(rows), NEW v, DOMAIN v = DOMAIN rows, NEW w, DOMAIN w = DOMAIN rows,
                      D!Touched(v) \intersect D!Touched(w) = {}
               PROVE  /\ DOMAIN D!Add(v, w) = DOMAIN rows
                      /\ D!Touched(D!Add(v, w)) = D!Touched(v) \union D!Touched(w)
                      /\ D!Over(rows, D!Add(v, w)) = D!Over(D!Over(rows, v), w)
                      /\ \A x \in D!Touched(v) : D!Over(rows, D!Add(v, w))[x] = D!Over(rows, v)[x]
                      /\ \A x \in D!Touched(w) : D!Over(rows, D!Add(v, w))[x] = D!Over(rows, w)[x]
<1>. DEFINE S == DOMAIN rows
<1>1. PICK u : u = D!Add(v, w)
  OBVIOUS
<1>2. u = [x \in S |-> IF x \in D!Touched(w) THEN w[x] ELSE v[x]] /\ DOMAIN u = S
  BY <1>1 DEF D!Add
<1>3. D!Touched(u) = D!Touched(v) \union D!Touched(w)
  <2>1. \A x : x \in D!Touched(v) <=> x \in S /\ DOMAIN v[x] # {}
    BY DEF D!Touched
  <2>2. \A x : x \in D!Touched(w) <=> x \in S /\ DOMAIN w[x] # {}
    BY DEF D!Touched
  <2>3. \A x : x \in D!Touched(u) <=> x \in S /\ DOMAIN u[x] # {}
    BY <1>2 DEF D!Touched
  <2>4. \A x : x \in D!Touched(u) <=> x \in D!Touched(v) \/ x \in D!Touched(w)
    BY <1>2, <2>1, <2>2, <2>3
  <2>. QED BY <2>4
<1>4. PICK a : a = D!Over(rows, v)
  OBVIOUS
<1>5. DOMAIN a = S /\ Table(a) /\ \A x \in S : a[x] = D!Set(rows[x], v[x])
  BY <1>4, OverOf
<1>6. ASSUME NEW x \in S
      PROVE  /\ D!Over(rows, u)[x] = D!Over(a, w)[x]
             /\ x \in D!Touched(v) => D!Over(rows, u)[x] = a[x]
             /\ x \in D!Touched(w) => D!Over(rows, u)[x] = D!Over(rows, w)[x]
  <2>1. /\ D!Over(rows, u)[x] = D!Set(rows[x], u[x])
        /\ D!Over(rows, w)[x] = D!Set(rows[x], w[x])
        /\ D!Over(a, w)[x] = D!Set(a[x], w[x])
    BY <1>2, <1>5, OverOf
  <2>2. CASE x \in D!Touched(w)
    <3>1. x \notin D!Touched(v) /\ u[x] = w[x] /\ a[x] = rows[x]
      BY <1>2, <1>4, <2>2, OverOf
    <3>. QED BY <2>1, <3>1
  <2>3. CASE x \notin D!Touched(w)
    <3>1. u[x] = v[x] /\ D!Over(a, w)[x] = a[x]
      BY <1>2, <1>5, <2>3, OverOf
    <3>. QED BY <1>5, <2>1, <2>3, <3>1
  <2>. QED BY <2>2, <2>3
<1>7. D!Over(rows, u) = D!Over(a, w)
  <2>1. /\ D!Over(rows, u) = [x \in S |-> D!Over(rows, u)[x]]
        /\ D!Over(a, w) = [x \in S |-> D!Over(a, w)[x]]
    BY <1>5 DEF D!Over
  <2>. QED BY <1>6, <2>1
<1>8. D!Touched(v) \subseteq S /\ D!Touched(w) \subseteq S
  BY DEF D!Touched
<1>. QED BY <1>1, <1>2, <1>3, <1>4, <1>6, <1>7, <1>8

LEMMA FlushIsUnique == ASSUME NEW rows, Table(rows), NEW w, DOMAIN w = DOMAIN rows,
                              D!Unique(rows), ~D!Clash(rows, w)
                       PROVE  D!Unique(D!Over(rows, w))
<1>. DEFINE S == DOMAIN rows
<1>1. /\ DOMAIN D!Over(rows, w) = S
      /\ \A x \in S : x \notin D!Touched(w) => D!Over(rows, w)[x] = rows[x]
  BY OverOf
<1>2. SUFFICES ASSUME NEW x \in S, NEW y \in S, x # y
               PROVE  D!Keys(D!Over(rows, w)[x]) \intersect D!Keys(D!Over(rows, w)[y]) = {}
  BY <1>1 DEF D!Unique
<1>3. CASE x \in D!Touched(w) \/ y \in D!Touched(w)
  BY <1>2, <1>3 DEF D!Clash
<1>4. CASE x \notin D!Touched(w) /\ y \notin D!Touched(w)
  BY <1>1, <1>2, <1>4 DEF D!Unique
<1>. QED BY <1>3, <1>4

LEMMA FlushIsDisjoint == ASSUME NEW rows, Table(rows), NEW u, DOMAIN u = DOMAIN rows,
                                NEW v, DOMAIN v = DOMAIN rows, NEW w, DOMAIN w = DOMAIN rows,
                                D!Touched(v) \intersect D!Touched(w) = {},
                                D!Disjoint(rows, u, v), ~D!Meets(rows, w, u)
                         PROVE  D!Disjoint(rows, u, D!Add(v, w))
<1>1. PICK a : a = D!Add(v, w)
  OBVIOUS
<1>2. /\ D!Touched(a) = D!Touched(v) \union D!Touched(w)
      /\ \A x \in D!Touched(v) : D!Over(rows, a)[x] = D!Over(rows, v)[x]
      /\ \A x \in D!Touched(w) : D!Over(rows, a)[x] = D!Over(rows, w)[x]
  BY <1>1, AddOf
<1>3. ASSUME NEW x \in D!Touched(u), NEW y \in D!Touched(v)
      PROVE  x # y /\ D!Keys(D!Over(rows, u)[x]) \intersect D!Keys(D!Over(rows, a)[y]) = {}
  BY <1>2 DEF D!Disjoint
<1>4. ASSUME NEW x \in D!Touched(u), NEW y \in D!Touched(w)
      PROVE  x # y /\ D!Keys(D!Over(rows, u)[x]) \intersect D!Keys(D!Over(rows, a)[y]) = {}
  BY <1>2 DEF D!Meets
<1>5. D!Disjoint(rows, u, a)
  BY <1>2, <1>3, <1>4 DEF D!Disjoint
<1>. QED BY <1>1, <1>5

LEMMA DisjointBothWays == ASSUME NEW rows, NEW v, NEW w, D!Disjoint(rows, v, w)
                          PROVE  D!Disjoint(rows, w, v)
BY DEF D!Disjoint

LEMMA CommitIsUnique == ASSUME NEW rows, Table(rows), NEW v, DOMAIN v = DOMAIN rows,
                               NEW w, DOMAIN w = DOMAIN rows,
                               D!Unique(D!Over(rows, v)), D!Unique(D!Over(rows, w)),
                               D!Disjoint(rows, v, w)
                        PROVE  D!Unique(D!Over(D!Over(rows, v), w))
<1>. DEFINE S == DOMAIN rows
<1>1. PICK a : a = D!Over(rows, v)
  OBVIOUS
<1>2. PICK b : b = D!Over(rows, w)
  OBVIOUS
<1>3. PICK e : e = D!Over(a, w)
  OBVIOUS
<1>4. /\ DOMAIN a = S /\ Table(a)
      /\ \A x \in S : x \notin D!Touched(v) => a[x] = rows[x]
  BY <1>1, OverOf
<1>5. /\ DOMAIN b = S
      /\ \A x \in S : b[x] = D!Set(rows[x], w[x])
      /\ \A x \in S : x \notin D!Touched(w) => b[x] = rows[x]
  BY <1>2, OverOf
<1>6. /\ DOMAIN e = S
      /\ \A x \in S : e[x] = D!Set(a[x], w[x])
      /\ \A x \in S : x \notin D!Touched(w) => e[x] = a[x]
  BY <1>3, <1>4, OverOf
<1>7. /\ \A x \in D!Touched(w) : x \notin D!Touched(v)
      /\ \A x \in D!Touched(v), y \in D!Touched(w) : D!Keys(a[x]) \intersect D!Keys(b[y]) = {}
  BY <1>1, <1>2 DEF D!Disjoint
<1>8. \A x \in S : x \in D!Touched(w) => e[x] = b[x]
  BY <1>4, <1>5, <1>6, <1>7
<1>9. /\ \A x, y \in S : x # y => D!Keys(a[x]) \intersect D!Keys(a[y]) = {}
      /\ \A x, y \in S : x # y => D!Keys(b[x]) \intersect D!Keys(b[y]) = {}
  BY <1>1, <1>2, <1>4, <1>5 DEF D!Unique
<1>10. ASSUME NEW x \in S, NEW y \in S, x # y, x \in D!Touched(w)
       PROVE  D!Keys(e[x]) \intersect D!Keys(e[y]) = {}
  <2>1. CASE y \in D!Touched(v)
    BY <1>6, <1>7, <1>8, <1>10, <2>1
  <2>2. CASE y \notin D!Touched(v)
    <3>1. e[y] = b[y]
      BY <1>4, <1>5, <1>6, <1>8, <2>2
    <3>. QED BY <1>8, <1>9, <1>10, <3>1
  <2>. QED BY <2>1, <2>2
<1>11. ASSUME NEW x \in S, NEW y \in S, x # y, x \notin D!Touched(w), y \notin D!Touched(w)
       PROVE  D!Keys(e[x]) \intersect D!Keys(e[y]) = {}
  BY <1>6, <1>9, <1>11
<1>12. D!Unique(e)
  BY <1>6, <1>10, <1>11 DEF D!Unique
<1>. QED BY <1>1, <1>3, <1>12

LEMMA CommitIsDisjoint == ASSUME NEW rows, Table(rows), NEW u, DOMAIN u = DOMAIN rows,
                                 NEW v, DOMAIN v = DOMAIN rows, NEW w, DOMAIN w = DOMAIN rows,
                                 D!Disjoint(rows, v, u), D!Disjoint(rows, v, w),
                                 D!Disjoint(rows, u, w)
                          PROVE  D!Disjoint(D!Over(rows, v), u, w)
<1>1. PICK a : a = D!Over(rows, v)
  OBVIOUS
<1>2. /\ DOMAIN a = DOMAIN rows /\ Table(a)
      /\ \A x \in DOMAIN rows : x \notin D!Touched(v) => a[x] = rows[x]
  BY <1>1, OverOf
<1>3. ASSUME NEW x \in DOMAIN rows, x \notin D!Touched(v)
      PROVE  /\ D!Over(a, u)[x] = D!Over(rows, u)[x]
             /\ D!Over(a, w)[x] = D!Over(rows, w)[x]
  <2>1. /\ D!Over(a, u)[x] = D!Set(a[x], u[x]) /\ D!Over(rows, u)[x] = D!Set(rows[x], u[x])
        /\ D!Over(a, w)[x] = D!Set(a[x], w[x]) /\ D!Over(rows, w)[x] = D!Set(rows[x], w[x])
    BY <1>2, OverOf
  <2>. QED BY <1>2, <1>3, <2>1
<1>4. /\ \A x \in D!Touched(u) : x \in DOMAIN rows /\ x \notin D!Touched(v)
      /\ \A x \in D!Touched(w) : x \in DOMAIN rows /\ x \notin D!Touched(v)
  BY DEF D!Disjoint, D!Touched
<1>5. D!Disjoint(a, u, w)
  BY <1>3, <1>4 DEF D!Disjoint
<1>. QED BY <1>1, <1>5

\* A table in which nothing takes up more keys than it did.
LEMMA FewerKeys == ASSUME NEW rows, D!Unique(rows), NEW w, DOMAIN w = DOMAIN rows,
                          \A x \in DOMAIN rows : D!Keys(D!Over(rows, w)[x]) \subseteq D!Keys(rows[x])
                   PROVE  ~D!Clash(rows, w)
<1>. D!Touched(w) \subseteq DOMAIN rows
  BY DEF D!Touched
<1>. QED BY DEF D!Clash, D!Unique

LEMMA OnlyOf == ASSUME NEW S, NEW y \in S, NEW w
                PROVE  /\ DOMAIN D!Only(S, y, w) = S
                       /\ D!Touched(D!Only(S, y, w)) = IF DOMAIN w = {} THEN {} ELSE {y}
                       /\ D!Only(S, y, w)[y] = w
<1>1. D!Only(S, y, w) = [x \in S |-> IF x = y THEN w ELSE D!Nothing]
  BY DEF D!Only
<1>2. DOMAIN D!Nothing = {}
  BY NoCols
<1>. QED BY <1>1, <1>2 DEF D!Touched

LEMMA Tables == ASSUME D!TypeOK
                PROVE  /\ Table(dict) /\ DOMAIN dict = Dict /\ dict \in [Dict -> D!DictRow]
                       /\ Table(item) /\ DOMAIN item = Item /\ item \in [Item -> D!ItemRow]
                       /\ editor \in [Req -> D!Job] /\ written \in [Req -> D!Txn]
                       /\ \A r \in Req : /\ written[r].dict \in [Dict -> D!DictCols]
                                         /\ DOMAIN written[r].dict = Dict
                                         /\ written[r].item \in [Item -> D!ItemCols]
                                         /\ DOMAIN written[r].item = Item
<1>1. \A x \in D!DictRow : x = [c \in DOMAIN x |-> x[c]]
  BY DEF D!DictRow
<1>2. \A x \in D!ItemRow : x = [c \in DOMAIN x |-> x[c]]
  BY DEF D!ItemRow
<1>3. /\ dict \in [Dict -> D!DictRow] /\ item \in [Item -> D!ItemRow]
      /\ editor \in [Req -> D!Job] /\ written \in [Req -> D!Txn]
  BY DEF D!TypeOK
<1>4. Table(dict) /\ Table(item)
  BY <1>1, <1>2, <1>3 DEF Table
<1>5. \A r \in Req : /\ written[r].dict \in [Dict -> D!DictCols]
                     /\ written[r].item \in [Item -> D!ItemCols]
  BY <1>3 DEF D!Txn
<1>. QED BY <1>3, <1>4, <1>5

LEMMA OverTypes == /\ \A rows \in [Dict -> D!DictRow], w \in [Dict -> D!DictCols] :
                         D!Over(rows, w) \in [Dict -> D!DictRow]
                   /\ \A rows \in [Item -> D!ItemRow], w \in [Item -> D!ItemCols] :
                         D!Over(rows, w) \in [Item -> D!ItemRow]
BY DictSet, ItemSet DEF D!Over

LEMMA AddTypes == ASSUME NEW S, NEW C, NEW v \in [S -> C], NEW w \in [S -> C]
                  PROVE  D!Add(v, w) \in [S -> C]
BY DEF D!Add

LEMMA OnlyTypes == /\ \A d \in Dict, w \in D!DictCols : D!Only(Dict, d, w) \in [Dict -> D!DictCols]
                   /\ \A i \in Item, w \in D!ItemCols : D!Only(Item, i, w) \in [Item -> D!ItemCols]
BY NoCols DEF D!Only

LEMMA DictKeys == ASSUME NEW x \in D!DictRow
                  PROVE  D!Keys(x) = IF x.state = "live" THEN {<<x.code>>} ELSE {}
BY DEF D!Keys, D!DictRow

LEMMA ItemKeys == ASSUME NEW x \in D!ItemRow
                  PROVE  D!Keys(x) = IF x.state # "live" THEN {}
                                     ELSE {<<x.dict, x.value>>} \union
                                          IF x.default THEN {<<x.dict>>} ELSE {}
BY DEF D!Keys, D!ItemRow

LEMMA ItemsMeet == ASSUME NEW x \in D!ItemRow, NEW y \in D!ItemRow,
                          D!Keys(x) \intersect D!Keys(y) # {}
                   PROVE  /\ x.state = "live" /\ y.state = "live" /\ x.dict = y.dict
                          /\ x.value = y.value \/ (x.default /\ y.default)
<1>1. PICK k : k \in D!Keys(x) /\ k \in D!Keys(y)
  OBVIOUS
<1>2. /\ x.state = "live" /\ y.state = "live"
      /\ k = <<x.dict, x.value>> \/ (x.default /\ k = <<x.dict>>)
      /\ k = <<y.dict, y.value>> \/ (y.default /\ k = <<y.dict>>)
  BY <1>1, ItemKeys
<1>3. <<x.dict, x.value>> # <<y.dict>> /\ <<y.dict, y.value>> # <<x.dict>>
  OBVIOUS
<1>4. ASSUME <<x.dict, x.value>> = <<y.dict, y.value>> PROVE x.dict = y.dict /\ x.value = y.value
  BY <1>4
<1>5. ASSUME <<x.dict>> = <<y.dict>> PROVE x.dict = y.dict
  BY <1>5
<1>. QED BY <1>2, <1>3, <1>4, <1>5

-------------------------------------------------------------------------------
\* Steps of one request.

LEMMA OthersLocal == ASSUME UNCHANGED <<dict, item>>, NEW q, D!Local(q),
                            editor'[q] = editor[q], written'[q] = written[q]
                     PROVE  D!Local(q)'
<1>1. D!Phase(q)' <=> D!Phase(q)
  BY DEF D!Phase
<1>2. D!Flushed(q)' <=> D!Flushed(q)
  BY DEF D!Flushed
<1>3. /\ D!DictsSeen(q)' = D!DictsSeen(q) /\ D!ItemsSeen(q)' = D!ItemsSeen(q)
  BY DEF D!DictsSeen, D!ItemsSeen
<1>4. D!Fresh(q)' <=> D!Fresh(q)
  BY <1>3 DEF D!Fresh, D!Taken, D!Done, D!ToClear, D!Listed, D!Live
<1>. QED BY <1>1, <1>2, <1>4 DEF D!Local

LEMMA EditStep == ASSUME D!IInv, NEW r \in Req, NEW j \in D!Job, NEW t \in D!Txn,
                         UNCHANGED <<dict, item>>, editor' = [editor EXCEPT ![r] = j],
                         written' = [written EXCEPT ![r] = t],
                         D!Unique(D!Over(dict, t.dict)), D!Unique(D!Over(item, t.item)),
                         \A q \in Req : q # r => /\ D!Disjoint(dict, written[q].dict, t.dict)
                                                 /\ D!Disjoint(item, written[q].item, t.item),
                         D!Local(r)'
                  PROVE  D!IInv'
<1>1. /\ D!TypeOK /\ D!Unique(dict) /\ D!Unique(item)
      /\ \A q \in Req : D!Unique(D!DictsSeen(q)) /\ D!Unique(D!ItemsSeen(q)) /\ D!Local(q)
      /\ \A p, q \in Req : p # q => D!Apart(p, q)
  BY DEF D!IInv
<1>2. /\ editor \in [Req -> D!Job] /\ written \in [Req -> D!Txn]
      /\ dict \in [Dict -> D!DictRow] /\ item \in [Item -> D!ItemRow]
  BY <1>1 DEF D!TypeOK
<1>3. /\ written'[r] = t /\ editor'[r] = j
      /\ \A q \in Req : q # r => written'[q] = written[q] /\ editor'[q] = editor[q]
  BY <1>2
<1>4. D!TypeOK'
  BY <1>2 DEF D!TypeOK
<1>5. D!Unique(dict)' /\ D!Unique(item)'
  BY <1>1 DEF D!Unique
<1>6. ASSUME NEW q \in Req
      PROVE  D!Unique(D!DictsSeen(q))' /\ D!Unique(D!ItemsSeen(q))' /\ D!Local(q)'
  <2>1. CASE q = r
    <3>1. D!DictsSeen(q)' = D!Over(dict, t.dict) /\ D!ItemsSeen(q)' = D!Over(item, t.item)
      BY <1>3, <2>1 DEF D!DictsSeen, D!ItemsSeen, D!Over
    <3>. QED BY <2>1, <3>1 DEF D!Unique
  <2>2. CASE q # r
    <3>1. D!DictsSeen(q)' = D!DictsSeen(q) /\ D!ItemsSeen(q)' = D!ItemsSeen(q)
      BY <1>3, <2>2 DEF D!DictsSeen, D!ItemsSeen, D!Over
    <3>2. D!Local(q)'
      BY <1>1, <1>3, <2>2, OthersLocal
    <3>. QED BY <1>1, <3>1, <3>2 DEF D!Unique
  <2>. QED BY <2>1, <2>2
<1>7. ASSUME NEW p \in Req, NEW q \in Req, p # q
      PROVE  /\ D!Disjoint(dict, written'[p].dict, written'[q].dict)
             /\ D!Disjoint(item, written'[p].item, written'[q].item)
  <2>1. CASE p = r
    <3>1. D!Disjoint(dict, written[q].dict, t.dict) /\ D!Disjoint(item, written[q].item, t.item)
      BY <1>7, <2>1
    <3>. QED BY <1>3, <1>7, <2>1, <3>1, DisjointBothWays
  <2>2. CASE q = r
    BY <1>3, <1>7, <2>2
  <2>3. CASE p # r /\ q # r
    BY <1>1, <1>3, <1>7, <2>3 DEF D!Apart
  <2>. QED BY <2>1, <2>2, <2>3
<1>8. ASSUME NEW p \in Req, NEW q \in Req, p # q PROVE D!Apart(p, q)'
  <2>1. PICK v : v = written'[p]
    OBVIOUS
  <2>2. PICK w : w = written'[q]
    OBVIOUS
  <2>3. D!Disjoint(dict, v.dict, w.dict) /\ D!Disjoint(item, v.item, w.item)
    BY <1>7, <1>8, <2>1, <2>2
  <2>4. dict' = dict /\ item' = item
    OBVIOUS
  <2>5. D!Disjoint(dict, written[p].dict, written[q].dict)'
    BY <2>1, <2>2, <2>3, <2>4 DEF D!Disjoint
  <2>6. D!Disjoint(item, written[p].item, written[q].item)'
    BY <2>1, <2>2, <2>3, <2>4 DEF D!Disjoint
  <2>. QED BY <2>5, <2>6 DEF D!Apart
<1>. QED BY <1>4, <1>5, <1>6, <1>8 DEF D!IInv

LEMMA NoneWritten == ASSUME D!IInv
                     PROVE  /\ D!Over(dict, D!NoWrite.dict) = dict
                            /\ D!Over(item, D!NoWrite.item) = item
<1>1. /\ D!NoWrite.dict = [d \in Dict |-> D!Nothing] /\ D!NoWrite.item = [i \in Item |-> D!Nothing]
  BY DEF D!NoWrite
<1>2. Table(dict) /\ Table(item) /\ dict \in [Dict -> D!DictRow] /\ item \in [Item -> D!ItemRow]
  BY Tables DEF D!IInv
<1>. QED BY <1>1, <1>2, NothingOver, NoCols

LEMMA BlankJob == /\ D!Blank \in D!Job /\ D!Blank.pc = "idle" /\ D!Blank.op = "none"
                  /\ D!Blank.item = None
<1>1. D!Nothing \in UNION {[S -> D!ItemRow] : S \in SUBSET Item}
  <2>1. D!Nothing \in [{} -> D!ItemRow]
    BY DEF D!Nothing
  <2>. QED BY <2>1
<1>2. D!Nothing \in D!DictCols
  BY NoCols
<1>. QED BY <1>1, <1>2 DEF D!Blank, D!Job, D!Op, D!Pc

\* Who has written nothing.
LEMMA QuietStep == ASSUME D!IInv, NEW r \in Req, NEW j \in D!Job, UNCHANGED <<dict, item>>,
                          editor' = [editor EXCEPT ![r] = j],
                          written' = [written EXCEPT ![r] = D!NoWrite], D!Local(r)'
                   PROVE  D!IInv'
<1>1. D!NoWrite \in D!Txn /\ D!Touched(D!NoWrite.dict) = {} /\ D!Touched(D!NoWrite.item) = {}
  BY NoCols
<1>2. /\ D!Unique(D!Over(dict, D!NoWrite.dict)) /\ D!Unique(D!Over(item, D!NoWrite.item))
  BY NoneWritten DEF D!IInv
<1>3. \A q \in Req : /\ D!Disjoint(dict, written[q].dict, D!NoWrite.dict)
                     /\ D!Disjoint(item, written[q].item, D!NoWrite.item)
  BY <1>1 DEF D!Disjoint
<1>. QED BY <1>1, <1>2, <1>3, EditStep

LEMMA RaiseStep == ASSUME D!IInv, NEW r \in Req, D!Raise(r) PROVE D!IInv'
<1>1. /\ UNCHANGED <<dict, item>> /\ editor' = [editor EXCEPT ![r] = D!Blank]
      /\ written' = [written EXCEPT ![r] = D!NoWrite]
  BY DEF D!Raise
<1>2. editor'[r] = D!Blank /\ written'[r] = D!NoWrite
  BY <1>1 DEF D!IInv, D!TypeOK
<1>3. D!Local(r)'
  BY <1>2, BlankJob DEF D!Local, D!Phase, D!Flushed
<1>. QED BY <1>1, <1>3, BlankJob, QuietStep

\* What a flush has written that no unique index has refused.
Accepts(r, dw, iw) == ~D!Clash(D!DictsSeen(r), dw) /\ ~D!Clash(D!ItemsSeen(r), iw)

LEMMA FlushStep == ASSUME D!IInv, NEW r \in Req, NEW dw \in [Dict -> D!DictCols],
                          NEW iw \in [Item -> D!ItemCols], NEW j \in D!Job, D!Flush(r, dw, iw, j),
                          D!Touched(written[r].dict) \intersect D!Touched(dw) = {},
                          D!Touched(written[r].item) \intersect D!Touched(iw) = {},
                          Accepts(r, dw, iw) => D!Local(r)'
                   PROVE  D!IInv'
<1>1. CASE ~Accepts(r, dw, iw)
  BY <1>1, RaiseStep DEF Accepts, D!Flush
<1>2. CASE Accepts(r, dw, iw)
  <2>1. PICK v \in [Dict -> D!DictCols] : v = written[r].dict
    BY Tables DEF D!IInv
  <2>2. PICK w \in [Item -> D!ItemCols] : w = written[r].item
    BY Tables DEF D!IInv
  <2>3. PICK t : t = [dict |-> D!Add(v, dw), item |-> D!Add(w, iw)]
    OBVIOUS
  <2>4. t \in D!Txn /\ t.dict = D!Add(v, dw) /\ t.item = D!Add(w, iw)
    BY <2>3, AddTypes DEF D!Txn
  <2>5. /\ UNCHANGED <<dict, item>> /\ editor' = [editor EXCEPT ![r] = j]
        /\ written' = [written EXCEPT ![r] = t]
    BY <1>2, <2>1, <2>2, <2>3 DEF D!Flush, Accepts
  <2>6. /\ Table(dict) /\ DOMAIN dict = Dict /\ Table(item) /\ DOMAIN item = Item
        /\ DOMAIN v = Dict /\ DOMAIN w = Item /\ DOMAIN dw = Dict /\ DOMAIN iw = Item
    BY Tables DEF D!IInv
  <2>7. D!Unique(D!Over(dict, t.dict))
    <3>1. /\ D!Over(dict, t.dict) = D!Over(D!Over(dict, v), dw)
          /\ Table(D!Over(dict, v)) /\ DOMAIN D!Over(dict, v) = Dict
      BY <2>1, <2>4, <2>6, AddOf, OverOf
    <3>2. D!Unique(D!Over(dict, v)) /\ ~D!Clash(D!Over(dict, v), dw)
      BY <1>2, <2>1 DEF Accepts, D!DictsSeen, D!IInv
    <3>. QED BY <2>6, <3>1, <3>2, FlushIsUnique
  <2>8. D!Unique(D!Over(item, t.item))
    <3>1. /\ D!Over(item, t.item) = D!Over(D!Over(item, w), iw)
          /\ Table(D!Over(item, w)) /\ DOMAIN D!Over(item, w) = Item
      BY <2>2, <2>4, <2>6, AddOf, OverOf
    <3>2. D!Unique(D!Over(item, w)) /\ ~D!Clash(D!Over(item, w), iw)
      BY <1>2, <2>2 DEF Accepts, D!ItemsSeen, D!IInv
    <3>. QED BY <2>6, <3>1, <3>2, FlushIsUnique
  <2>9. ASSUME NEW q \in Req, q # r
        PROVE  /\ D!Disjoint(dict, written[q].dict, t.dict)
               /\ D!Disjoint(item, written[q].item, t.item)
    <3>1. /\ D!Disjoint(dict, written[q].dict, v) /\ D!Disjoint(item, written[q].item, w)
      BY <2>1, <2>2, <2>9 DEF D!IInv, D!Apart
    <3>2. ~D!Meets(dict, dw, written[q].dict) /\ ~D!Meets(item, iw, written[q].item)
      BY <2>9 DEF D!Flush, D!Waits
    <3>3. DOMAIN written[q].dict = Dict /\ DOMAIN written[q].item = Item
      BY Tables DEF D!IInv
    <3>. QED BY <2>1, <2>2, <2>4, <2>6, <3>1, <3>2, <3>3, FlushIsDisjoint
  <2>. QED BY <1>2, <2>4, <2>5, <2>7, <2>8, <2>9, EditStep
<1>. QED BY <1>1, <1>2

LEMMA AcceptedFlush == ASSUME D!IInv, NEW r \in Req, NEW dw, NEW iw, NEW j, D!Flush(r, dw, iw, j),
                              Accepts(r, dw, iw)
                       PROVE  /\ UNCHANGED <<dict, item>> /\ editor'[r] = j
                              /\ written'[r].dict = D!Add(written[r].dict, dw)
                              /\ written'[r].item = D!Add(written[r].item, iw)
<1>1. editor \in [Req -> D!Job] /\ written \in [Req -> D!Txn]
  BY DEF D!IInv, D!TypeOK
<1>2. /\ UNCHANGED <<dict, item>> /\ editor' = [editor EXCEPT ![r] = j]
      /\ written' = [written EXCEPT ![r] = [dict |-> D!Add(written[r].dict, dw),
                                            item |-> D!Add(written[r].item, iw)]]
  BY DEF D!Flush, Accepts
<1>. QED BY <1>1, <1>2

\* A job of which one part is changed.
\* A request that goes on means to write what it meant before.
LEMMA PhaseGoesOn ==
    ASSUME NEW r \in Req, D!Phase(r), NEW j \in D!Job, j = editor[r],
           NEW k, k = editor'[r], k.op = j.op, k.cols = j.cols, j.op # "none",
           j.op # "addDict" => k.dict = j.dict,
           k.pc # "commit" => j.pc # "commit" /\ k.item = j.item,
           j.op # "addItem" => k.item = j.item \/ j.op \in {"addDict", "setDict", "delDict"},
           k.pc \in {"list", "clear", "write", "commit"},
           k.pc \in {"list", "clear"} =>
              \/ j.op = "delDict"
              \/ D!AsksDefault(j.cols) /\ j.op \in {"addItem", "setItem"}
    PROVE  D!Phase(r)'
<1>1. j.op \in {"addDict", "setDict", "delDict", "addItem", "setItem", "delItem"}
  <2>1. j.op \in D!Op
    BY DEF D!Job
  <2>. QED BY <2>1 DEF D!Op
<1>2. CASE j.op = "addDict"
  BY <1>2 DEF D!Phase
<1>3. CASE j.op = "setDict"
  BY <1>3 DEF D!Phase
<1>4. CASE j.op = "delDict"
  BY <1>4 DEF D!Phase
<1>5. CASE j.op = "addItem"
  BY <1>5 DEF D!Phase
<1>6. CASE j.op = "setItem"
  BY <1>6 DEF D!Phase
<1>7. CASE j.op = "delItem"
  BY <1>7 DEF D!Phase
<1>. QED BY <1>1, <1>2, <1>3, <1>4, <1>5, <1>6, <1>7

\* One that is only found stale has not moved.
LEMMA SamePhase ==
    ASSUME NEW r \in Req, D!Phase(r), NEW j \in D!Job, j = editor[r],
           NEW k, k = editor'[r], k.op = j.op, k.cols = j.cols, k.pc = j.pc,
           k.dict = j.dict, k.item = j.item
    PROVE  D!Phase(r)'
<1>1. j.op \in {"none", "addDict", "setDict", "delDict", "addItem", "setItem", "delItem"}
  <2>1. j.op \in D!Op
    BY DEF D!Job
  <2>. QED BY <2>1 DEF D!Op
<1>2. CASE j.op \in {"none", "addDict"}
  BY <1>2 DEF D!Phase
<1>3. CASE j.op \in {"setDict", "delDict"}
  BY <1>3 DEF D!Phase
<1>4. CASE j.op = "addItem"
  BY <1>4 DEF D!Phase
<1>5. CASE j.op = "setItem"
  BY <1>5 DEF D!Phase
<1>6. CASE j.op = "delItem"
  BY <1>6 DEF D!Phase
<1>. QED BY <1>1, <1>2, <1>3, <1>4, <1>5, <1>6

LEMMA JobParts == ASSUME NEW j \in D!Job
                  PROVE  /\ \A b \in BOOLEAN : [j EXCEPT !.stale = b] \in D!Job
                         /\ \A p \in D!Pc : [j EXCEPT !.pc = p] \in D!Job
                         /\ \A d \in Dict : [j EXCEPT !.dict = d] \in D!Job
                         /\ \A i \in Item : [j EXCEPT !.item = i] \in D!Job
                         /\ \A S \in SUBSET Item :
                               \A f \in [S -> D!ItemRow] : [j EXCEPT !.found = f] \in D!Job
                         /\ j.dict \in Dict \union {None}
<1>1. PICK A : A = D!DictCols \union D!ItemCols
  OBVIOUS
<1>2. PICK B : B = D!DictRow \union D!ItemRow \union {D!Nothing}
  OBVIOUS
<1>3. PICK E : E = UNION {[S -> D!ItemRow] : S \in SUBSET Item}
  OBVIOUS
<1>4. PICK F : F = Dict \union {None}
  OBVIOUS
<1>5. PICK G : G = Item \union {None}
  OBVIOUS
<1>6. D!Job = [op : D!Op, pc : D!Pc, dict : F, item : G, cols : A, copy : B, found : E,
               stale : BOOLEAN]
  BY <1>1, <1>2, <1>3, <1>4, <1>5 DEF D!Job
<1>7. \A S \in SUBSET Item : \A f \in [S -> D!ItemRow] : f \in E
  BY <1>3
<1>8. Dict \subseteq F /\ Item \subseteq G
  BY <1>4, <1>5
<1>9. \A f \in E : [j EXCEPT !.found = f] \in D!Job
  BY <1>6
<1>10. j.dict \in F
  BY <1>6
<1>. QED BY <1>4, <1>6, <1>7, <1>8, <1>9, <1>10

LEMMA CommitEdit == ASSUME D!IInv, NEW r \in Req, D!Commit(r) PROVE D!IInv'
<1>1. /\ D!TypeOK /\ D!Unique(dict) /\ D!Unique(item)
      /\ \A q \in Req : D!Unique(D!DictsSeen(q)) /\ D!Unique(D!ItemsSeen(q)) /\ D!Local(q)
      /\ \A p, q \in Req : p # q => D!Apart(p, q)
  BY DEF D!IInv
<1>2. /\ Table(dict) /\ DOMAIN dict = Dict /\ dict \in [Dict -> D!DictRow]
      /\ Table(item) /\ DOMAIN item = Item /\ item \in [Item -> D!ItemRow]
      /\ editor \in [Req -> D!Job] /\ written \in [Req -> D!Txn]
      /\ \A q \in Req : /\ written[q].dict \in [Dict -> D!DictCols] /\ DOMAIN written[q].dict = Dict
                        /\ written[q].item \in [Item -> D!ItemCols] /\ DOMAIN written[q].item = Item
  BY <1>1, Tables
<1>3. PICK v \in [Dict -> D!DictCols] : v = written[r].dict
  BY <1>2
<1>4. PICK w \in [Item -> D!ItemCols] : w = written[r].item
  BY <1>2
<1>5. PICK ds : ds = D!Over(dict, v)
  OBVIOUS
<1>6. PICK is : is = D!Over(item, w)
  OBVIOUS
<1>7. /\ dict' = ds /\ item' = is /\ written' = [written EXCEPT ![r] = D!NoWrite]
      /\ editor' = [q \in Req |-> IF q = r THEN D!Blank
                                  ELSE [editor[q] EXCEPT !.stale = editor[q].pc # "idle"]]
  BY <1>3, <1>4, <1>5, <1>6 DEF D!Commit, D!DictsSeen, D!ItemsSeen
<1>8. /\ ds \in [Dict -> D!DictRow] /\ is \in [Item -> D!ItemRow]
      /\ Table(ds) /\ Table(is) /\ DOMAIN ds = Dict /\ DOMAIN is = Item
      /\ D!Unique(ds) /\ D!Unique(is)
  <2>1. ds \in [Dict -> D!DictRow] /\ is \in [Item -> D!ItemRow]
    BY <1>2, <1>5, <1>6, OverTypes
  <2>2. Table(ds) /\ Table(is)
    BY <1>2, <1>3, <1>4, <1>5, <1>6, OverOf
  <2>3. D!Unique(ds) /\ D!Unique(is)
    BY <1>1, <1>3, <1>4, <1>5, <1>6 DEF D!DictsSeen, D!ItemsSeen
  <2>. QED BY <2>1, <2>2, <2>3
<1>9. /\ written'[r] = D!NoWrite /\ editor'[r] = D!Blank
      /\ \A q \in Req : q # r =>
            /\ written'[q] = written[q]
            /\ editor'[q] = [editor[q] EXCEPT !.stale = editor[q].pc # "idle"]
  BY <1>2, <1>7
<1>10. D!TypeOK'
  <2>1. editor' \in [Req -> D!Job]
    <3>1. ASSUME NEW q \in Req PROVE [editor[q] EXCEPT !.stale = editor[q].pc # "idle"] \in D!Job
      <4>1. PICK j \in D!Job : j = editor[q]
        BY <1>2
      <4>2. PICK b \in BOOLEAN : b = (j.pc # "idle")
        OBVIOUS
      <4>3. [j EXCEPT !.stale = b] \in D!Job
        BY JobParts
      <4>. QED BY <4>1, <4>2, <4>3
    <3>. QED BY <1>7, <3>1, BlankJob
  <2>2. written' \in [Req -> D!Txn]
    BY <1>2, <1>7, NoCols
  <2>. QED BY <1>7, <1>8, <2>1, <2>2 DEF D!TypeOK
<1>11. D!Unique(dict)' /\ D!Unique(item)'
  BY <1>7, <1>8 DEF D!Unique
<1>12. ASSUME NEW q \in Req, q # r
       PROVE  /\ D!Unique(D!Over(ds, written[q].dict)) /\ D!Unique(D!Over(is, written[q].item))
              /\ D!Disjoint(dict, v, written[q].dict) /\ D!Disjoint(item, w, written[q].item)
  <2>1. D!Disjoint(dict, v, written[q].dict) /\ D!Disjoint(item, w, written[q].item)
    BY <1>1, <1>3, <1>4, <1>12 DEF D!Apart
  <2>2. D!Unique(D!Over(dict, written[q].dict)) /\ D!Unique(D!Over(item, written[q].item))
    BY <1>1 DEF D!DictsSeen, D!ItemsSeen
  <2>3. D!Unique(D!Over(dict, v)) /\ D!Unique(D!Over(item, w))
    BY <1>5, <1>6, <1>8
  <2>4. DOMAIN v = Dict /\ DOMAIN w = Item
    OBVIOUS
  <2>5. D!Unique(D!Over(D!Over(dict, v), written[q].dict))
    BY <1>2, <2>1, <2>2, <2>3, <2>4, CommitIsUnique
  <2>6. D!Unique(D!Over(D!Over(item, w), written[q].item))
    BY <1>2, <2>1, <2>2, <2>3, <2>4, CommitIsUnique
  <2>. QED BY <1>5, <1>6, <2>1, <2>5, <2>6
<1>13. ASSUME NEW q \in Req
       PROVE  D!Unique(D!DictsSeen(q))' /\ D!Unique(D!ItemsSeen(q))'
  <2>1. CASE q = r
    <3>1. D!Over(ds, D!NoWrite.dict) = ds /\ D!Over(is, D!NoWrite.item) = is
      <4>1. /\ D!NoWrite.dict = [d \in Dict |-> D!Nothing]
            /\ D!NoWrite.item = [i \in Item |-> D!Nothing]
        BY DEF D!NoWrite
      <4>. QED BY <1>8, <4>1, NothingOver, NoCols
    <3>2. D!DictsSeen(q)' = ds /\ D!ItemsSeen(q)' = is
      BY <1>7, <1>9, <2>1, <3>1 DEF D!DictsSeen, D!ItemsSeen, D!Over
    <3>. QED BY <1>8, <3>2 DEF D!Unique
  <2>2. CASE q # r
    <3>1. PICK x : x = written[q].dict
      OBVIOUS
    <3>2. PICK y : y = written[q].item
      OBVIOUS
    <3>3. /\ D!DictsSeen(q)' = D!Over(ds, x) /\ D!ItemsSeen(q)' = D!Over(is, y)
      BY <1>7, <1>9, <2>2, <3>1, <3>2 DEF D!DictsSeen, D!ItemsSeen, D!Over
    <3>4. D!Unique(D!Over(ds, x)) /\ D!Unique(D!Over(is, y))
      BY <1>12, <2>2, <3>1, <3>2
    <3>. QED BY <3>3, <3>4 DEF D!Unique
  <2>. QED BY <2>1, <2>2
<1>14. ASSUME NEW q \in Req PROVE D!Local(q)'
  <2>1. CASE q = r
    BY <1>9, <2>1, BlankJob DEF D!Local, D!Phase, D!Flushed
  <2>2. CASE q # r
    <3>1. PICK j \in D!Job : j = editor[q]
      BY <1>2
    <3>2. PICK k : k = [j EXCEPT !.stale = j.pc # "idle"]
      OBVIOUS
    <3>3. /\ k.op = j.op /\ k.pc = j.pc /\ k.dict = j.dict /\ k.item = j.item /\ k.cols = j.cols
          /\ k.copy = j.copy /\ k.found = j.found /\ k.stale = (j.pc # "idle")
      BY <3>2 DEF D!Job
    <3>4. editor'[q] = k /\ written'[q] = written[q]
      BY <1>9, <2>2, <3>1, <3>2
    <3>5. D!Phase(q) /\ D!Flushed(q)
      BY <1>1 DEF D!Local
    <3>6. D!Phase(q)'
      BY <3>1, <3>3, <3>4, <3>5, SamePhase
    <3>7. D!Flushed(q)'
      BY <3>1, <3>3, <3>4, <3>5 DEF D!Flushed
    <3>. QED BY <3>3, <3>4, <3>6, <3>7 DEF D!Local
  <2>. QED BY <2>1, <2>2
<1>15. ASSUME NEW p \in Req, NEW q \in Req, p # q PROVE D!Apart(p, q)'
  <2>1. PICK a : a = written'[p]
    OBVIOUS
  <2>2. PICK b : b = written'[q]
    OBVIOUS
  <2>3. D!Disjoint(ds, a.dict, b.dict) /\ D!Disjoint(is, a.item, b.item)
    <3>1. CASE p = r \/ q = r
      <4>1. a = D!NoWrite \/ b = D!NoWrite
        BY <1>9, <2>1, <2>2, <3>1
      <4>. QED BY <4>1, NoCols DEF D!Disjoint
    <3>2. CASE p # r /\ q # r
      <4>1. a = written[p] /\ b = written[q]
        BY <1>9, <2>1, <2>2, <3>2
      <4>2. /\ D!Disjoint(dict, v, a.dict) /\ D!Disjoint(item, w, a.item)
            /\ D!Disjoint(dict, v, b.dict) /\ D!Disjoint(item, w, b.item)
        BY <1>12, <3>2, <4>1
      <4>3. D!Disjoint(dict, a.dict, b.dict) /\ D!Disjoint(item, a.item, b.item)
        BY <1>1, <1>15, <4>1 DEF D!Apart
      <4>4. /\ DOMAIN v = Dict /\ DOMAIN a.dict = Dict /\ DOMAIN b.dict = Dict
            /\ DOMAIN w = Item /\ DOMAIN a.item = Item /\ DOMAIN b.item = Item
        BY <1>2, <4>1
      <4>5. D!Disjoint(D!Over(dict, v), a.dict, b.dict)
        BY <1>2, <4>2, <4>3, <4>4, CommitIsDisjoint
      <4>6. D!Disjoint(D!Over(item, w), a.item, b.item)
        BY <1>2, <4>2, <4>3, <4>4, CommitIsDisjoint
      <4>. QED BY <1>5, <1>6, <4>5, <4>6
    <3>. QED BY <3>1, <3>2
  <2>4. dict' = ds /\ item' = is
    BY <1>7
  <2>5. /\ D!Disjoint(dict', written'[p].dict, written'[q].dict)
        /\ D!Disjoint(item', written'[p].item, written'[q].item)
    BY <2>1, <2>2, <2>3, <2>4
  <2>6. /\ D!Disjoint(dict, written[p].dict, written[q].dict)'
        /\ D!Disjoint(item, written[p].item, written[q].item)'
    BY <2>5
  <2>. QED BY <2>6 DEF D!Apart
<1>. QED BY <1>10, <1>11, <1>13, <1>14, <1>15 DEF D!IInv

-------------------------------------------------------------------------------
\* An edit begins.

LEMMA EditInit == D!Init \/ D!Empty => D!IInv
<1>. SUFFICES ASSUME D!Init \/ D!Empty PROVE D!IInv
  OBVIOUS
<1>1. D!NoDict \in D!DictRow /\ D!NoItem \in D!ItemRow
  BY DEF D!NoDict, D!DictRow, D!NoItem, D!ItemRow
<1>2. editor = [r \in Req |-> D!Blank] /\ written = [r \in Req |-> D!NoWrite]
  BY DEF D!Init, D!Empty
<1>3. /\ dict \in [Dict -> D!DictRow] /\ item \in [Item -> D!ItemRow]
      /\ D!Unique(dict) /\ D!Unique(item)
  <2>1. CASE D!Init
    <3>1. [state : {"live"}, code : Code, on : {TRUE}] \subseteq D!DictRow
      BY DEF D!DictRow
    <3>2. [state : {"gone"}, code : Code, on : {FALSE}] \subseteq D!DictRow
      BY DEF D!DictRow
    <3>3. [state : {"live"}, dict : Dict, value : Value, on : {TRUE}, default : BOOLEAN]
            \subseteq D!ItemRow
      BY DEF D!ItemRow
    <3>4. PICK A : A = [state : {"live"}, code : Code, on : {TRUE}]
      OBVIOUS
    <3>5. PICK B : B = [state : {"gone"}, code : Code, on : {FALSE}]
      OBVIOUS
    <3>6. PICK E : E = [state : {"live"}, dict : Dict, value : Value, on : {TRUE}, default : BOOLEAN]
      OBVIOUS
    <3>7. /\ dict \in [Dict -> {D!NoDict} \union A \union B] /\ item \in [Item -> {D!NoItem} \union E]
          /\ D!Unique(dict) /\ D!Unique(item)
      BY <2>1, <3>4, <3>5, <3>6 DEF D!Init
    <3>8. A \subseteq D!DictRow /\ B \subseteq D!DictRow /\ E \subseteq D!ItemRow
      BY <3>1, <3>2, <3>3, <3>4, <3>5, <3>6
    <3>. QED BY <1>1, <3>7, <3>8
  <2>2. CASE D!Empty
    <3>1. dict = [d \in Dict |-> D!NoDict] /\ item = [i \in Item |-> D!NoItem]
      BY <2>2 DEF D!Empty
    <3>2. D!Keys(D!NoDict) = {} /\ D!Keys(D!NoItem) = {}
      BY DEF D!Keys, D!NoDict, D!NoItem
    <3>. QED BY <1>1, <3>1, <3>2 DEF D!Unique
  <2>. QED BY <2>1, <2>2
<1>4. D!TypeOK
  BY <1>2, <1>3, BlankJob, NoCols DEF D!TypeOK
<1>5. Table(dict) /\ Table(item) /\ DOMAIN dict = Dict /\ DOMAIN item = Item
  BY <1>4, Tables
<1>6. D!Over(dict, D!NoWrite.dict) = dict /\ D!Over(item, D!NoWrite.item) = item
  <2>1. /\ D!NoWrite.dict = [d \in Dict |-> D!Nothing]
        /\ D!NoWrite.item = [i \in Item |-> D!Nothing]
    BY DEF D!NoWrite
  <2>. QED BY <1>3, <1>5, <2>1, NothingOver, NoCols
<1>7. ASSUME NEW r \in Req
      PROVE  D!Unique(D!DictsSeen(r)) /\ D!Unique(D!ItemsSeen(r)) /\ D!Local(r)
  <2>1. editor[r] = D!Blank /\ written[r] = D!NoWrite
    BY <1>2
  <2>2. D!DictsSeen(r) = dict /\ D!ItemsSeen(r) = item
    BY <1>6, <2>1 DEF D!DictsSeen, D!ItemsSeen
  <2>3. D!Local(r)
    BY <2>1, BlankJob DEF D!Local, D!Phase, D!Flushed
  <2>. QED BY <1>3, <2>2, <2>3
<1>8. ASSUME NEW q \in Req, NEW r \in Req PROVE D!Apart(q, r)
  BY <1>2, NoCols DEF D!Apart, D!Disjoint
<1>. QED BY <1>3, <1>4, <1>7, <1>8 DEF D!IInv

NewJob(op, pc, d, i, cols, copy) ==
    [op |-> op, pc |-> pc, dict |-> d, item |-> i, cols |-> cols, copy |-> copy,
     found |-> D!Nothing, stale |-> FALSE]

LEMMA NewJobType == ASSUME NEW op \in D!Op, NEW pc \in D!Pc, NEW d \in Dict \union {None},
                           NEW i \in Item \union {None}, NEW cols \in D!DictCols \union D!ItemCols,
                           NEW copy \in D!DictRow \union D!ItemRow \union {D!Nothing}
                    PROVE  NewJob(op, pc, d, i, cols, copy) \in D!Job
<1>1. D!Nothing \in UNION {[S -> D!ItemRow] : S \in SUBSET Item}
  <2>1. D!Nothing \in [{} -> D!ItemRow]
    BY DEF D!Nothing
  <2>. QED BY <2>1
<1>2. PICK A : A = D!DictCols \union D!ItemCols
  OBVIOUS
<1>3. PICK B : B = D!DictRow \union D!ItemRow \union {D!Nothing}
  OBVIOUS
<1>4. PICK E : E = UNION {[S -> D!ItemRow] : S \in SUBSET Item}
  OBVIOUS
<1>5. PICK F : F = Dict \union {None}
  OBVIOUS
<1>6. PICK G : G = Item \union {None}
  OBVIOUS
<1>7. D!Job = [op : D!Op, pc : D!Pc, dict : F, item : G, cols : A, copy : B, found : E,
               stale : BOOLEAN]
  BY <1>2, <1>3, <1>4, <1>5, <1>6 DEF D!Job
<1>8. cols \in A /\ copy \in B /\ D!Nothing \in E /\ d \in F /\ i \in G
  BY <1>1, <1>2, <1>3, <1>4, <1>5, <1>6
<1>. QED BY <1>7, <1>8 DEF NewJob

\* What the requests write.
LEMMA RequestCols == /\ \A c \in Code : [state |-> "live", code |-> c, on |-> TRUE] \in D!DictCols
                     /\ \A b \in BOOLEAN : [on |-> b] \in D!DictCols
                     /\ [state |-> "gone", on |-> FALSE] \in D!DictCols
                     /\ \A d \in Dict, v \in Value, b \in BOOLEAN :
                          [state |-> "live", dict |-> d, value |-> v, on |-> TRUE, default |-> b]
                             \in D!ItemCols
                     /\ [state |-> "gone", on |-> FALSE, default |-> FALSE] \in D!ItemCols
                     /\ [default |-> FALSE] \in D!ItemCols
<1>1. \A C \in SUBSET {"state", "code", "on"}, x \in D!DictRow : [c \in C |-> x[c]] \in D!DictCols
  BY DEF D!DictCols
<1>2. \A C \in SUBSET {"state", "dict", "value", "on", "default"}, x \in D!ItemRow :
         [c \in C |-> x[c]] \in D!ItemCols
  BY DEF D!ItemCols
<1>3. ASSUME NEW c \in Code PROVE [state |-> "live", code |-> c, on |-> TRUE] \in D!DictCols
  <2>1. PICK x \in D!DictRow : x = [state |-> "live", code |-> c, on |-> TRUE]
    BY DEF D!DictRow
  <2>2. x = [k \in {"state", "code", "on"} |-> x[k]]
    BY <2>1
  <2>. QED BY <1>1, <2>1, <2>2
<1>4. ASSUME NEW b \in BOOLEAN PROVE [on |-> b] \in D!DictCols
  <2>1. PICK x \in D!DictRow : x = [state |-> "gone", code |-> None, on |-> b]
    BY DEF D!DictRow
  <2>2. [on |-> b] = [k \in {"on"} |-> x[k]]
    BY <2>1
  <2>3. [k \in {"on"} |-> x[k]] \in D!DictCols
    BY <1>1
  <2>. QED BY <2>2, <2>3
<1>5. ASSUME NEW b \in BOOLEAN PROVE [state |-> "gone", on |-> b] \in D!DictCols
  <2>1. PICK x \in D!DictRow : x = [state |-> "gone", code |-> None, on |-> b]
    BY DEF D!DictRow
  <2>2. [state |-> "gone", on |-> b] = [k \in {"state", "on"} |-> x[k]]
    BY <2>1
  <2>3. [k \in {"state", "on"} |-> x[k]] \in D!DictCols
    BY <1>1
  <2>. QED BY <2>2, <2>3
<1>6. ASSUME NEW d \in Dict, NEW v \in Value, NEW b \in BOOLEAN
      PROVE  [state |-> "live", dict |-> d, value |-> v, on |-> TRUE, default |-> b] \in D!ItemCols
  <2>1. PICK x \in D!ItemRow :
           x = [state |-> "live", dict |-> d, value |-> v, on |-> TRUE, default |-> b]
    BY DEF D!ItemRow
  <2>2. x = [k \in {"state", "dict", "value", "on", "default"} |-> x[k]]
    BY <2>1
  <2>3. [k \in {"state", "dict", "value", "on", "default"} |-> x[k]] \in D!ItemCols
    BY <1>2
  <2>. QED BY <2>1, <2>2, <2>3
<1>7. ASSUME NEW b \in BOOLEAN, NEW e \in BOOLEAN
      PROVE  /\ [state |-> "gone", on |-> b, default |-> e] \in D!ItemCols
             /\ [default |-> e] \in D!ItemCols
  <2>1. PICK x \in D!ItemRow :
           x = [state |-> "gone", dict |-> None, value |-> None, on |-> b, default |-> e]
    BY DEF D!ItemRow
  <2>2. /\ [state |-> "gone", on |-> b, default |-> e] = [k \in {"state", "on", "default"} |-> x[k]]
        /\ [default |-> e] = [k \in {"default"} |-> x[k]]
    BY <2>1
  <2>3. /\ [k \in {"state", "on", "default"} |-> x[k]] \in D!ItemCols
        /\ [k \in {"default"} |-> x[k]] \in D!ItemCols
    BY <1>2
  <2>. QED BY <2>2, <2>3
<1>. QED BY <1>3, <1>4, <1>5, <1>6, <1>7

LEMMA NamedCols == ASSUME NEW cols \in D!Named
                   PROVE  /\ cols \in D!ItemCols /\ DOMAIN cols \subseteq {"value", "on", "default"}
                          /\ "value" \in DOMAIN cols => cols.value \in Value
                          /\ "default" \in DOMAIN cols => cols.default \in BOOLEAN
<1>1. PICK C \in SUBSET {"value", "on", "default"},
           y \in [value : Value, on : BOOLEAN, default : BOOLEAN] : cols = [c \in C |-> y[c]]
  BY DEF D!Named
<1>2. PICK x \in D!ItemRow :
         x = [state |-> "live", dict |-> None, value |-> y.value, on |-> y.on, default |-> y.default]
  BY DEF D!ItemRow
<1>3. C \in SUBSET {"state", "dict", "value", "on", "default"} /\ cols = [c \in C |-> x[c]]
  BY <1>1, <1>2
<1>4. \A S \in SUBSET {"state", "dict", "value", "on", "default"}, z \in D!ItemRow :
         [c \in S |-> z[c]] \in D!ItemCols
  BY DEF D!ItemCols
<1>5. cols \in D!ItemCols
  BY <1>3, <1>4
<1>. QED BY <1>1, <1>5

\* Who has flushed nothing yet moves on.
Quiet == {"idle", "value", "list", "clear"}

LEMMA QuietMove == ASSUME D!IInv, NEW r \in Req, editor[r].pc \in Quiet, NEW j \in D!Job,
                          UNCHANGED <<dict, item, written>>, editor' = [editor EXCEPT ![r] = j]
                   PROVE  /\ written[r] = D!NoWrite /\ written'[r] = D!NoWrite /\ editor'[r] = j
                          /\ D!ItemsSeen(r)' = item /\ D!ItemsSeen(r) = item
                          /\ D!DictsSeen(r) = dict
                          /\ D!Local(r)' => D!IInv'
<1>1. editor \in [Req -> D!Job] /\ written \in [Req -> D!Txn]
  BY DEF D!IInv, D!TypeOK
<1>2. written[r] = D!NoWrite
  <2>1. written[r].dict = D!NoWrite.dict /\ written[r].item = D!NoWrite.item
    BY DEF D!IInv, D!Local, D!Flushed, Quiet
  <2>2. written[r] \in D!Txn /\ D!NoWrite \in D!Txn
    BY <1>1, NoCols
  <2>3. \A s, t \in D!Txn : s.dict = t.dict /\ s.item = t.item => s = t
    <3>1. PICK A : A = [Dict -> D!DictCols]
      OBVIOUS
    <3>2. PICK B : B = [Item -> D!ItemCols]
      OBVIOUS
    <3>3. D!Txn = [dict : A, item : B]
      BY <3>1, <3>2 DEF D!Txn
    <3>. QED BY <3>3
  <2>. QED BY <2>1, <2>2, <2>3
<1>3. written'[r] = D!NoWrite /\ editor'[r] = j
  BY <1>1, <1>2
<1>4. written' = [written EXCEPT ![r] = D!NoWrite]
  BY <1>1, <1>2
<1>5. D!ItemsSeen(r)' = item /\ D!ItemsSeen(r) = item /\ D!DictsSeen(r) = dict
  BY <1>2, <1>3, NoneWritten DEF D!ItemsSeen, D!DictsSeen
<1>. QED BY <1>2, <1>3, <1>4, <1>5, QuietStep

LEMMA BeginAddDictStep == ASSUME D!IInv, NEW r \in Req, NEW c \in Code, D!BeginAddDict(r, c)
                          PROVE  D!IInv'
<1>. DEFINE cols == [state |-> "live", code |-> c, on |-> TRUE]
<1>1. PICK j : j = [D!Blank EXCEPT !.op = "addDict", !.pc = "write", !.cols = cols]
  OBVIOUS
<1>2. j = NewJob("addDict", "write", None, None, cols, D!Nothing)
  BY <1>1 DEF D!Blank, NewJob
<1>3. /\ UNCHANGED <<dict, item, written>> /\ editor' = [editor EXCEPT ![r] = j]
      /\ editor[r].pc \in Quiet /\ \A d \in Dict : <<c>> \notin D!Keys(dict[d])
  BY <1>1 DEF D!BeginAddDict, D!Begin, D!At, Quiet
<1>4. j \in D!Job
  BY <1>2, NewJobType, RequestCols DEF D!Op, D!Pc
<1>5. /\ written'[r] = D!NoWrite /\ editor'[r] = j /\ D!ItemsSeen(r)' = item
      /\ D!Local(r)' => D!IInv'
  BY <1>3, <1>4, QuietMove
<1>6. j.op = "addDict" /\ j.pc = "write" /\ j.cols = cols /\ j.item = None
  BY <1>2 DEF NewJob
<1>7. D!Phase(r)'
  BY <1>5, <1>6 DEF D!Phase
<1>8. D!Flushed(r)'
  BY <1>5, <1>6, NoCols DEF D!Flushed
<1>9. D!Fresh(r)'
  <2>1. dict' = dict
    BY <1>3
  <2>2. \A d \in Dict : <<editor'[r].cols.code>> \notin D!Keys(dict'[d])
    BY <1>3, <1>5, <1>6
  <2>3. D!Touched(written'[r].item) = {} /\ ~D!AsksDefault(editor'[r].cols)
    BY <1>5, <1>6, NoCols DEF D!AsksDefault
  <2>. QED BY <1>5, <1>6, <2>2, <2>3 DEF D!Fresh
<1>. QED BY <1>5, <1>7, <1>8, <1>9 DEF D!Local

LEMMA BeginSetDictStep == ASSUME D!IInv, NEW r \in Req, NEW d \in Dict, NEW b \in BOOLEAN,
                                 D!BeginSetDict(r, d, b)
                          PROVE  D!IInv'
<1>. DEFINE cols == [on |-> b]
<1>1. PICK j : j = [D!Blank EXCEPT !.op = "setDict", !.pc = "write", !.dict = d, !.cols = cols, !.copy = dict[d]]
  OBVIOUS
<1>2. j = NewJob("setDict", "write", d, None, cols, dict[d])
  BY <1>1 DEF D!Blank, NewJob
<1>3. /\ UNCHANGED <<dict, item, written>> /\ editor' = [editor EXCEPT ![r] = j]
      /\ editor[r].pc \in Quiet /\ dict[d].state = "live"
  BY <1>1 DEF D!BeginSetDict, D!Begin, D!At, Quiet
<1>4. j \in D!Job
  <2>1. dict[d] \in D!DictRow
    BY Tables DEF D!IInv
  <2>. QED BY <1>2, <2>1, NewJobType, RequestCols DEF D!Op, D!Pc
<1>5. /\ written'[r] = D!NoWrite /\ editor'[r] = j /\ D!ItemsSeen(r)' = item
      /\ D!Local(r)' => D!IInv'
  BY <1>3, <1>4, QuietMove
<1>6. j.op = "setDict" /\ j.pc = "write" /\ j.cols = cols /\ j.dict = d /\ j.copy = dict[d] /\ j.item = None
  BY <1>2 DEF NewJob
<1>7. D!Phase(r)'
  BY <1>5, <1>6 DEF D!Phase
<1>8. D!Flushed(r)'
  BY <1>5, <1>6, NoCols DEF D!Flushed
<1>9. D!Fresh(r)'
  <2>1. D!Touched(written'[r].item) = {} /\ ~D!AsksDefault(editor'[r].cols)
    BY <1>5, <1>6, NoCols DEF D!AsksDefault
  <2>. QED BY <1>3, <1>5, <1>6, <2>1 DEF D!Fresh
<1>. QED BY <1>5, <1>7, <1>8, <1>9 DEF D!Local

LEMMA BeginDelDictStep == ASSUME D!IInv, NEW r \in Req, NEW d \in Dict, D!BeginDelDict(r, d)
                          PROVE  D!IInv'
<1>. DEFINE cols == [state |-> "gone", on |-> FALSE]
<1>1. PICK j : j = [D!Blank EXCEPT !.op = "delDict", !.pc = "list", !.dict = d, !.cols = cols, !.copy = dict[d]]
  OBVIOUS
<1>2. j = NewJob("delDict", "list", d, None, cols, dict[d])
  BY <1>1 DEF D!Blank, NewJob
<1>3. /\ UNCHANGED <<dict, item, written>> /\ editor' = [editor EXCEPT ![r] = j]
      /\ editor[r].pc \in Quiet /\ dict[d].state = "live"
  BY <1>1 DEF D!BeginDelDict, D!Begin, D!At, Quiet
<1>4. j \in D!Job
  <2>1. dict[d] \in D!DictRow
    BY Tables DEF D!IInv
  <2>. QED BY <1>2, <2>1, NewJobType, RequestCols DEF D!Op, D!Pc
<1>5. /\ written'[r] = D!NoWrite /\ editor'[r] = j /\ D!ItemsSeen(r)' = item
      /\ D!Local(r)' => D!IInv'
  BY <1>3, <1>4, QuietMove
<1>6. j.op = "delDict" /\ j.pc = "list" /\ j.cols = cols /\ j.dict = d /\ j.copy = dict[d] /\ j.item = None
  BY <1>2 DEF NewJob
<1>7. D!Phase(r)'
  BY <1>5, <1>6 DEF D!Phase
<1>8. D!Flushed(r)'
  BY <1>5, <1>6, NoCols DEF D!Flushed
<1>9. D!Fresh(r)'
  BY <1>3, <1>5, <1>6 DEF D!Fresh
<1>. QED BY <1>5, <1>7, <1>8, <1>9 DEF D!Local

LEMMA BeginAddItemStep == ASSUME D!IInv, NEW r \in Req, NEW d \in Dict, NEW v \in Value,
                                 NEW b \in BOOLEAN, D!BeginAddItem(r, d, v, b)
                          PROVE  D!IInv'
<1>. DEFINE cols == [state |-> "live", dict |-> d, value |-> v, on |-> TRUE, default |-> b]
<1>1. PICK j : j = [D!Blank EXCEPT !.op = "addItem", !.pc = "value", !.dict = d, !.cols = cols]
  OBVIOUS
<1>2. j = NewJob("addItem", "value", d, None, cols, D!Nothing)
  BY <1>1 DEF D!Blank, NewJob
<1>3. /\ UNCHANGED <<dict, item, written>> /\ editor' = [editor EXCEPT ![r] = j]
      /\ editor[r].pc \in Quiet /\ dict[d].state = "live"
  BY <1>1 DEF D!BeginAddItem, D!Begin, D!At, Quiet
<1>4. j \in D!Job
  BY <1>2, NewJobType, RequestCols DEF D!Op, D!Pc
<1>5. /\ written'[r] = D!NoWrite /\ editor'[r] = j /\ D!ItemsSeen(r)' = item
      /\ D!Local(r)' => D!IInv'
  BY <1>3, <1>4, QuietMove
<1>6. j.op = "addItem" /\ j.pc = "value" /\ j.cols = cols /\ j.dict = d /\ j.item = None
  BY <1>2 DEF NewJob
<1>7. D!Phase(r)'
  <2>1. \E u \in Value, e \in BOOLEAN :
           j.cols = [state |-> "live", dict |-> j.dict, value |-> u, on |-> TRUE, default |-> e]
    BY <1>6
  <2>2. "value" \in DOMAIN j.cols
    BY <1>6
  <2>. HIDE DEF cols
  <2>. QED BY <1>5, <1>6, <2>1, <2>2 DEF D!Phase
<1>8. D!Flushed(r)'
  BY <1>5, <1>6, NoCols DEF D!Flushed
<1>9. D!Fresh(r)'
  BY <1>3, <1>5, <1>6 DEF D!Fresh
<1>. QED BY <1>5, <1>7, <1>8, <1>9 DEF D!Local

LEMMA BeginSetItemStep == ASSUME D!IInv, NEW r \in Req, NEW i \in Item, NEW cols \in D!Named,
                                 D!BeginSetItem(r, i, cols)
                          PROVE  D!IInv'
<1>. DEFINE pc == IF "value" \in DOMAIN cols THEN "value"
                  ELSE IF D!AsksDefault(cols) THEN "list" ELSE "write"
<1>1. PICK j : j = [D!Blank EXCEPT !.op = "setItem", !.dict = item[i].dict, !.item = i, !.cols = cols,
                                !.copy = item[i], !.pc = pc]
  OBVIOUS
<1>2. j = NewJob("setItem", pc, item[i].dict, i, cols, item[i])
  BY <1>1 DEF D!Blank, NewJob
<1>3. /\ UNCHANGED <<dict, item, written>> /\ editor' = [editor EXCEPT ![r] = j]
      /\ editor[r].pc \in Quiet /\ item[i].state = "live"
  BY <1>1 DEF D!BeginSetItem, D!Begin, D!At, Quiet
<1>4. j \in D!Job
  <2>1. item[i] \in D!ItemRow /\ item[i].dict \in Dict \union {None}
    BY Tables DEF D!IInv, D!ItemRow
  <2>2. cols \in D!ItemCols
    BY NamedCols
  <2>3. pc \in D!Pc /\ "setItem" \in D!Op
    BY DEF D!Pc, D!Op
  <2>. QED BY <1>2, <2>1, <2>2, <2>3, NewJobType
<1>5. /\ written'[r] = D!NoWrite /\ editor'[r] = j /\ D!ItemsSeen(r)' = item
      /\ D!Local(r)' => D!IInv'
  BY <1>3, <1>4, QuietMove
<1>6. /\ j.op = "setItem" /\ j.pc = pc /\ j.cols = cols /\ j.dict = item[i].dict /\ j.item = i
      /\ j.copy = item[i]
  BY <1>2 DEF NewJob
<1>7. D!Phase(r)'
  <2>1. pc = "value" => "value" \in DOMAIN cols
    OBVIOUS
  <2>2. pc = "list" => D!AsksDefault(cols)
    OBVIOUS
  <2>3. pc \in {"value", "list", "write"}
    OBVIOUS
  <2>. HIDE DEF pc
  <2>. QED BY <1>5, <1>6, <2>1, <2>2, <2>3 DEF D!Phase
<1>8. D!Flushed(r)'
  BY <1>5, <1>6, NoCols DEF D!Flushed
<1>9. D!Fresh(r)'
  <2>1. D!Touched(written'[r].item) = {}
    BY <1>5, NoCols
  <2>2. /\ pc = "write" => ~D!AsksDefault(cols)
        /\ "value" \in DOMAIN cols => pc = "value"
        /\ pc \in {"value", "list", "write"}
    OBVIOUS
  <2>. HIDE DEF pc
  <2>. QED BY <1>3, <1>5, <1>6, <2>1, <2>2 DEF D!Fresh
<1>. QED BY <1>5, <1>7, <1>8, <1>9 DEF D!Local

LEMMA BeginDelItemStep == ASSUME D!IInv, NEW r \in Req, NEW i \in Item, D!BeginDelItem(r, i)
                          PROVE  D!IInv'
<1>. DEFINE cols == [state |-> "gone", on |-> FALSE, default |-> FALSE]
<1>1. PICK j : j = [D!Blank EXCEPT !.op = "delItem", !.pc = "write", !.dict = item[i].dict,
                                !.item = i, !.copy = item[i], !.cols = cols]
  OBVIOUS
<1>2. j = NewJob("delItem", "write", item[i].dict, i, cols, item[i])
  BY <1>1 DEF D!Blank, NewJob
<1>3. /\ UNCHANGED <<dict, item, written>> /\ editor' = [editor EXCEPT ![r] = j]
      /\ editor[r].pc \in Quiet /\ item[i].state = "live"
  BY <1>1 DEF D!BeginDelItem, D!Begin, D!At, Quiet
<1>4. j \in D!Job
  <2>1. item[i] \in D!ItemRow /\ item[i].dict \in Dict \union {None}
    BY Tables DEF D!IInv, D!ItemRow
  <2>. QED BY <1>2, <2>1, NewJobType, RequestCols DEF D!Op, D!Pc
<1>5. /\ written'[r] = D!NoWrite /\ editor'[r] = j /\ D!ItemsSeen(r)' = item
      /\ D!Local(r)' => D!IInv'
  BY <1>3, <1>4, QuietMove
<1>6. /\ j.op = "delItem" /\ j.pc = "write" /\ j.cols = cols /\ j.dict = item[i].dict
      /\ j.item = i /\ j.copy = item[i]
  BY <1>2 DEF NewJob
<1>7. D!Phase(r)'
  BY <1>5, <1>6 DEF D!Phase
<1>8. D!Flushed(r)'
  BY <1>5, <1>6, NoCols DEF D!Flushed
<1>9. D!Fresh(r)'
  <2>1. D!Touched(written'[r].item) = {} /\ ~D!AsksDefault(editor'[r].cols)
    BY <1>5, <1>6, NoCols DEF D!AsksDefault
  <2>. QED BY <1>3, <1>5, <1>6, <2>1 DEF D!Fresh
<1>. QED BY <1>5, <1>7, <1>8, <1>9 DEF D!Local

LEMMA CheckValueStep == ASSUME D!IInv, NEW r \in Req, D!CheckValue(r) PROVE D!IInv'
<1>1. CASE D!Taken(editor[r])
  BY <1>1, RaiseStep DEF D!CheckValue
<1>2. CASE ~D!Taken(editor[r])
  <2>1. PICK k \in D!Job : k = editor[r]
    BY Tables DEF D!IInv
  <2>2. PICK pc : pc = IF D!AsksDefault(k.cols) THEN "list" ELSE "write"
    OBVIOUS
  <2>3. PICK j : j = [k EXCEPT !.pc = pc]
    OBVIOUS
  <2>4. /\ UNCHANGED <<dict, item, written>> /\ editor' = [editor EXCEPT ![r] = j]
        /\ k.pc = "value"
    BY <1>2, <2>1, <2>2, <2>3 DEF D!CheckValue, D!At, D!To
  <2>5. j \in D!Job
    BY <2>2, <2>3, JobParts DEF D!Pc
  <2>6. /\ written'[r] = D!NoWrite /\ editor'[r] = j /\ D!ItemsSeen(r)' = item
        /\ D!Local(r)' => D!IInv'
    <3>1. editor[r].pc \in Quiet
      BY <2>1, <2>4 DEF Quiet
    <3>. QED BY <2>4, <2>5, <3>1, QuietMove
  <2>7. /\ j.op = k.op /\ j.pc = pc /\ j.dict = k.dict /\ j.item = k.item /\ j.cols = k.cols
        /\ j.copy = k.copy /\ j.found = k.found /\ j.stale = k.stale
    BY <2>3 DEF D!Job
  <2>8. D!Phase(r) /\ k.op \in {"addItem", "setItem"}
    BY <2>1, <2>4 DEF D!IInv, D!Local, D!Phase
  <2>9. /\ pc \in {"list", "write"}
        /\ pc = "list" => D!AsksDefault(k.cols)
        /\ pc = "write" => ~D!AsksDefault(k.cols)
    BY <2>2
  <2>10. D!Phase(r)'
    BY <2>1, <2>4, <2>6, <2>7, <2>8, <2>9, PhaseGoesOn
  <2>11. D!Flushed(r)'
    BY <2>6, <2>7, <2>9, NoCols DEF D!Flushed
  <2>12. ASSUME ~k.stale PROVE D!Fresh(r)'
    <3>1. D!Fresh(r)
      BY <2>1, <2>4, <2>12 DEF D!IInv, D!Local
    <3>2. D!Touched(written'[r].item) = {}
      BY <2>6, NoCols
    <3>3. ~D!Taken(editor[r])'
      BY <1>2, <2>1, <2>4, <2>6, <2>7 DEF D!Taken, D!Live
    <3>. QED BY <2>1, <2>4, <2>6, <2>7, <2>8, <2>9, <3>1, <3>2, <3>3 DEF D!Fresh
  <2>. QED BY <2>6, <2>7, <2>10, <2>11, <2>12 DEF D!Local
<1>. QED BY <1>1, <1>2

LEMMA ToClearType == ASSUME NEW j PROVE D!ToClear(j) \subseteq Item
BY DEF D!ToClear, D!Listed, D!Live

LEMMA ListStep == ASSUME D!IInv, NEW r \in Req, D!List(r) PROVE D!IInv'
<1>1. PICK k \in D!Job : k = editor[r]
  BY Tables DEF D!IInv
<1>2. PICK S \in SUBSET Item : S = D!ToClear(k)
  BY ToClearType
<1>3. PICK f : f = [i \in S |-> item[i]]
  OBVIOUS
<1>4. PICK j : j = [k EXCEPT !.pc = "clear", !.found = f]
  OBVIOUS
<1>5. /\ UNCHANGED <<dict, item, written>> /\ editor' = [editor EXCEPT ![r] = j] /\ k.pc = "list"
  <2>1. j = [[k EXCEPT !.pc = "clear"] EXCEPT !.found = f]
    BY <1>4
  <2>. QED BY <1>1, <1>2, <1>3, <2>1 DEF D!List, D!At, D!To
<1>6. j \in D!Job
  <2>1. f \in [S -> D!ItemRow]
    BY <1>3, Tables DEF D!IInv
  <2>2. PICK l \in D!Job : l = [k EXCEPT !.pc = "clear"]
    BY JobParts DEF D!Pc
  <2>3. [l EXCEPT !.found = f] \in D!Job
    BY <2>1, JobParts
  <2>4. j = [l EXCEPT !.found = f]
    BY <1>4, <2>2
  <2>. QED BY <2>3, <2>4
<1>7. /\ written'[r] = D!NoWrite /\ editor'[r] = j /\ D!ItemsSeen(r)' = item
      /\ D!Local(r)' => D!IInv'
  <2>1. editor[r].pc \in Quiet
    BY <1>1, <1>5 DEF Quiet
  <2>. QED BY <1>5, <1>6, <2>1, QuietMove
<1>8. /\ j.op = k.op /\ j.pc = "clear" /\ j.dict = k.dict /\ j.item = k.item /\ j.cols = k.cols
      /\ j.copy = k.copy /\ j.found = f /\ j.stale = k.stale
  BY <1>4 DEF D!Job
<1>9. D!Phase(r)
  BY <1>1 DEF D!IInv, D!Local
<1>10. D!Phase(r)'
  BY <1>1, <1>5, <1>7, <1>8, <1>9 DEF D!Phase
<1>11. j.item \notin S
  <2>1. CASE k.op = "delDict"
    BY <1>1, <1>2, <1>5, <1>8, <1>9, <2>1, DictionariesAssumption DEF D!Phase, D!Identifiers
  <2>2. CASE k.op # "delDict"
    BY <1>2, <1>8, <2>2 DEF D!ToClear
  <2>. QED BY <2>1, <2>2
<1>12. D!Flushed(r)'
  BY <1>3, <1>7, <1>8, <1>11, NoCols DEF D!Flushed
<1>13. ASSUME ~k.stale PROVE D!Fresh(r)'
  <2>1. D!Fresh(r)
    BY <1>1, <1>5, <1>13 DEF D!IInv, D!Local
  <2>2. D!ToClear(j) = S
    BY <1>2, <1>8 DEF D!ToClear
  <2>3. ~("value" \in DOMAIN k.cols /\ D!Taken(k))
    BY <1>1, <1>5, <2>1 DEF D!Fresh
  <2>4. (D!ToClear(editor[r]))' = S /\ ~("value" \in DOMAIN j.cols /\ D!Taken(editor[r])')
    BY <1>5, <1>7, <1>8, <2>2, <2>3 DEF D!ToClear, D!Listed, D!Live, D!Taken
  <2>5. item' = item /\ dict' = dict
    BY <1>5
  <2>. QED BY <1>1, <1>3, <1>5, <1>7, <1>8, <2>1, <2>4, <2>5 DEF D!Fresh
<1>. QED BY <1>7, <1>8, <1>10, <1>12, <1>13 DEF D!Local

-------------------------------------------------------------------------------
\* What an edit writes.

LEMMA SetHas == /\ \A x \in D!DictRow, w \in D!DictCols :
                      \A c \in {"state", "code", "on"} :
                         D!Set(x, w)[c] = IF c \in DOMAIN w THEN w[c] ELSE x[c]
                /\ \A x \in D!ItemRow, w \in D!ItemCols :
                      \A c \in {"state", "dict", "value", "on", "default"} :
                         D!Set(x, w)[c] = IF c \in DOMAIN w THEN w[c] ELSE x[c]
<1>1. \A x \in D!DictRow : DOMAIN x = {"state", "code", "on"}
  BY DEF D!DictRow
<1>2. \A x \in D!ItemRow : DOMAIN x = {"state", "dict", "value", "on", "default"}
  BY DEF D!ItemRow
<1>. QED BY <1>1, <1>2 DEF D!Set

\* What a request sees after a flush that is accepted.
LEMMA SeenAfter == ASSUME D!IInv, NEW r \in Req, NEW dw \in [Dict -> D!DictCols],
                          NEW iw \in [Item -> D!ItemCols], NEW j, D!Flush(r, dw, iw, j),
                          D!Touched(written[r].dict) \intersect D!Touched(dw) = {},
                          D!Touched(written[r].item) \intersect D!Touched(iw) = {},
                          Accepts(r, dw, iw)
                   PROVE  /\ dict' = dict /\ item' = item /\ editor'[r] = j
                          /\ D!DictsSeen(r)' = D!Over(D!DictsSeen(r), dw)
                          /\ D!ItemsSeen(r)' = D!Over(D!ItemsSeen(r), iw)
                          /\ written'[r].dict = D!Add(written[r].dict, dw)
                          /\ D!Touched(written'[r].item) =
                                D!Touched(written[r].item) \union D!Touched(iw)
<1>1. /\ Table(dict) /\ DOMAIN dict = Dict /\ Table(item) /\ DOMAIN item = Item
      /\ DOMAIN written[r].dict = Dict /\ DOMAIN written[r].item = Item
      /\ DOMAIN dw = Dict /\ DOMAIN iw = Item
  BY Tables DEF D!IInv
<1>2. PICK v : v = written[r].dict
  OBVIOUS
<1>3. PICK w : w = written[r].item
  OBVIOUS
<1>4. /\ dict' = dict /\ item' = item /\ editor'[r] = j
      /\ written'[r].dict = D!Add(v, dw) /\ written'[r].item = D!Add(w, iw)
  BY <1>2, <1>3, AcceptedFlush
<1>5. PICK a : a = D!Add(v, dw)
  OBVIOUS
<1>6. PICK b : b = D!Add(w, iw)
  OBVIOUS
<1>7. D!Over(dict, a) = D!Over(D!Over(dict, v), dw)
  BY <1>1, <1>2, <1>5, AddOf
<1>8. /\ D!Over(item, b) = D!Over(D!Over(item, w), iw)
      /\ D!Touched(b) = D!Touched(w) \union D!Touched(iw)
  BY <1>1, <1>3, <1>6, AddOf
<1>9. D!DictsSeen(r)' = D!Over(dict, a)
  BY <1>4, <1>5 DEF D!DictsSeen, D!Over
<1>10. D!ItemsSeen(r)' = D!Over(item, b)
  BY <1>4, <1>6 DEF D!ItemsSeen, D!Over
<1>11. D!DictsSeen(r)' = D!Over(D!DictsSeen(r), dw)
  BY <1>2, <1>7, <1>9 DEF D!DictsSeen
<1>12. D!ItemsSeen(r)' = D!Over(D!ItemsSeen(r), iw)
  BY <1>3, <1>8, <1>10 DEF D!ItemsSeen
<1>13. D!Touched(written'[r].item) = D!Touched(written[r].item) \union D!Touched(iw)
  BY <1>3, <1>4, <1>6, <1>8
<1>. QED BY <1>2, <1>4, <1>11, <1>12, <1>13

\* What a request at its last statement sees.
LEMMA SeenBefore == ASSUME D!IInv, NEW r \in Req, editor[r].pc = "write"
                    PROVE  /\ D!DictsSeen(r) = dict /\ written[r].dict = D!NoWrite.dict
                           /\ D!Touched(written[r].dict) = {}
                           /\ D!ItemsSeen(r) \in [Item -> D!ItemRow]
                           /\ Table(D!ItemsSeen(r)) /\ DOMAIN D!ItemsSeen(r) = Item
                           /\ \A i \in Item : i \notin D!Touched(written[r].item) =>
                                                 D!ItemsSeen(r)[i] = item[i]
                           /\ D!Over(D!ItemsSeen(r), D!NoWrite.item) = D!ItemsSeen(r)
<1>1. /\ Table(item) /\ DOMAIN item = Item /\ DOMAIN written[r].item = Item
      /\ item \in [Item -> D!ItemRow] /\ written[r].item \in [Item -> D!ItemCols]
  BY Tables DEF D!IInv
<1>2. written[r].dict = D!NoWrite.dict
  BY DEF D!IInv, D!Local, D!Flushed
<1>3. D!DictsSeen(r) = dict /\ D!Touched(written[r].dict) = {}
  BY <1>2, NoneWritten, NoCols DEF D!DictsSeen
<1>4. D!ItemsSeen(r) = D!Over(item, written[r].item)
  BY DEF D!ItemsSeen
<1>5. D!ItemsSeen(r) \in [Item -> D!ItemRow]
  BY <1>1, <1>4, OverTypes
<1>6. /\ Table(D!ItemsSeen(r)) /\ DOMAIN D!ItemsSeen(r) = Item
      /\ \A i \in Item : i \notin D!Touched(written[r].item) => D!ItemsSeen(r)[i] = item[i]
  BY <1>1, <1>4, OverOf
<1>7. D!Over(D!ItemsSeen(r), D!NoWrite.item) = D!ItemsSeen(r)
  <2>1. D!NoWrite.item = [i \in Item |-> D!Nothing]
    BY DEF D!NoWrite
  <2>. QED BY <1>5, <1>6, <2>1, NothingOver, NoCols
<1>. QED BY <1>2, <1>3, <1>5, <1>6, <1>7

\* The last statement of an edit.
LEMMA LastStatement ==
    ASSUME D!IInv, NEW r \in Req, NEW k \in D!Job, k = editor[r], k.pc = "write",
           NEW dw \in [Dict -> D!DictCols], NEW iw \in [Item -> D!ItemCols],
           NEW j \in D!Job, D!Flush(r, dw, iw, j),
           D!Touched(written[r].item) \intersect D!Touched(iw) = {},
           j.pc = "commit", j.op = k.op, j.cols = k.cols, j.copy = k.copy, j.stale = k.stale,
           j.op # "addDict" => j.dict = k.dict, j.op # "addItem" => j.item = k.item,
           ~k.stale => D!Done(j, D!Over(dict, dw), D!Over(D!ItemsSeen(r), iw))
    PROVE  D!IInv'
<1>1. SUFFICES ASSUME Accepts(r, dw, iw) PROVE D!Local(r)'
  BY SeenBefore, FlushStep
<1>2. /\ dict' = dict /\ item' = item /\ editor'[r] = j
      /\ D!DictsSeen(r)' = D!Over(dict, dw)
      /\ D!ItemsSeen(r)' = D!Over(D!ItemsSeen(r), iw)
  <2>1. D!Touched(written[r].dict) \intersect D!Touched(dw) = {} /\ D!DictsSeen(r) = dict
    BY SeenBefore
  <2>2. /\ dict' = dict /\ item' = item /\ editor'[r] = j
        /\ D!DictsSeen(r)' = D!Over(D!DictsSeen(r), dw)
        /\ D!ItemsSeen(r)' = D!Over(D!ItemsSeen(r), iw)
    BY <1>1, <2>1, SeenAfter
  <2>. QED BY <2>1, <2>2
<1>3. D!Phase(r)
  BY DEF D!IInv, D!Local
<1>4. D!Phase(r)'
  <2>1. k.op # "none"
    BY <1>3 DEF D!Phase
  <2>. QED BY <1>2, <1>3, <2>1, PhaseGoesOn
<1>5. D!Flushed(r)'
  BY <1>2 DEF D!Flushed
<1>6. ASSUME ~k.stale PROVE D!Fresh(r)'
  <2>1. D!Fresh(r)
    BY <1>6 DEF D!IInv, D!Local
  <2>2. PICK ds : ds = D!Over(dict, dw)
    OBVIOUS
  <2>3. PICK is : is = D!Over(D!ItemsSeen(r), iw)
    OBVIOUS
  <2>4. D!Done(j, ds, is)
    BY <1>6, <2>2, <2>3
  <2>5. D!DictsSeen(r)' = ds /\ D!ItemsSeen(r)' = is
    BY <1>2, <2>2, <2>3
  <2>6. D!Done(editor[r], D!DictsSeen(r), D!ItemsSeen(r))'
    BY <1>2, <2>4, <2>5 DEF D!Done, D!Live
  <2>. QED BY <1>2, <2>1, <2>6 DEF D!Fresh
<1>. QED BY <1>2, <1>4, <1>5, <1>6 DEF D!Local

\* Which rows of a table are written when one is.
LEMMA OverOnly == ASSUME NEW rows, NEW S, DOMAIN rows = S, Table(rows), NEW y \in S, NEW w
                  PROVE  /\ DOMAIN D!Over(rows, D!Only(S, y, w)) = S
                         /\ D!Over(rows, D!Only(S, y, w))[y] = D!Set(rows[y], w)
                         /\ \A x \in S : x # y => D!Over(rows, D!Only(S, y, w))[x] = rows[x]
<1>1. PICK u : u = D!Only(S, y, w)
  OBVIOUS
<1>2. /\ DOMAIN u = S /\ u[y] = w /\ D!Touched(u) = IF DOMAIN w = {} THEN {} ELSE {y}
  BY <1>1, OnlyOf
<1>3. /\ DOMAIN D!Over(rows, u) = S /\ \A x \in S : D!Over(rows, u)[x] = D!Set(rows[x], u[x])
      /\ \A x \in S : x \notin D!Touched(u) => D!Over(rows, u)[x] = rows[x]
  BY <1>2, OverOf
<1>4. \A x \in S : x # y => D!Over(rows, u)[x] = rows[x]
  BY <1>2, <1>3
<1>. QED BY <1>1, <1>2, <1>3, <1>4

\* What those who write last know.
LEMMA WhoWrites == ASSUME D!IInv, NEW r \in Req, NEW k \in D!Job, k = editor[r], k.pc = "write"
                   PROVE  /\ D!Phase(r) /\ D!Flushed(r) /\ k.item \notin D!Touched(written[r].item)
                          /\ ~k.stale => D!Fresh(r)
                          /\ [k EXCEPT !.pc = "commit"] \in D!Job
BY JobParts DEF D!IInv, D!Local, D!Flushed, D!Pc

LEMMA InsertDictStep == ASSUME D!IInv, NEW r \in Req, D!InsertDict(r) PROVE D!IInv'
<1>1. PICK k \in D!Job : k = editor[r]
  BY Tables DEF D!IInv
<1>2. PICK d \in Dict : /\ dict[d].state = "none"
                        /\ D!FlushDict(r, d, k.cols, [D!To(r, "commit") EXCEPT !.dict = d])
  BY <1>1 DEF D!InsertDict
<1>3. k.pc = "write" /\ k.op = "addDict"
  BY <1>1 DEF D!InsertDict, D!At
<1>4. PICK c \in Code : k.cols = [state |-> "live", code |-> c, on |-> TRUE]
  BY <1>1, <1>3, WhoWrites DEF D!Phase
<1>5. k.cols \in D!DictCols
  BY <1>4, RequestCols
<1>6. PICK l \in D!Job : l = [k EXCEPT !.pc = "commit"]
  BY <1>1, <1>3, WhoWrites
<1>7. PICK j : j = [l EXCEPT !.dict = d]
  OBVIOUS
<1>8. /\ j \in D!Job /\ j.pc = "commit" /\ j.op = k.op /\ j.cols = k.cols /\ j.copy = k.copy
      /\ j.stale = k.stale /\ j.item = k.item /\ j.dict = d
  <2>1. j \in D!Job
    BY <1>7, JobParts
  <2>. QED BY <1>6, <1>7, <2>1 DEF D!Job
<1>9. PICK dw \in [Dict -> D!DictCols] : dw = D!Only(Dict, d, k.cols)
  BY <1>5, OnlyTypes
<1>10. PICK iw \in [Item -> D!ItemCols] : iw = D!NoWrite.item
  BY NoCols DEF D!Txn
<1>11. D!Flush(r, dw, iw, j)
  BY <1>1, <1>2, <1>6, <1>7, <1>9, <1>10 DEF D!FlushDict, D!To
<1>12. D!Touched(written[r].item) \intersect D!Touched(iw) = {}
  BY <1>10, NoCols
<1>13. ASSUME ~k.stale PROVE D!Done(j, D!Over(dict, dw), D!Over(D!ItemsSeen(r), iw))
  <2>1. /\ D!Over(dict, dw)[d] = D!Set(dict[d], k.cols) /\ dict[d] \in D!DictRow
    BY <1>9, OverOnly, Tables DEF D!IInv
  <2>2. DOMAIN k.cols = {"state", "code", "on"} /\ k.cols.state = "live"
    BY <1>4
  <2>3. /\ D!Over(dict, dw)[d].state = "live"
        /\ \A e \in DOMAIN k.cols : D!Over(dict, dw)[d][e] = k.cols[e]
    BY <1>5, <2>1, <2>2, SetHas
  <2>. QED BY <1>3, <1>8, <2>3 DEF D!Done
<1>. QED BY <1>1, <1>3, <1>8, <1>11, <1>12, <1>13, LastStatement

LEMMA UpdateDictStep == ASSUME D!IInv, NEW r \in Req, D!UpdateDict(r) PROVE D!IInv'
<1>1. PICK k \in D!Job : k = editor[r]
  BY Tables DEF D!IInv
<1>2. /\ k.pc = "write" /\ k.op \in {"setDict", "delDict"}
      /\ D!FlushDict(r, k.dict, D!Changed(k.copy, k.cols), D!To(r, "commit"))
  BY <1>1 DEF D!UpdateDict, D!At
<1>3. D!Phase(r) /\ k.dict \in Dict
  BY <1>1, <1>2, WhoWrites DEF D!Phase
<1>4. PICK d \in Dict : d = k.dict
  BY <1>3
<1>5. k.cols \in D!DictCols
  BY <1>1, <1>2, <1>3, RequestCols DEF D!Phase
<1>6. PICK j \in D!Job : j = [k EXCEPT !.pc = "commit"]
  BY <1>1, <1>2, WhoWrites
<1>7. /\ j.pc = "commit" /\ j.op = k.op /\ j.cols = k.cols /\ j.copy = k.copy
      /\ j.stale = k.stale /\ j.item = k.item /\ j.dict = d
  BY <1>4, <1>6 DEF D!Job
<1>8. PICK w \in D!DictCols : w = D!Changed(k.copy, k.cols)
  BY <1>5, ChangedCols
<1>9. PICK dw \in [Dict -> D!DictCols] : dw = D!Only(Dict, d, w)
  BY OnlyTypes
<1>10. PICK iw \in [Item -> D!ItemCols] : iw = D!NoWrite.item
  BY NoCols DEF D!Txn
<1>11. D!Flush(r, dw, iw, j)
  BY <1>1, <1>2, <1>4, <1>6, <1>8, <1>9, <1>10 DEF D!FlushDict, D!To
<1>12. D!Touched(written[r].item) \intersect D!Touched(iw) = {}
  BY <1>10, NoCols
<1>13. ASSUME ~k.stale PROVE D!Done(j, D!Over(dict, dw), D!Over(D!ItemsSeen(r), iw))
  <2>1. D!Fresh(r)
    BY <1>1, <1>2, <1>13, WhoWrites
  <2>2. k.copy = dict[d] /\ dict[d].state = "live"
    BY <1>1, <1>2, <1>4, <2>1 DEF D!Fresh
  <2>3. dict[d] \in D!DictRow
    BY Tables DEF D!IInv
  <2>4. D!Over(dict, dw)[d] = D!Set(dict[d], k.cols)
    <3>1. D!Over(dict, dw)[d] = D!Set(dict[d], w)
      BY <1>9, OverOnly, Tables DEF D!IInv
    <3>. QED BY <1>8, <2>2, <3>1, SetChanged
  <2>5. \A e \in {"state", "code", "on"} :
           D!Over(dict, dw)[d][e] = IF e \in DOMAIN k.cols THEN k.cols[e] ELSE dict[d][e]
    BY <1>5, <2>3, <2>4, SetHas
  <2>6. CASE k.op = "setDict"
    <3>1. DOMAIN k.cols = {"on"}
      BY <1>1, <1>3, <2>6 DEF D!Phase
    <3>2. /\ D!Over(dict, dw)[d].state = "live"
          /\ \A e \in DOMAIN k.cols : D!Over(dict, dw)[d][e] = k.cols[e]
      BY <2>2, <2>5, <3>1
    <3>. QED BY <1>7, <2>6, <3>2 DEF D!Done
  <2>7. CASE k.op = "delDict"
    <3>1. k.cols = [state |-> "gone", on |-> FALSE]
      BY <1>1, <1>3, <2>7 DEF D!Phase
    <3>2. D!Over(dict, dw)[d].state = "gone" /\ ~D!Over(dict, dw)[d].on
      <4>1. DOMAIN k.cols = {"state", "on"} /\ k.cols.state = "gone" /\ ~k.cols.on
        BY <3>1
      <4>2. /\ D!Over(dict, dw)[d].state = k.cols.state
            /\ D!Over(dict, dw)[d].on = k.cols.on
        BY <2>5, <4>1
      <4>. QED BY <4>1, <4>2
    <3>3. PICK is \in [Item -> D!ItemRow] : is = D!ItemsSeen(r)
      BY <1>1, <1>2, SeenBefore
    <3>4. D!Over(D!ItemsSeen(r), iw) = is
      BY <1>1, <1>2, <1>10, <3>3, SeenBefore
    <3>5. /\ D!Touched(written[r].item) = D!ToClear(k)
          /\ \A i \in D!Touched(written[r].item) : is[i] = D!Set(item[i], D!Cleared("delDict"))
      BY <1>1, <1>2, <2>1, <2>7, <3>3 DEF D!Fresh
    <3>6. D!ToClear(k) = D!Live(d)
      BY <1>4, <2>7 DEF D!ToClear, D!Listed
    <3>7. ASSUME NEW i \in D!Live(d) PROVE is[i].state = "gone" /\ ~is[i].default
      <4>1. is[i] = D!Set(item[i], D!Cleared("delDict"))
        BY <3>5, <3>6
      <4>2. item[i] \in D!ItemRow /\ D!Cleared("delDict") \in D!ItemCols
        BY Tables, RequestCols DEF D!IInv, D!Live, D!Cleared
      <4>3. \A c \in {"state", "dict", "value", "on", "default"} :
               is[i][c] = IF c \in DOMAIN D!Cleared("delDict") THEN D!Cleared("delDict")[c]
                          ELSE item[i][c]
        BY <4>1, <4>2, SetHas
      <4>. QED BY <4>3 DEF D!Cleared
    <3>8. ASSUME NEW i \in Item, is[i].dict = d PROVE is[i].state # "live"
      <4>1. CASE i \in D!Live(d)
        BY <3>7, <4>1
      <4>2. CASE i \notin D!Live(d)
        <5>1. is[i] = item[i]
          BY <1>1, <1>2, <3>3, <3>5, <3>6, <4>2, SeenBefore
        <5>. QED BY <3>8, <4>2, <5>1 DEF D!Live
      <4>. QED BY <4>1, <4>2
    <3>. QED BY <1>7, <2>7, <3>2, <3>4, <3>7, <3>8 DEF D!Done
  <2>. QED BY <1>2, <2>6, <2>7
<1>. QED BY <1>1, <1>2, <1>4, <1>6, <1>7, <1>11, <1>12, <1>13, LastStatement, ZenonT(40)

\* The items that are cleared, and how.
LEMMA WhoIsCleared == ASSUME D!IInv, NEW r \in Req, NEW k \in D!Job, k = editor[r], k.pc = "clear",
                             ~k.stale
                      PROVE  /\ D!Touched(D!Clearing(k)) = D!ToClear(k)
                             /\ \A i \in Item : D!Over(item, D!Clearing(k))[i] =
                                   IF i \in D!ToClear(k) THEN D!Set(item[i], D!Cleared(k.op))
                                   ELSE item[i]
<1>1. D!Fresh(r) /\ D!Phase(r)
  BY DEF D!IInv, D!Local
<1>2. k.found = [i \in D!ToClear(k) |-> item[i]]
  BY <1>1 DEF D!Fresh
<1>3. PICK S \in SUBSET Item : S = D!ToClear(k)
  BY ToClearType
<1>4. PICK w : w = D!Clearing(k)
  OBVIOUS
<1>5. w = [i \in Item |-> IF i \in S THEN D!Changed(item[i], D!Cleared(k.op)) ELSE D!Nothing]
  BY <1>2, <1>3, <1>4 DEF D!Clearing
<1>6. Table(item) /\ DOMAIN item = Item /\ item \in [Item -> D!ItemRow]
  BY Tables DEF D!IInv
<1>7. /\ \A i \in Item : D!Over(item, w)[i] = D!Set(item[i], w[i])
      /\ \A i \in Item : i \notin D!Touched(w) => D!Over(item, w)[i] = item[i]
  BY <1>5, <1>6, OverOf
<1>8. \A i \in Item \ S : i \notin D!Touched(w)
  BY <1>5, NoCols DEF D!Touched
<1>9. ASSUME NEW i \in S PROVE i \in D!Touched(w) /\ D!Over(item, w)[i] = D!Set(item[i], D!Cleared(k.op))
  <2>1. w[i] = D!Changed(item[i], D!Cleared(k.op))
    BY <1>5
  <2>2. \E c \in DOMAIN D!Cleared(k.op) : D!Cleared(k.op)[c] # item[i][c]
    <3>1. CASE k.op = "delDict"
      <4>1. item[i].state = "live"
        BY <1>3, <3>1 DEF D!ToClear, D!Listed, D!Live
      <4>2. "state" \in DOMAIN D!Cleared(k.op) /\ D!Cleared(k.op)["state"] = "gone"
        BY <3>1 DEF D!Cleared
      <4>. QED BY <4>1, <4>2
    <3>2. CASE k.op # "delDict"
      <4>1. item[i].default
        BY <1>3, <3>2 DEF D!ToClear
      <4>2. "default" \in DOMAIN D!Cleared(k.op) /\ D!Cleared(k.op)["default"] = FALSE
        BY <3>2 DEF D!Cleared
      <4>. QED BY <4>1, <4>2
    <3>. QED BY <3>1, <3>2
  <2>3. DOMAIN w[i] # {}
    BY <2>1, <2>2 DEF D!Changed
  <2>4. D!Over(item, w)[i] = D!Set(item[i], D!Cleared(k.op))
    BY <1>7, <2>1, SetChanged
  <2>. QED BY <1>5, <2>3, <2>4 DEF D!Touched
<1>10. \A i \in D!Touched(w) : i \in Item
  BY <1>5 DEF D!Touched
<1>11. D!Touched(w) = S
  BY <1>8, <1>9, <1>10
<1>12. \A i \in Item : D!Over(item, w)[i] = IF i \in S THEN D!Set(item[i], D!Cleared(k.op)) ELSE item[i]
  BY <1>7, <1>8, <1>9
<1>. QED BY <1>3, <1>4, <1>11, <1>12

LEMMA ClearingType == ASSUME NEW k PROVE D!Clearing(k) \in [Item -> D!ItemCols]
<1>1. D!Cleared(k.op) \in D!ItemCols
  BY RequestCols DEF D!Cleared
<1>2. \A x : D!Changed(x, D!Cleared(k.op)) \in D!ItemCols
  BY <1>1, ChangedCols
<1>. QED BY <1>2, NoCols DEF D!Clearing

LEMMA ClearStep == ASSUME D!IInv, NEW r \in Req, D!Clear(r) PROVE D!IInv'
<1>1. PICK k \in D!Job : k = editor[r]
  BY Tables DEF D!IInv
<1>2. k.pc = "clear" /\ D!Flush(r, D!NoWrite.dict, D!Clearing(k), D!To(r, "write"))
  BY <1>1 DEF D!Clear, D!At
<1>3. D!Phase(r) /\ D!Flushed(r)
  BY DEF D!IInv, D!Local
<1>4. PICK j \in D!Job : j = [k EXCEPT !.pc = "write"]
  BY JobParts DEF D!Pc
<1>5. /\ j.pc = "write" /\ j.op = k.op /\ j.cols = k.cols /\ j.copy = k.copy /\ j.found = k.found
      /\ j.stale = k.stale /\ j.item = k.item /\ j.dict = k.dict
  BY <1>4 DEF D!Job
<1>6. PICK dw \in [Dict -> D!DictCols] : dw = D!NoWrite.dict
  BY NoCols DEF D!Txn
<1>7. PICK iw \in [Item -> D!ItemCols] : iw = D!Clearing(k)
  BY ClearingType
<1>8. D!Flush(r, dw, iw, j)
  BY <1>1, <1>2, <1>4, <1>6, <1>7 DEF D!To
<1>9. /\ written[r].dict = D!NoWrite.dict /\ written[r].item = D!NoWrite.item
      /\ k.item \notin DOMAIN k.found
  BY <1>1, <1>2, <1>3 DEF D!Flushed
<1>10. /\ D!Touched(written[r].dict) = {} /\ D!Touched(written[r].item) = {}
       /\ D!DictsSeen(r) = dict /\ D!ItemsSeen(r) = item
  BY <1>9, NoCols, NoneWritten DEF D!DictsSeen, D!ItemsSeen
<1>11. SUFFICES ASSUME Accepts(r, dw, iw) PROVE D!Local(r)'
  BY <1>8, <1>10, FlushStep
<1>12. /\ dict' = dict /\ item' = item /\ editor'[r] = j
       /\ D!ItemsSeen(r)' = D!Over(item, iw) /\ D!Touched(written'[r].item) = D!Touched(iw)
       /\ written'[r].dict = D!NoWrite.dict
  <2>1. /\ dict' = dict /\ item' = item /\ editor'[r] = j
        /\ D!ItemsSeen(r)' = D!Over(D!ItemsSeen(r), iw)
        /\ D!Touched(written'[r].item) = D!Touched(written[r].item) \union D!Touched(iw)
        /\ written'[r].dict = D!Add(written[r].dict, dw)
    BY <1>8, <1>10, <1>11, SeenAfter
  <2>2. D!Add(D!NoWrite.dict, D!NoWrite.dict) = D!NoWrite.dict
    <3>1. D!NoWrite.dict = [d \in Dict |-> D!Nothing]
      BY DEF D!NoWrite
    <3>. QED BY <3>1 DEF D!Add
  <2>. QED BY <1>6, <1>9, <1>10, <2>1, <2>2
<1>13. D!Touched(iw) \subseteq DOMAIN k.found
  BY <1>7, NoCols DEF D!Clearing, D!Touched
<1>14. D!Phase(r)'
  BY <1>1, <1>2, <1>3, <1>5, <1>12 DEF D!Phase
<1>15. D!Flushed(r)'
  BY <1>5, <1>9, <1>12, <1>13 DEF D!Flushed
<1>16. ASSUME ~k.stale PROVE D!Fresh(r)'
  <2>1. D!Fresh(r)
    BY <1>1, <1>2, <1>16 DEF D!IInv, D!Local
  <2>2. /\ D!Touched(iw) = D!ToClear(k)
        /\ \A i \in D!ToClear(k) : D!Over(item, iw)[i] = D!Set(item[i], D!Cleared(k.op))
    BY <1>1, <1>2, <1>7, <1>16, ToClearType, WhoIsCleared
  <2>3. D!ToClear(editor[r])' = D!ToClear(k)
    BY <1>5, <1>12 DEF D!ToClear, D!Listed, D!Live
  <2>4. "value" \in DOMAIN j.cols => ~D!Taken(editor[r])'
    <3>1. "value" \in DOMAIN k.cols => ~D!Taken(k)
      BY <1>1, <1>2, <2>1 DEF D!Fresh
    <3>. QED BY <1>5, <1>12, <3>1 DEF D!Taken, D!Live
  <2>5. k.op = "delDict" \/ D!AsksDefault(k.cols)
    BY <1>1, <1>2, <1>3 DEF D!Phase
  <2>6. \A i \in D!Touched(written[r].item)' :
           D!ItemsSeen(r)'[i] = D!Set(item'[i], D!Cleared(editor'[r].op))
    BY <1>5, <1>12, <2>2
  <2>7. (D!Touched(written[r].item) = D!ToClear(editor[r]))'
    BY <1>12, <2>2, <2>3
  <2>. QED BY <1>1, <1>2, <1>3, <1>5, <1>12, <2>1, <2>4, <2>5, <2>6, <2>7 DEF D!Fresh, D!Phase
<1>. QED BY <1>5, <1>12, <1>14, <1>15, <1>16 DEF D!Local

\* What is seen of the items before one is written last.
LEMMA ItemsBefore == ASSUME D!IInv, NEW r \in Req, NEW k \in D!Job, k = editor[r], k.pc = "write",
                            k.op \in {"addItem", "setItem", "delItem"}, ~k.stale, NEW x \in Item
                     PROVE  /\ x \notin D!ToClear(k) => D!ItemsSeen(r)[x] = item[x]
                            /\ \/ D!ItemsSeen(r)[x] = item[x]
                               \/ /\ D!ItemsSeen(r)[x].state = item[x].state
                                  /\ D!ItemsSeen(r)[x].dict = item[x].dict
                                  /\ D!ItemsSeen(r)[x].value = item[x].value
                                  /\ ~D!ItemsSeen(r)[x].default
                            /\ D!AsksDefault(k.cols) /\ x # k.item =>
                                  ~(/\ D!ItemsSeen(r)[x].state = "live"
                                    /\ D!ItemsSeen(r)[x].dict = k.dict
                                    /\ D!ItemsSeen(r)[x].default)
<1>1. D!Fresh(r)
  BY WhoWrites
<1>2. PICK is \in [Item -> D!ItemRow] : is = D!ItemsSeen(r)
  BY SeenBefore
<1>3. /\ D!Touched(written[r].item) = IF D!AsksDefault(k.cols) THEN D!ToClear(k) ELSE {}
      /\ \A i \in D!Touched(written[r].item) : is[i] = D!Set(item[i], D!Cleared(k.op))
  BY <1>1, <1>2 DEF D!Fresh
<1>4. x \notin D!Touched(written[r].item) => is[x] = item[x]
  BY <1>2, SeenBefore
<1>5. ASSUME x \in D!Touched(written[r].item)
      PROVE  /\ is[x].state = item[x].state /\ is[x].dict = item[x].dict
             /\ is[x].value = item[x].value /\ ~is[x].default
  <2>1. is[x] = D!Set(item[x], D!Cleared(k.op))
    BY <1>3, <1>5
  <2>2. D!Cleared(k.op) = [default |-> FALSE] /\ DOMAIN D!Cleared(k.op) = {"default"}
    BY DEF D!Cleared
  <2>3. \A c \in {"state", "dict", "value", "on", "default"} :
           is[x][c] = IF c \in DOMAIN D!Cleared(k.op) THEN D!Cleared(k.op)[c] ELSE item[x][c]
    <3>1. item[x] \in D!ItemRow /\ D!Cleared(k.op) \in D!ItemCols
      BY <2>2, Tables, RequestCols DEF D!IInv
    <3>. QED BY <2>1, <3>1, SetHas
  <2>4. ~D!Cleared(k.op)["default"]
    BY <2>2
  <2>. QED BY <2>2, <2>3, <2>4
<1>6. ASSUME D!AsksDefault(k.cols), x # k.item, is[x].state = "live", is[x].dict = k.dict,
             is[x].default
      PROVE  FALSE
  <2>1. x \notin D!Touched(written[r].item) /\ is[x] = item[x]
    BY <1>4, <1>5, <1>6
  <2>2. x \in D!ToClear(k)
    BY <1>6, <2>1 DEF D!ToClear, D!Listed, D!Live
  <2>. QED BY <1>3, <1>6, <2>1, <2>2
<1>7. x \notin D!ToClear(k) => is[x] = item[x]
  BY <1>3, <1>4
<1>8. \/ is[x] = item[x]
      \/ /\ is[x].state = item[x].state /\ is[x].dict = item[x].dict
         /\ is[x].value = item[x].value /\ ~is[x].default
  BY <1>4, <1>5
<1>. QED BY <1>2, <1>6, <1>7, <1>8

LEMMA InsertItemStep == ASSUME D!IInv, NEW r \in Req, D!InsertItem(r) PROVE D!IInv'
<1>1. PICK k \in D!Job : k = editor[r]
  BY Tables DEF D!IInv
<1>2. PICK i \in Item : /\ item[i].state = "none" /\ \A q \in Req : i \notin D!Touched(written[q].item)
                        /\ D!FlushItem(r, i, k.cols, [D!To(r, "commit") EXCEPT !.item = i])
  BY <1>1 DEF D!InsertItem
<1>3. k.pc = "write" /\ k.op = "addItem"
  BY <1>1 DEF D!InsertItem, D!At
<1>4. D!Phase(r)
  BY <1>1, <1>3, WhoWrites
<1>5. /\ DOMAIN k.cols = {"state", "dict", "value", "on", "default"} /\ k.cols.state = "live"
      /\ k.cols.dict = k.dict /\ k.cols \in D!ItemCols /\ k.item = None
  <2>1. PICK v \in Value, b \in BOOLEAN :
           k.cols = [state |-> "live", dict |-> k.dict, value |-> v, on |-> TRUE, default |-> b]
    BY <1>1, <1>3, <1>4 DEF D!Phase
  <2>2. k.cols \in D!ItemCols
    <3>1. PICK x \in D!ItemRow :
             x = [state |-> "live", dict |-> k.dict, value |-> v, on |-> TRUE, default |-> b]
      <4>1. k.dict \in Dict \union {None}
        BY JobParts
      <4>. QED BY <4>1 DEF D!ItemRow
    <3>2. x = [c \in {"state", "dict", "value", "on", "default"} |-> x[c]]
      BY <3>1
    <3>3. \A C \in SUBSET {"state", "dict", "value", "on", "default"}, y \in D!ItemRow :
             [c \in C |-> y[c]] \in D!ItemCols
      BY DEF D!ItemCols
    <3>4. [c \in {"state", "dict", "value", "on", "default"} |-> x[c]] \in D!ItemCols
      BY <3>3
    <3>. QED BY <2>1, <3>1, <3>2, <3>4
  <2>3. k.item = None
    BY <1>1, <1>3, <1>4 DEF D!Phase
  <2>. QED BY <2>1, <2>2, <2>3
<1>6. PICK l \in D!Job : l = [k EXCEPT !.pc = "commit"]
  BY <1>1, <1>3, WhoWrites
<1>7. PICK j : j = [l EXCEPT !.item = i]
  OBVIOUS
<1>8. /\ j \in D!Job /\ j.pc = "commit" /\ j.op = k.op /\ j.cols = k.cols /\ j.copy = k.copy
      /\ j.stale = k.stale /\ j.item = i /\ j.dict = k.dict
  <2>1. j \in D!Job
    BY <1>7, JobParts
  <2>. QED BY <1>6, <1>7, <2>1 DEF D!Job
<1>9. PICK dw \in [Dict -> D!DictCols] : dw = D!NoWrite.dict
  BY NoCols DEF D!Txn
<1>10. PICK iw \in [Item -> D!ItemCols] : iw = D!Only(Item, i, k.cols)
  BY <1>5, OnlyTypes
<1>11. D!Flush(r, dw, iw, j)
  BY <1>1, <1>2, <1>6, <1>7, <1>9, <1>10 DEF D!FlushItem, D!To
<1>12. D!Touched(written[r].item) \intersect D!Touched(iw) = {}
  BY <1>2, <1>10, OnlyOf
<1>13. ASSUME ~k.stale PROVE D!Done(j, D!Over(dict, dw), D!Over(D!ItemsSeen(r), iw))
  <2>1. D!Fresh(r)
    BY <1>1, <1>3, <1>13, WhoWrites
  <2>2. D!Over(dict, dw) = dict /\ dict[k.dict].state = "live"
    BY <1>1, <1>3, <1>9, <2>1, NoneWritten DEF D!Fresh
  <2>3. PICK is \in [Item -> D!ItemRow] : is = D!ItemsSeen(r) /\ Table(is) /\ DOMAIN is = Item
    BY <1>1, <1>3, SeenBefore
  <2>4. PICK after : after = D!Over(is, iw)
    OBVIOUS
  <2>5. after[i] = D!Set(is[i], k.cols) /\ \A x \in Item : x # i => after[x] = is[x]
    BY <1>10, <2>3, <2>4, OverOnly
  <2>6. \A c \in DOMAIN k.cols : after[i][c] = k.cols[c]
    BY <1>5, <2>3, <2>5, SetHas
  <2>7. after[i].state = "live" /\ after[i].dict = k.dict
    BY <1>5, <2>6
  <2>8. ASSUME D!AsksDefault(k.cols), NEW x \in Item \ {i}
        PROVE  ~(after[x].state = "live" /\ after[x].dict = k.dict /\ after[x].default)
    <3>1. x # k.item
      BY <1>5, DictionariesAssumption DEF D!Identifiers
    <3>. QED BY <1>1, <1>3, <1>13, <2>3, <2>5, <2>8, <3>1, ItemsBefore
  <2>. QED BY <1>3, <1>8, <2>2, <2>3, <2>4, <2>6, <2>7, <2>8 DEF D!Done
<1>. QED BY <1>1, <1>3, <1>8, <1>11, <1>12, <1>13, LastStatement

LEMMA UpdateItemStep == ASSUME D!IInv, NEW r \in Req, D!UpdateItem(r) PROVE D!IInv'
<1>1. PICK k \in D!Job : k = editor[r]
  BY Tables DEF D!IInv
<1>2. /\ k.pc = "write" /\ k.op \in {"setItem", "delItem"}
      /\ D!FlushItem(r, k.item, D!Changed(k.copy, k.cols), D!To(r, "commit"))
  BY <1>1 DEF D!UpdateItem, D!At
<1>3. D!Phase(r) /\ k.item \in Item
  BY <1>1, <1>2, WhoWrites DEF D!Phase
<1>4. PICK i \in Item : i = k.item
  BY <1>3
<1>5. /\ k.op = "setItem" => k.cols \in D!Named
      /\ k.op = "delItem" => k.cols = [state |-> "gone", on |-> FALSE, default |-> FALSE]
      /\ k.cols \in D!ItemCols
  <2>1. /\ k.op = "setItem" => k.cols \in D!Named
        /\ k.op = "delItem" => k.cols = [state |-> "gone", on |-> FALSE, default |-> FALSE]
    BY <1>1, <1>3 DEF D!Phase
  <2>. QED BY <1>2, <2>1, NamedCols, RequestCols
<1>6. PICK j \in D!Job : j = [k EXCEPT !.pc = "commit"]
  BY <1>1, <1>2, WhoWrites
<1>7. /\ j.pc = "commit" /\ j.op = k.op /\ j.cols = k.cols /\ j.copy = k.copy
      /\ j.stale = k.stale /\ j.item = i /\ j.dict = k.dict
  BY <1>4, <1>6 DEF D!Job
<1>8. PICK w \in D!ItemCols : w = D!Changed(k.copy, k.cols)
  BY <1>5, ChangedCols
<1>9. PICK dw \in [Dict -> D!DictCols] : dw = D!NoWrite.dict
  BY NoCols DEF D!Txn
<1>10. PICK iw \in [Item -> D!ItemCols] : iw = D!Only(Item, i, w)
  BY OnlyTypes
<1>11. D!Flush(r, dw, iw, j)
  BY <1>1, <1>2, <1>4, <1>6, <1>8, <1>9, <1>10 DEF D!FlushItem, D!To
<1>12. i \notin D!Touched(written[r].item) /\ D!Touched(written[r].item) \intersect D!Touched(iw) = {}
  <2>1. i \notin D!Touched(written[r].item)
    BY <1>1, <1>2, <1>4, WhoWrites
  <2>2. D!Touched(iw) \subseteq {i}
    BY <1>10, OnlyOf
  <2>. QED BY <2>1, <2>2
<1>13. ASSUME ~k.stale PROVE D!Done(j, D!Over(dict, dw), D!Over(D!ItemsSeen(r), iw))
  <2>1. D!Fresh(r)
    BY <1>1, <1>2, <1>13, WhoWrites
  <2>2. k.copy = item[i] /\ item[i].state = "live" /\ item[i].dict = k.dict
    BY <1>1, <1>2, <1>4, <2>1 DEF D!Fresh
  <2>3. PICK is \in [Item -> D!ItemRow] : is = D!ItemsSeen(r) /\ Table(is) /\ DOMAIN is = Item
    BY <1>1, <1>2, SeenBefore
  <2>4. PICK after : after = D!Over(is, iw)
    OBVIOUS
  <2>5. after[i] = D!Set(item[i], k.cols) /\ \A x \in Item : x # i => after[x] = is[x]
    <3>1. after[i] = D!Set(is[i], w) /\ \A x \in Item : x # i => after[x] = is[x]
      BY <1>10, <2>3, <2>4, OverOnly
    <3>2. is[i] = item[i]
      BY <1>1, <1>2, <1>12, <2>3, SeenBefore
    <3>. QED BY <1>8, <2>2, <3>1, <3>2, SetChanged
  <2>6. \A c \in {"state", "dict", "value", "on", "default"} :
           after[i][c] = IF c \in DOMAIN k.cols THEN k.cols[c] ELSE item[i][c]
    BY <1>5, <2>5, SetHas, Tables DEF D!IInv
  <2>7. CASE k.op = "setItem"
    <3>1. DOMAIN k.cols \subseteq {"value", "on", "default"}
      BY <1>5, <2>7, NamedCols
    <3>2. /\ after[i].state = "live" /\ after[i].dict = k.dict
          /\ \A c \in DOMAIN k.cols : after[i][c] = k.cols[c]
      BY <2>2, <2>6, <3>1
    <3>3. ASSUME D!AsksDefault(k.cols), NEW x \in Item \ {i}
          PROVE  ~(after[x].state = "live" /\ after[x].dict = k.dict /\ after[x].default)
      BY <1>1, <1>2, <1>4, <1>13, <2>3, <2>5, <2>7, <3>3, ItemsBefore
    <3>. QED BY <1>7, <2>3, <2>4, <2>7, <3>2, <3>3 DEF D!Done
  <2>8. CASE k.op = "delItem"
    <3>1. /\ DOMAIN k.cols = {"state", "on", "default"} /\ k.cols.state = "gone"
          /\ ~k.cols.default
      BY <1>5, <2>8
    <3>2. after[i].state = k.cols.state /\ after[i].default = k.cols.default
      BY <2>6, <3>1
    <3>. QED BY <1>7, <2>3, <2>4, <2>8, <3>1, <3>2 DEF D!Done
  <2>. QED BY <1>2, <2>7, <2>8
<1>. QED BY <1>1, <1>2, <1>4, <1>7, <1>11, <1>12, <1>13, LastStatement

-------------------------------------------------------------------------------
\* No unique index refuses what an undisturbed request writes.

\* A deletion takes up no key, and a row that keeps its keys or loses some is no clash.
LEMMA DictLoses == ASSUME NEW x \in D!DictRow, NEW w \in D!DictCols,
                          \/ "state" \in DOMAIN w /\ w["state"] = "gone"
                          \/ "state" \notin DOMAIN w /\ "code" \notin DOMAIN w
                   PROVE  D!Keys(D!Set(x, w)) \subseteq D!Keys(x)
<1>1. PICK y \in D!DictRow : y = D!Set(x, w)
  BY DictSet
<1>2. \A c \in {"state", "code", "on"} : y[c] = IF c \in DOMAIN w THEN w[c] ELSE x[c]
  BY <1>1, SetHas
<1>3. y.state = "gone" \/ (y.state = x.state /\ y.code = x.code)
  BY <1>2
<1>. QED BY <1>1, <1>3, DictKeys

LEMMA ItemLoses == ASSUME NEW x \in D!ItemRow, NEW w \in D!ItemCols,
                          \/ "state" \in DOMAIN w /\ w["state"] = "gone"
                          \/ /\ DOMAIN w \subseteq {"on", "default"}
                             /\ "default" \in DOMAIN w => ~w["default"]
                   PROVE  D!Keys(D!Set(x, w)) \subseteq D!Keys(x)
<1>1. PICK y \in D!ItemRow : y = D!Set(x, w)
  BY ItemSet
<1>2. \A c \in {"state", "dict", "value", "on", "default"} :
         y[c] = IF c \in DOMAIN w THEN w[c] ELSE x[c]
  BY <1>1, SetHas
<1>3. \/ y.state = "gone"
      \/ /\ y.state = x.state /\ y.dict = x.dict /\ y.value = x.value
         /\ ~y.default \/ y.default = x.default
  <2>1. CASE "state" \in DOMAIN w /\ w["state"] = "gone"
    BY <1>2, <2>1
  <2>2. CASE /\ DOMAIN w \subseteq {"on", "default"}
             /\ "default" \in DOMAIN w => ~w["default"]
    <3>1. y.state = x.state /\ y.dict = x.dict /\ y.value = x.value
      BY <1>2, <2>2
    <3>2. CASE "default" \in DOMAIN w
      <4>1. y.default = w["default"]
        BY <1>2, <3>2
      <4>. QED BY <2>2, <3>1, <3>2, <4>1
    <3>3. CASE "default" \notin DOMAIN w
      <4>1. y.default = x.default
        BY <1>2, <3>3
      <4>. QED BY <3>1, <4>1
    <3>. QED BY <3>2, <3>3
  <2>. QED BY <2>1, <2>2
<1>. QED BY <1>1, <1>3, ItemKeys

\* One row of a table is written and loses keys.
LEMMA OneLoses == ASSUME NEW rows, NEW S, DOMAIN rows = S, Table(rows), D!Unique(rows), NEW y \in S, NEW w,
                         D!Keys(D!Set(rows[y], w)) \subseteq D!Keys(rows[y])
                  PROVE  ~D!Clash(rows, D!Only(S, y, w))
<1>1. PICK u : u = D!Only(S, y, w)
  OBVIOUS
<1>2. /\ D!Over(rows, u)[y] = D!Set(rows[y], w)
      /\ \A x \in S : x # y => D!Over(rows, u)[x] = rows[x]
  BY <1>1, OverOnly
<1>3. \A x \in DOMAIN rows : D!Keys(D!Over(rows, u)[x]) \subseteq D!Keys(rows[x])
  BY <1>2
<1>4. DOMAIN u = DOMAIN rows
  BY <1>1, OnlyOf
<1>5. ~D!Clash(rows, u)
  BY <1>3, <1>4, FewerKeys
<1>. QED BY <1>1, <1>5

\* One row of a table is written and takes up keys that no other has.
LEMMA OneFits == ASSUME NEW rows, NEW S, DOMAIN rows = S, Table(rows), NEW y \in S, NEW w,
                        \A x \in S : x # y =>
                           D!Keys(D!Set(rows[y], w)) \intersect D!Keys(rows[x]) = {}
                 PROVE  ~D!Clash(rows, D!Only(S, y, w))
<1>1. PICK u : u = D!Only(S, y, w)
  OBVIOUS
<1>2. /\ D!Over(rows, u)[y] = D!Set(rows[y], w)
      /\ \A x \in S : x # y => D!Over(rows, u)[x] = rows[x]
  BY <1>1, OverOnly
<1>3. D!Touched(u) \subseteq {y}
  BY <1>1, OnlyOf
<1>4. ~D!Clash(rows, u)
  BY <1>2, <1>3 DEF D!Clash
<1>. QED BY <1>1, <1>4

LEMMA NoneClashes == ASSUME NEW rows
                     PROVE  ~D!Clash(rows, D!NoWrite.dict) /\ ~D!Clash(rows, D!NoWrite.item)
BY NoCols DEF D!Clash

LEMMA InsertDictFits == ASSUME D!IInv, NEW r \in Req, ~editor[r].stale, D!InsertDict(r)
                        PROVE  editor'[r].pc # "idle"
<1>1. PICK k \in D!Job : k = editor[r]
  BY Tables DEF D!IInv
<1>2. PICK d \in Dict : D!FlushDict(r, d, k.cols, [D!To(r, "commit") EXCEPT !.dict = d])
  BY <1>1 DEF D!InsertDict
<1>3. k.pc = "write" /\ k.op = "addDict" /\ ~k.stale
  BY <1>1 DEF D!InsertDict, D!At
<1>4. D!Phase(r) /\ D!Fresh(r)
  BY <1>1, <1>3, WhoWrites
<1>5. PICK c \in Code : k.cols = [state |-> "live", code |-> c, on |-> TRUE]
  BY <1>1, <1>3, <1>4 DEF D!Phase
<1>6. \A x \in Dict : <<c>> \notin D!Keys(dict[x])
  <2>1. k.cols.code = c
    BY <1>5
  <2>. QED BY <1>1, <1>3, <1>4, <2>1 DEF D!Fresh
<1>7. D!Keys(D!Set(dict[d], k.cols)) \subseteq {<<c>>}
  <2>1. dict[d] \in D!DictRow /\ k.cols \in D!DictCols
    BY <1>5, Tables, RequestCols DEF D!IInv
  <2>2. PICK y \in D!DictRow : y = D!Set(dict[d], k.cols)
    BY <2>1, DictSet
  <2>3. "code" \in DOMAIN k.cols /\ k.cols["code"] = c
    BY <1>5
  <2>4. y.code = c
    BY <2>1, <2>2, <2>3, SetHas
  <2>. QED BY <2>2, <2>4, DictKeys
<1>8. ~D!Clash(dict, D!Only(Dict, d, k.cols))
  <2>1. \A x \in Dict : D!Keys(D!Set(dict[d], k.cols)) \intersect D!Keys(dict[x]) = {}
    BY <1>6, <1>7
  <2>. QED BY <2>1, OneFits, Tables DEF D!IInv
<1>9. D!DictsSeen(r) = dict
  BY <1>1, <1>3, SeenBefore
<1>10. PICK j : j = [D!To(r, "commit") EXCEPT !.dict = d]
  OBVIOUS
<1>11. Accepts(r, D!Only(Dict, d, k.cols), D!NoWrite.item)
  BY <1>8, <1>9, NoneClashes DEF Accepts
<1>12. editor'[r] = j
  BY <1>2, <1>10, <1>11, AcceptedFlush DEF D!FlushDict
<1>13. j.pc = "commit"
  BY <1>1, <1>10 DEF D!To, D!Job
<1>. QED BY <1>12, <1>13

LEMMA UpdateDictFits == ASSUME D!IInv, NEW r \in Req, ~editor[r].stale, D!UpdateDict(r)
                        PROVE  editor'[r].pc # "idle"
<1>1. PICK k \in D!Job : k = editor[r]
  BY Tables DEF D!IInv
<1>2. /\ k.pc = "write" /\ k.op \in {"setDict", "delDict"} /\ ~k.stale
      /\ D!FlushDict(r, k.dict, D!Changed(k.copy, k.cols), D!To(r, "commit"))
  BY <1>1 DEF D!UpdateDict, D!At
<1>3. D!Phase(r) /\ D!Fresh(r)
  BY <1>1, <1>2, WhoWrites
<1>4. PICK d \in Dict : d = k.dict
  BY <1>1, <1>2, <1>3 DEF D!Phase
<1>5. PICK w : w = D!Changed(k.copy, k.cols)
  OBVIOUS
<1>6. D!Set(dict[d], w) = D!Set(dict[d], k.cols)
  BY <1>1, <1>2, <1>3, <1>4, <1>5, SetChanged DEF D!Fresh
<1>7. /\ k.cols \in D!DictCols
      /\ \/ "state" \in DOMAIN k.cols /\ k.cols["state"] = "gone"
         \/ "state" \notin DOMAIN k.cols /\ "code" \notin DOMAIN k.cols
  <2>1. CASE k.op = "setDict"
    <3>1. PICK b \in BOOLEAN : k.cols = [on |-> b]
      BY <1>1, <1>3, <2>1 DEF D!Phase
    <3>. QED BY <3>1, RequestCols
  <2>2. CASE k.op = "delDict"
    <3>1. k.cols = [state |-> "gone", on |-> FALSE]
      BY <1>1, <1>3, <2>2 DEF D!Phase
    <3>. QED BY <3>1, RequestCols
  <2>. QED BY <1>2, <2>1, <2>2
<1>8. D!Keys(D!Set(dict[d], w)) \subseteq D!Keys(dict[d])
  BY <1>6, <1>7, DictLoses, Tables DEF D!IInv
<1>9. ~D!Clash(dict, D!Only(Dict, d, w))
  BY <1>8, OneLoses, Tables DEF D!IInv
<1>10. D!DictsSeen(r) = dict
  BY <1>1, <1>2, SeenBefore
<1>11. PICK j : j = D!To(r, "commit")
  OBVIOUS
<1>12. Accepts(r, D!Only(Dict, d, w), D!NoWrite.item)
  BY <1>9, <1>10, NoneClashes DEF Accepts
<1>13. editor'[r] = j
  BY <1>2, <1>4, <1>5, <1>11, <1>12, AcceptedFlush DEF D!FlushDict
<1>14. j.pc = "commit"
  BY <1>1, <1>11 DEF D!To, D!Job
<1>. QED BY <1>13, <1>14

LEMMA ClearFits == ASSUME D!IInv, NEW r \in Req, ~editor[r].stale, D!Clear(r)
                   PROVE  editor'[r].pc # "idle"
<1>1. PICK k \in D!Job : k = editor[r]
  BY Tables DEF D!IInv
<1>2. k.pc = "clear" /\ ~k.stale /\ D!Flush(r, D!NoWrite.dict, D!Clearing(k), D!To(r, "write"))
  BY <1>1 DEF D!Clear, D!At
<1>3. D!ItemsSeen(r) = item
  <2>1. written[r].item = D!NoWrite.item
    BY <1>1, <1>2 DEF D!IInv, D!Local, D!Flushed
  <2>. QED BY <2>1, NoneWritten DEF D!ItemsSeen
<1>4. PICK S \in SUBSET Item : S = D!ToClear(k)
  BY ToClearType
<1>5. PICK c \in D!ItemCols : c = D!Cleared(k.op)
  BY RequestCols DEF D!Cleared
<1>6. PICK w : w = D!Clearing(k)
  OBVIOUS
<1>7. \A i \in Item : D!Over(item, w)[i] = IF i \in S THEN D!Set(item[i], c) ELSE item[i]
  BY <1>1, <1>2, <1>4, <1>5, <1>6, WhoIsCleared
<1>8. ASSUME NEW i \in Item PROVE D!Keys(D!Set(item[i], c)) \subseteq D!Keys(item[i])
  <2>1. \/ "state" \in DOMAIN c /\ c["state"] = "gone"
        \/ /\ DOMAIN c \subseteq {"on", "default"}
           /\ "default" \in DOMAIN c => ~c["default"]
    BY <1>5 DEF D!Cleared
  <2>. QED BY <2>1, ItemLoses, Tables DEF D!IInv
<1>9. \A i \in DOMAIN item : D!Keys(D!Over(item, w)[i]) \subseteq D!Keys(item[i])
  BY <1>7, <1>8, Tables DEF D!IInv
<1>10. DOMAIN w = DOMAIN item /\ D!Unique(item)
  BY <1>6, ClearingType, Tables DEF D!IInv
<1>11. ~D!Clash(item, w)
  BY <1>9, <1>10, FewerKeys
<1>12. PICK j : j = D!To(r, "write")
  OBVIOUS
<1>13. Accepts(r, D!NoWrite.dict, w)
  BY <1>3, <1>11, NoneClashes DEF Accepts
<1>14. editor'[r] = j
  BY <1>2, <1>6, <1>12, <1>13, AcceptedFlush
<1>15. j.pc = "write"
  BY <1>1, <1>12 DEF D!To, D!Job
<1>. QED BY <1>14, <1>15

\* An item that no undisturbed request has written meets no other by its own keys.
LEMMA ItemsApart == ASSUME D!IInv, NEW i \in Item, NEW x \in Item, x # i, item[i].state = "live",
                           item[x].state = "live", item[i].dict = item[x].dict
                    PROVE  item[i].value # item[x].value /\ ~(item[i].default /\ item[x].default)
<1>1. item[i] \in D!ItemRow /\ item[x] \in D!ItemRow /\ DOMAIN item = Item
  BY Tables DEF D!IInv
<1>2. D!Keys(item[i]) \intersect D!Keys(item[x]) = {}
  BY <1>1 DEF D!IInv, D!Unique
<1>. QED BY <1>1, <1>2, ItemKeys

LEMMA InsertItemFits == ASSUME D!IInv, NEW r \in Req, ~editor[r].stale, D!InsertItem(r)
                        PROVE  editor'[r].pc # "idle"
<1>1. PICK k \in D!Job : k = editor[r]
  BY Tables DEF D!IInv
<1>2. PICK i \in Item : D!FlushItem(r, i, k.cols, [D!To(r, "commit") EXCEPT !.item = i])
  BY <1>1 DEF D!InsertItem
<1>3. k.pc = "write" /\ k.op = "addItem" /\ ~k.stale
  BY <1>1 DEF D!InsertItem, D!At
<1>4. D!Phase(r) /\ D!Fresh(r)
  BY <1>1, <1>3, WhoWrites
<1>5. PICK v \in Value, b \in BOOLEAN :
         k.cols = [state |-> "live", dict |-> k.dict, value |-> v, on |-> TRUE, default |-> b]
  BY <1>1, <1>3, <1>4 DEF D!Phase
<1>6. PICK is \in [Item -> D!ItemRow] : is = D!ItemsSeen(r) /\ Table(is) /\ DOMAIN is = Item
  BY <1>1, <1>3, SeenBefore
<1>7. PICK y : y = D!Set(is[i], k.cols)
  OBVIOUS
<1>8. /\ DOMAIN k.cols = {"state", "dict", "value", "on", "default"}
      /\ \A c \in DOMAIN k.cols : k.cols[c] = y[c]
  <2>1. DOMAIN k.cols = {"state", "dict", "value", "on", "default"}
    BY <1>5
  <2>2. DOMAIN is[i] = {"state", "dict", "value", "on", "default"}
    BY DEF D!ItemRow
  <2>. QED BY <1>7, <2>1, <2>2 DEF D!Set
<1>9. y \in D!ItemRow /\ y = k.cols
  <2>1. y = [c \in {"state", "dict", "value", "on", "default"} |-> y[c]]
    BY <1>7 DEF D!Set, D!ItemRow
  <2>2. k.cols = [c \in {"state", "dict", "value", "on", "default"} |-> k.cols[c]]
    BY <1>5
  <2>3. y = k.cols
    BY <1>8, <2>1, <2>2
  <2>4. k.dict \in Dict \union {None}
    BY JobParts
  <2>5. k.cols \in D!ItemRow
    BY <1>5, <2>4 DEF D!ItemRow
  <2>. QED BY <2>3, <2>5
<1>10. ASSUME NEW x \in Item, x # i, D!Keys(y) \intersect D!Keys(is[x]) # {} PROVE FALSE
  <2>1. /\ is[x].state = "live" /\ is[x].dict = y.dict
        /\ is[x].value = y.value \/ (y.default /\ is[x].default)
    BY <1>9, <1>10, ItemsMeet
  <2>2. y.dict = k.dict /\ y.value = k.cols.value
    BY <1>5, <1>9
  <2>3. x # k.item
    BY <1>1, <1>3, <1>4, DictionariesAssumption DEF D!Phase, D!Identifiers
  <2>4. CASE is[x].value = y.value
    <3>1. item[x].state = "live" /\ item[x].dict = k.dict /\ item[x].value = k.cols.value
      BY <1>1, <1>3, <1>6, <2>1, <2>2, <2>4, ItemsBefore
    <3>2. D!Taken(k)
      BY <2>3, <3>1 DEF D!Taken, D!Live
    <3>3. ~D!Taken(k)
      BY <1>1, <1>3, <1>4, <1>8 DEF D!Fresh
    <3>. QED BY <3>2, <3>3
  <2>5. CASE y.default /\ is[x].default
    <3>1. D!AsksDefault(k.cols)
      BY <1>8, <1>9, <2>5 DEF D!AsksDefault
    <3>. QED BY <1>1, <1>3, <1>6, <2>1, <2>2, <2>3, <2>5, <3>1, ItemsBefore
  <2>. QED BY <2>1, <2>4, <2>5
<1>11. ~D!Clash(is, D!Only(Item, i, k.cols))
  BY <1>6, <1>7, <1>10, OneFits
<1>12. PICK j : j = [D!To(r, "commit") EXCEPT !.item = i]
  OBVIOUS
<1>13. Accepts(r, D!NoWrite.dict, D!Only(Item, i, k.cols))
  BY <1>6, <1>11, NoneClashes DEF Accepts
<1>14. editor'[r] = j
  BY <1>2, <1>12, <1>13, AcceptedFlush DEF D!FlushItem
<1>15. j.pc = "commit"
  BY <1>1, <1>12 DEF D!To, D!Job
<1>. QED BY <1>14, <1>15

LEMMA UpdateItemFits == ASSUME D!IInv, NEW r \in Req, ~editor[r].stale, D!UpdateItem(r)
                        PROVE  editor'[r].pc # "idle"
<1>1. PICK k \in D!Job : k = editor[r]
  BY Tables DEF D!IInv
<1>2. /\ k.pc = "write" /\ k.op \in {"setItem", "delItem"} /\ ~k.stale
      /\ D!FlushItem(r, k.item, D!Changed(k.copy, k.cols), D!To(r, "commit"))
  BY <1>1 DEF D!UpdateItem, D!At
<1>3. D!Phase(r) /\ D!Fresh(r) /\ k.item \notin D!Touched(written[r].item)
  BY <1>1, <1>2, WhoWrites
<1>4. PICK i \in Item : i = k.item
  BY <1>1, <1>2, <1>3 DEF D!Phase
<1>5. PICK w : w = D!Changed(k.copy, k.cols)
  OBVIOUS
<1>6. PICK is \in [Item -> D!ItemRow] : is = D!ItemsSeen(r) /\ Table(is) /\ DOMAIN is = Item
  BY <1>1, <1>2, SeenBefore
<1>7. /\ is[i] = item[i] /\ item[i] = k.copy /\ item[i].state = "live" /\ item[i].dict = k.dict
      /\ item[i] \in D!ItemRow /\ D!Set(is[i], w) = D!Set(item[i], k.cols)
  <2>1. is[i] = item[i]
    BY <1>1, <1>2, <1>3, <1>4, <1>6, SeenBefore
  <2>2. item[i] = k.copy /\ item[i].state = "live" /\ item[i].dict = k.dict
    BY <1>1, <1>2, <1>3, <1>4 DEF D!Fresh
  <2>3. D!Set(is[i], w) = D!Set(item[i], k.cols)
    BY <1>5, <2>1, <2>2, SetChanged
  <2>. QED BY <2>1, <2>2, <2>3
<1>8. ~D!Clash(is, D!Only(Item, i, w))
  <2>1. CASE k.op = "setItem"
    <3>1. k.cols \in D!Named
      BY <1>1, <1>3, <2>1 DEF D!Phase
    <3>2. k.cols \in D!ItemCols /\ DOMAIN k.cols \subseteq {"value", "on", "default"}
      BY <3>1, NamedCols
    <3>3. PICK y \in D!ItemRow : y = D!Set(item[i], k.cols)
      BY <1>7, <3>2, ItemSet
    <3>4. \A c \in {"state", "dict", "value", "on", "default"} :
             y[c] = IF c \in DOMAIN k.cols THEN k.cols[c] ELSE item[i][c]
      BY <1>7, <3>2, <3>3, SetHas
    <3>5. y.dict = k.dict
      BY <1>7, <3>2, <3>4
    <3>6. ASSUME NEW x \in Item, x # i, D!Keys(y) \intersect D!Keys(is[x]) # {} PROVE FALSE
      <4>1. /\ is[x].state = "live" /\ is[x].dict = y.dict
            /\ is[x].value = y.value \/ (y.default /\ is[x].default)
        BY <3>6, ItemsMeet
      <4>2. /\ item[x].state = "live" /\ item[x].dict = k.dict /\ item[x].value = is[x].value
            /\ is[x].default => item[x].default
        BY <1>1, <1>2, <1>6, <3>5, <4>1, ItemsBefore
      <4>3. item[i].value # item[x].value /\ ~(item[i].default /\ item[x].default)
        BY <1>7, <3>6, <4>2, ItemsApart
      <4>4. CASE is[x].value = y.value
        <5>1. "value" \in DOMAIN k.cols /\ item[x].value = k.cols.value
          BY <3>4, <4>2, <4>3, <4>4
        <5>2. D!Taken(k)
          BY <1>4, <3>6, <4>2, <5>1 DEF D!Taken, D!Live
        <5>3. ~D!Taken(k)
          BY <1>1, <1>2, <1>3, <5>1 DEF D!Fresh
        <5>. QED BY <5>2, <5>3
      <4>5. CASE y.default /\ is[x].default
        <5>1. CASE "default" \in DOMAIN k.cols
          <6>1. D!AsksDefault(k.cols)
            <7>1. y.default = k.cols["default"]
              BY <3>4, <5>1
            <7>. QED BY <4>5, <5>1, <7>1 DEF D!AsksDefault
          <6>. QED BY <1>1, <1>2, <1>4, <1>6, <3>5, <3>6, <4>1, <4>5, <6>1, ItemsBefore
        <5>2. CASE "default" \notin DOMAIN k.cols
          <6>1. y.default = item[i].default
            BY <3>4, <5>2
          <6>. QED BY <4>2, <4>3, <4>5, <6>1
        <5>. QED BY <5>1, <5>2
      <4>. QED BY <4>1, <4>4, <4>5
    <3>. QED BY <1>6, <1>7, <3>3, <3>6, OneFits
  <2>2. CASE k.op = "delItem"
    <3>1. k.cols = [state |-> "gone", on |-> FALSE, default |-> FALSE]
      BY <1>1, <1>3, <2>2 DEF D!Phase
    <3>2. k.cols \in D!ItemCols /\ "state" \in DOMAIN k.cols /\ k.cols["state"] = "gone"
      BY <3>1, RequestCols
    <3>3. D!Keys(D!Set(is[i], w)) \subseteq D!Keys(is[i])
      BY <1>7, <3>2, ItemLoses
    <3>4. D!Unique(is)
      BY <1>6 DEF D!IInv
    <3>. QED BY <1>6, <3>3, <3>4, OneLoses
  <2>. QED BY <1>2, <2>1, <2>2
<1>9. PICK j : j = D!To(r, "commit")
  OBVIOUS
<1>10. Accepts(r, D!NoWrite.dict, D!Only(Item, i, w))
  BY <1>6, <1>8, NoneClashes DEF Accepts
<1>11. editor'[r] = j
  BY <1>2, <1>4, <1>5, <1>9, <1>10, AcceptedFlush DEF D!FlushItem
<1>12. j.pc = "commit"
  BY <1>1, <1>9 DEF D!To, D!Job
<1>. QED BY <1>11, <1>12

-------------------------------------------------------------------------------
\* The steps of an edit before its commit.
Opens(r) == \/ \E c \in Code : D!BeginAddDict(r, c)
            \/ \E d \in Dict, b \in BOOLEAN : D!BeginSetDict(r, d, b)
            \/ \E d \in Dict : D!BeginDelDict(r, d)
            \/ \E d \in Dict, v \in Value, b \in BOOLEAN : D!BeginAddItem(r, d, v, b)
            \/ \E i \in Item, cols \in D!Named : D!BeginSetItem(r, i, cols)
            \/ \E i \in Item : D!BeginDelItem(r, i)

Writes(r) == \/ D!InsertDict(r) \/ D!UpdateDict(r) \/ D!Clear(r)
             \/ D!InsertItem(r) \/ D!UpdateItem(r)

LEMMA EditActions == D!Next => \E r \in Req : \/ Opens(r) \/ Writes(r) \/ D!CheckValue(r)
                                              \/ D!List(r) \/ D!Commit(r)
BY DEF D!Next, Opens, Writes

LEMMA EditsStep == D!IInv /\ [D!Next]_VarsD => D!IInv'
<1>. SUFFICES ASSUME D!IInv, [D!Next]_VarsD PROVE D!IInv'
  OBVIOUS
<1>1. ASSUME NEW r \in Req, Opens(r) PROVE D!IInv'
  BY <1>1, BeginAddDictStep, BeginSetDictStep, BeginDelDictStep, BeginAddItemStep,
     BeginSetItemStep, BeginDelItemStep DEF Opens
<1>2. ASSUME NEW r \in Req, Writes(r) PROVE D!IInv'
  BY <1>2, InsertDictStep, UpdateDictStep, ClearStep, InsertItemStep, UpdateItemStep DEF Writes
<1>3. ASSUME UNCHANGED VarsD PROVE D!IInv'
  <2>1. dict' = dict /\ item' = item /\ editor' = editor /\ written' = written
    BY <1>3 DEF VarsD
  <2>2. D!TypeOK'
    BY <2>1 DEF D!IInv, D!TypeOK
  <2>3. D!Unique(dict)' /\ D!Unique(item)'
    BY <2>1 DEF D!IInv, D!Unique
  <2>4. ASSUME NEW q \in Req
        PROVE  D!Unique(D!DictsSeen(q))' /\ D!Unique(D!ItemsSeen(q))' /\ D!Local(q)'
    <3>1. D!DictsSeen(q)' = D!DictsSeen(q) /\ D!ItemsSeen(q)' = D!ItemsSeen(q)
      BY <2>1 DEF D!DictsSeen, D!ItemsSeen
    <3>2. D!Local(q)'
      BY <2>1, OthersLocal DEF D!IInv
    <3>. QED BY <3>1, <3>2 DEF D!IInv, D!Unique
  <2>5. ASSUME NEW p \in Req, NEW q \in Req, p # q PROVE D!Apart(p, q)'
    <3>1. /\ D!Disjoint(dict, written[p].dict, written[q].dict)
          /\ D!Disjoint(item, written[p].item, written[q].item)
      BY <2>5 DEF D!IInv, D!Apart
    <3>2. /\ D!Disjoint(dict', written'[p].dict, written'[q].dict)
          /\ D!Disjoint(item', written'[p].item, written'[q].item)
      BY <2>1, <3>1
    <3>3. /\ D!Disjoint(dict, written[p].dict, written[q].dict)'
          /\ D!Disjoint(item, written[p].item, written[q].item)'
      BY <3>2
    <3>. QED BY <3>3 DEF D!Apart
  <2>. QED BY <2>2, <2>3, <2>4, <2>5 DEF D!IInv
<1>. QED BY <1>1, <1>2, <1>3, EditActions, CheckValueStep, ListStep, CommitEdit

\* Who does not act does not end.
LEMMA OthersGoOn == ASSUME D!IInv, NEW q \in Req, NEW r \in Req, q # r,
                           Opens(q) \/ Writes(q) \/ D!CheckValue(q) \/ D!List(q) \/ D!Commit(q)
                    PROVE  editor'[r].pc = editor[r].pc
<1>1. editor \in [Req -> D!Job]
  BY DEF D!IInv, D!TypeOK
<1>2. CASE D!Commit(q)
  <2>1. editor'[r] = [editor[r] EXCEPT !.stale = editor[r].pc # "idle"]
    BY <1>2 DEF D!Commit
  <2>2. PICK k \in D!Job : k = editor[r]
    BY <1>1
  <2>. QED BY <2>1, <2>2 DEF D!Job
<1>3. CASE D!CheckValue(q) \/ D!List(q)
  BY <1>1, <1>3 DEF D!CheckValue, D!List, D!Raise
<1>4. CASE Opens(q)
  BY <1>1, <1>4 DEF Opens, D!BeginAddDict, D!BeginSetDict, D!BeginDelDict, D!BeginAddItem,
                    D!BeginSetItem, D!BeginDelItem, D!Begin
<1>5. CASE Writes(q)
  <2>1. ASSUME NEW dw, NEW iw, NEW j, D!Flush(q, dw, iw, j) PROVE editor'[r] = editor[r]
    BY <1>1, <2>1 DEF D!Flush, D!Raise
  <2>. QED BY <1>5, <2>1 DEF Writes, D!InsertDict, D!UpdateDict, D!Clear, D!InsertItem,
                             D!UpdateItem, D!FlushDict, D!FlushItem
<1>. QED BY <1>2, <1>3, <1>4, <1>5

\* Each end of an undisturbed edit is as promised.
DoneAll == \A r \in Req : D!Ends(r) /\ ~editor[r].stale =>
              /\ D!At(r, "commit") => D!Done(editor[r], dict', item')
              /\ D!At(r, "commit") \/ D!At(r, "value")

LEMMA EditsDone == D!IInv /\ [D!Next]_VarsD => [DoneAll]_VarsD
<1>. SUFFICES ASSUME D!IInv, D!Next, NEW r \in Req, editor[r].pc # "idle",
                     editor'[r].pc = "idle", ~editor[r].stale
              PROVE  /\ editor[r].pc = "commit" => D!Done(editor[r], dict', item')
                     /\ editor[r].pc = "commit" \/ editor[r].pc = "value"
  BY DEF DoneAll, D!At, D!Ends
<1>1. Opens(r) \/ Writes(r) \/ D!CheckValue(r) \/ D!List(r) \/ D!Commit(r)
  BY EditActions, OthersGoOn
<1>2. ~Opens(r)
  BY DEF Opens, D!BeginAddDict, D!BeginSetDict, D!BeginDelDict, D!BeginAddItem,
         D!BeginSetItem, D!BeginDelItem, D!Begin, D!At
<1>3. ~Writes(r)
  BY InsertDictFits, UpdateDictFits, ClearFits, InsertItemFits, UpdateItemFits DEF Writes
<1>4. ~D!List(r)
  <2>1. SUFFICES ASSUME D!List(r) PROVE FALSE
    OBVIOUS
  <2>2. PICK k \in D!Job : k = editor[r]
    BY Tables DEF D!IInv
  <2>3. PICK j : j = [D!To(r, "clear") EXCEPT !.found = [i \in D!ToClear(editor[r]) |-> item[i]]]
    OBVIOUS
  <2>4. editor'[r] = j
    BY <2>1, <2>3, Tables DEF D!List, D!IInv
  <2>5. j.pc = "clear"
    BY <2>2, <2>3 DEF D!To, D!Job
  <2>. QED BY <2>4, <2>5
<1>5. CASE D!CheckValue(r)
  BY <1>5 DEF D!CheckValue, D!At
<1>6. CASE D!Commit(r)
  <2>1. editor[r].pc = "commit" /\ dict' = D!DictsSeen(r) /\ item' = D!ItemsSeen(r)
    BY <1>6 DEF D!Commit, D!At
  <2>2. D!Done(editor[r], D!DictsSeen(r), D!ItemsSeen(r))
    BY <2>1 DEF D!IInv, D!Local, D!Fresh
  <2>. QED BY <2>1, <2>2
<1>. QED BY <1>1, <1>2, <1>3, <1>4, <1>5, <1>6

\* The inductive invariant of the dictionaries: the tables keep to their unique
\* indexes (repositories/dict.py, models/dict.py), as committed and as each
\* request sees them, since what two requests have written is apart.
THEOREM DictionariesInvariant == MCSpec => []D!IInv
<1>1. MCInit => D!IInv
  BY EditInit DEF MCInit
<1>2. D!IInv /\ [MCNext /\ UNCHANGED part]_<<part, vars, VarsP, VarsL, VarsD, VarsN>> => D!IInv'
  <2>1. ASSUME [MCNext /\ UNCHANGED part]_<<part, vars, VarsP, VarsL, VarsD, VarsN>>
        PROVE  [D!Next]_VarsD
    BY <2>1 DEF MCNext
  <2>. QED BY <2>1, EditsStep
<1>. QED BY <1>1, <1>2, PTL DEF MCSpec

\* However many edits of however many dictionaries overlap: who is not disturbed
\* does what the edit promises, refused only where the value is taken
\* (UndisturbedIsDone).
THEOREM EditsAreDone == MCSpec => UndisturbedIsDone
<1>1. D!IInv /\ [MCNext /\ UNCHANGED part]_<<part, vars, VarsP, VarsL, VarsD, VarsN>>
        => [DoneAll]_VarsD
  <2>1. ASSUME [MCNext /\ UNCHANGED part]_<<part, vars, VarsP, VarsL, VarsD, VarsN>>
        PROVE  [D!Next]_VarsD
    BY <2>1 DEF MCNext
  <2>. QED BY <2>1, EditsDone
<1>2. MCSpec => [][DoneAll]_VarsD
  BY <1>1, DictionariesInvariant, PTL DEF MCSpec
<1>. QED BY <1>2 DEF UndisturbedIsDone, D!UndisturbedIsDone, DoneAll, VarsD, D!vars

=============================================================================
