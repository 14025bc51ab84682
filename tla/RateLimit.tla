------------------------------ MODULE RateLimit ------------------------------
(***************************************************************************)
(* The limit on logins (app/core/rate_limit.py with its Redis back end;    *)
(* app/api/v1/endpoints/auth.py: _enforce_login_rate_limit).  A login is   *)
(* counted for its user name and then for its address, each under a key    *)
(* that names a fixed window of time; a key lives for a window from the    *)
(* last time it was counted.  Time passes between the making of a key and  *)
(* its being counted, and the back end may fail.                           *)
(***************************************************************************)
EXTENDS Integers, Sequences

CONSTANTS Name, Address, Req,
          Limit,           \* Limit[s]: rate_limit_login_per_subject, _per_ip
          Second,          \* ticks of the clock in a second
          Window,          \* ticks in rate_limit_login_window_seconds
          Delay,           \* bound on the ticks a call of the back end takes,
                           \* its client's retries included
          FailOpen,        \* settings.rate_limit_fail_open
          MaxNow, MaxRequests  \* bounds on the clock, and on logins and resends

Subject == Name \union Address
Key     == Subject \X (0..(MaxNow \div Window))

Settings == /\ Limit \in [Subject -> Nat] /\ Second \in Nat \ {0}
            /\ Window \in Nat \ {0} /\ Window % Second = 0
            /\ MaxNow \in Nat /\ Delay \in Nat /\ MaxRequests \in Nat

VARIABLES now, begun,
          count, until,    \* the back end: INCR and EXPIRE
          job,             \* logins: what is still to be counted, and when its key was made
          mark, passed     \* keys made within a window of mark that were counted within the limit

vars == <<now, begun, count, until, job, mark, passed>>

Job  == [pc : {"idle", "hit", "ttl"}, todo : {<<>>} \union {<<a>> : a \in Address}
                                               \union (Name \X Address),
         made : 0..MaxNow, since : 0..MaxNow]
Idle == [pc |-> "idle", todo |-> <<>>, made |-> 0, since |-> 0]

TypeOK == /\ now \in 0..MaxNow /\ begun \in 0..MaxRequests
          /\ count \in [Key -> Nat] /\ until \in [Key -> Nat]
          /\ job \in [Req -> Job] /\ mark \in 0..Window /\ passed \in [Subject -> Nat]

Init == /\ now = 0 /\ begun = 0
        /\ count = [k \in Key |-> 0] /\ until = [k \in Key |-> 0]
        /\ job = [r \in Req |-> Idle]
        /\ mark \in 0..Window /\ passed = [s \in Subject |-> 0]

\* build_key names the window that has begun: a window is of whole seconds, so
\* that the time is truncated to one first makes no difference.  Which hash
\* stands for a subject is left out.
KeyOf(r) == <<Head(job[r].todo), job[r].made \div Window>>

Login(r) == /\ job[r].pc = "idle" /\ begun < MaxRequests
            /\ \E n \in Name, a \in Address :
                  job' = [job EXCEPT ![r] = [pc |-> "hit", todo |-> <<n, a>>,
                                             made |-> now, since |-> now]]
            /\ begun' = begun + 1
            /\ UNCHANGED <<now, count, until, mark, passed>>

\* The next subject, or the login goes on; refused for the second, it has been
\* counted for the first.
Proceed(r) ==
    IF Len(job[r].todo) = 1
      THEN job' = [job EXCEPT ![r] = Idle]
      ELSE job' = [job EXCEPT ![r].todo = Tail(@), ![r].made = now, ![r].since = now]

Lifetime == Window

Store(k) == /\ count' = [count EXCEPT ![k] = @ + 1]
            /\ until' = [until EXCEPT ![k] = now + Lifetime]

\* Seeded fault: the one that reaches the limit is not the last.
OneMore(s, n) == n <= Limit[s] + 1

Within(s, n) == n <= Limit[s]

Hit(r) ==
    LET k == KeyOf(r)
    IN  /\ job[r].pc = "hit" /\ Store(k)
        /\ IF Within(k[1], count[k] + 1)
             THEN /\ passed' = [passed EXCEPT ![k[1]] = IF job[r].made - mark \in 0..(Window - 1) THEN @ + 1 ELSE @]
                  /\ Proceed(r)
             ELSE /\ job' = [job EXCEPT ![r].pc = "ttl", ![r].since = now]
                  /\ UNCHANGED passed
        /\ UNCHANGED <<now, begun, mark>>

\* The back end fails, before it has counted or after; then the subject passes
\* unless settings say otherwise.
Unreachable(r) ==
    /\ job[r].pc = "hit"
    /\ Store(KeyOf(r)) \/ UNCHANGED <<count, until>>
    /\ IF FailOpen THEN Proceed(r) ELSE job' = [job EXCEPT ![r] = Idle]
    /\ UNCHANGED <<now, begun, mark, passed>>

\* The client of the back end sends the commands once more when their answer
\* is lost; they have been done.
Resend(r) == /\ job[r].pc = "hit" /\ begun < MaxRequests
             /\ begun' = begun + 1 /\ Store(KeyOf(r))
             /\ UNCHANGED <<now, job, mark, passed>>

\* t in whole seconds, as the back ends answer it: truncated in memory, the
\* nearest in Redis.
Whole(t) == {(t \div Second) * Second, ((t + Second \div 2) \div Second) * Second}

\* What may be answered to a login that is refused: what the back end says, or
\* the window when it fails, the key is gone or less than a second is left.
RetryAfter(k) == {Window} \union IF count[k] > 0 THEN Whole(until[k] - now) \ {0} ELSE {}

Refuse(r) == /\ job[r].pc = "ttl"
             /\ job' = [job EXCEPT ![r] = Idle]
             /\ UNCHANGED <<now, begun, count, until, mark, passed>>

\* Time passes; keys expire.
Tick == /\ now < MaxNow
        /\ \A r \in Req : job[r].pc # "idle" => now - job[r].since < Delay
        /\ now' = now + 1
        /\ until' = [k \in Key |-> IF until[k] > now' THEN until[k] ELSE 0]
        /\ count' = [k \in Key |-> IF until[k] > now' THEN count[k] ELSE 0]
        /\ UNCHANGED <<begun, job, mark, passed>>

Next == Tick \/ \E r \in Req : Login(r) \/ Hit(r) \/ Resend(r) \/ Unreachable(r) \/ Refuse(r)

Spec == Init /\ [][Next]_vars

-------------------------------------------------------------------------------
\* So many lives of a subject's keys a window's time meets at most.  Twice the
\* limit, as rate_limit.py:28 says, if the back end answers at once; three times
\* if it takes up to half a window.
MostLives == (3 * Window + 2 * Delay - 2) \div Window

\* In any time as long as a window no subject is let pass more often than its
\* limit in each of those lives, although a key may be counted late, or twice,
\* and expire between two of its counts; what passes because the back end has
\* failed is not counted.
PassesAreBounded == \A s \in Subject : passed[s] <= MostLives * Limit[s]

\* Who was refused and waits as long as he was told, and a second because that
\* was rounded, is counted in a later window.  (The rest of the window,
\* as rate_limit.py:82 has it, may end inside of it: the second is needed.)
RetryIsEnough ==
    \A r \in Req : job[r].pc = "ttl" =>
       \A n \in RetryAfter(KeyOf(r)) : (now + n + Second) \div Window > job[r].made \div Window

\* What the limit promises to the system and to who is refused.
LimitHolds == PassesAreBounded /\ RetryIsEnough

-------------------------------------------------------------------------------
\* The inductive invariant of both: IInv.

\* A key is counted soon after it was made; and while a login that it made is
\* being refused it lives for a window from when it was made, or is gone.
Timely(r) ==
    LET j == job[r]
    IN  j.pc # "idle" =>
           /\ j.todo # <<>> /\ j.made <= j.since /\ j.since <= now /\ now - j.since <= Delay
           /\ j.pc = "hit" => j.since = j.made
           /\ j.pc = "ttl" /\ count[KeyOf(r)] > 0 => until[KeyOf(r)] >= j.made + Window

\* A window's time from mark meets two windows; in the i-th keys are made from
\* Begins(i) to Latest(i), and counted for as long as Span(i).
First     == mark \div Window
Begins(i) == IF i = 0 THEN mark ELSE (First + 1) * Window
Latest(i) == IF i = 0 THEN (First + 1) * Window - 1 ELSE mark + Window - 1
Span(i)   == Latest(i) - Begins(i) + Delay

\* p have passed in the i-th window: n lives of its key have ended, in each of
\* which at most the limit passed, and x in the present one.
Fits(s, i, p, n, x) ==
    LET k == <<s, First + i>>
    IN  /\ p <= n * Limit[s] + x
        /\ n > 0 \/ x > 0 => now >= Begins(i) + n * Window
        /\ x > 0 => /\ k \in Key /\ x <= count[k] /\ until[k] >= Begins(i) + (n + 1) * Window
                    /\ n * Window <= Span(i)
        /\ n > 0 => (n - 1) * Window <= Span(i)

Accounted(s, i, p) ==
    \E n \in 0..now, x \in 0..Limit[s] : Fits(s, i, p, n, x)

IInv == /\ TypeOK
        /\ \A r \in Req : Timely(r)
        /\ \A s \in Subject : \E p \in 0..passed[s] : Accounted(s, 0, p) /\ Accounted(s, 1, passed[s] - p)
==============================================================================
