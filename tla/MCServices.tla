------------------------------ MODULE MCServices ------------------------------
\* Parts that share no state, each checked by itself: which one a behaviour is
\* about is chosen at first, and the others rest.
EXTENDS Snowflake, TLC

CONSTANTS w1, w2, first, Password, Req, None, Kept, Requests, Logins, name, address,
          Name, Address, Limit, FailOpen, Second, Window, Delay, MaxNow, Dict, Item, Code, Value, Edits,
          main, User, Ann, Event, Letters

VARIABLES part,
          account, history, nextRow, handed, changes, job, txn,
          now, begun, count, until, login, mark, passed,
          dict, item, edits, editor, written,
          active, posted, sent, inbox, letters, sender, mail

VarsP == <<account, history, nextRow, handed, changes, job, txn>>
VarsL == <<now, begun, count, until, login, mark, passed>>
VarsD == <<dict, item, edits, editor, written>>
VarsN == <<active, posted, sent, inbox, letters, sender, mail>>

P == INSTANCE Passwords WITH begun <- changes, MaxRequests <- Requests
L == INSTANCE RateLimit WITH job <- login, MaxRequests <- Logins
D == INSTANCE Dictionaries WITH begun <- edits, job <- editor, txn <- written,
                                MaxRequests <- Edits
N == INSTANCE Notices WITH begun <- letters, job <- sender, txn <- mail,
                           MaxRequests <- Letters

MCNode == w1 :> 0 @@ w2 :> 1
MCClock == -1..4
MCLimit == name :> 1 @@ address :> 2

\* Windows are of whole seconds, and a call of the back end ends some time.
ASSUME RateAssumption == L!Settings

\* As many passwords as PASSWORD_HISTORY_SIZE says are remembered: five.
ASSUME PasswordAssumption == P!Size

\* A row has an identifier.
ASSUME DictionariesAssumption == D!Identifiers

\* There are finitely many users, and an announcement is no message about an account.
ASSUME NoticesAssumption == N!Population

\* Which of the dictionaries are there does not matter, only how many.
MainFirst == /\ \A d \in Dict : dict[d].state = "live" => dict[main].state = "live"
             /\ dict[main].state = "none" => \A d \in Dict : dict[d].state = "none"

\* A window's time from mark meets two windows, nearly all of the first or of
\* the second.
MCInit == /\ part \in {"identifiers", "passwords", "rate limit", "dictionaries", "notices"}
          /\ Init /\ (part # "identifiers" => clock = 0)
          /\ P!Init /\ account.hash = first
          /\ L!Init /\ (IF part = "rate limit" THEN mark \in {1, Window - 1} ELSE mark = 0)
          /\ IF part = "dictionaries" THEN D!Init /\ MainFirst ELSE D!Empty
          /\ N!Init /\ (part # "notices" => \A u \in User : active[u])

MCNext == \/ part = "identifiers" /\ Next /\ UNCHANGED <<VarsP, VarsL, VarsD, VarsN>>
          \/ part = "passwords" /\ P!Next /\ UNCHANGED <<vars, VarsL, VarsD, VarsN>>
          \/ part = "rate limit" /\ L!Next /\ UNCHANGED <<vars, VarsP, VarsD, VarsN>>
          \/ part = "dictionaries" /\ D!Next /\ UNCHANGED <<vars, VarsP, VarsL, VarsN>>
          \/ part = "notices" /\ N!Next /\ UNCHANGED <<vars, VarsP, VarsL, VarsD>>

MCSpec == MCInit /\ [][MCNext /\ UNCHANGED part]_<<part, vars, VarsP, VarsL, VarsD, VarsN>>

\* What the others promise, by the names they give it.
UndisturbedRemembers == P!UndisturbedRemembers
ResetForcesChange    == P!ResetForcesChange
LimitHolds           == L!LimitHolds
UndisturbedIsDone    == D!UndisturbedIsDone
InboxIsKept          == N!InboxIsKept

\* The types of the five.
TypesOK == TypeOK /\ P!TypeOK /\ L!TypeOK /\ D!TypeOK /\ N!TypeOK

Symmetry == Permutations(Req) \union Permutations(Item) \union Permutations(Value)
===============================================================================
