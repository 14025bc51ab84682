------------------------------ MODULE SessionLife ------------------------------
(***************************************************************************)
(* What the session component promises, without requests, locks or         *)
(* transactions: the life of a session is opened, rotated any number of    *)
(* times with a token pair nobody has held before, and revoked for good.   *)
(* A step may move several sessions: a login opens one and revokes others. *)
(***************************************************************************)
CONSTANTS Sess, Pair, None

VARIABLES phase,    \* "absent", "live" or "revoked"
          holder,   \* the token pair the session answers to
          spent     \* pairs that were handed out and then replaced

vars == <<phase, holder, spent>>

Init == /\ phase = [s \in Sess |-> "absent"]
        /\ holder = [s \in Sess |-> None]
        /\ spent = {}

Used == spent \union {holder[s] : s \in Sess}

Opens(s) == /\ phase[s] = "absent"
            /\ phase'[s] \in {"live", "revoked"}
            /\ holder'[s] \in Pair \ Used

Keeps(s) == /\ phase'[s] = phase[s]
            /\ holder'[s] = holder[s]

Rotates(s) == /\ phase[s] = "live"
              /\ phase'[s] = "live"
              /\ holder'[s] \in Pair \ Used

Revokes(s) == /\ phase[s] # "absent"
              /\ phase'[s] = "revoked"
              /\ holder'[s] = holder[s]

Next == /\ \A s \in Sess : Opens(s) \/ Keeps(s) \/ Rotates(s) \/ Revokes(s)
        /\ phase' = [s \in Sess |-> phase'[s]]
        /\ holder' = [s \in Sess |-> holder'[s]]
        /\ spent' = spent \union {holder[s] : s \in {t \in Sess : /\ phase[t] = "live"
                                                                  /\ holder'[t] # holder[t]}}

Spec == Init /\ [][Next]_vars
===============================================================================
