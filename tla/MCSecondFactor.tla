---------------------------- MODULE MCSecondFactor ----------------------------
EXTENDS SecondFactor

VARIABLE together   \* whether two requests have been in progress at once

MCVars == <<vars, together>>

MCInit == Init /\ together = FALSE

MCNext == Next /\ together' = (together \/ \E q, r \in Req : q # r /\ job'[q].pc # "idle"
                                                                   /\ job'[r].pc # "idle")

MCSpec == MCInit /\ [][MCNext]_MCVars

\* As long as one request has followed the other, a challenge was redeemed at
\* most once, a credential that is enabled was proven with a code and one that
\* is disabled keeps no secret; requests that overlap undo each of the three.
OneByOne == ~together => OneTime /\ EnabledIsProven /\ DisabledKeepsNothing

Symmetry == Permutations(Secret) \union Permutations(Chal) \union Permutations(Req)
===============================================================================
