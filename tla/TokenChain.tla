----------------------------- MODULE TokenChain -----------------------------
(***************************************************************************)
(* What refresh token rotation promises: a refresh token is exchanged at   *)
(* most once, for exactly one successor, and never after it was closed by  *)
(* a logout.  A session is the chain of pairs that starts with a login.    *)
(***************************************************************************)
CONSTANTS Pairs, None

VARIABLES stage,       \* of the refresh token of every pair
          predecessor  \* the pair whose refresh token was exchanged for this one

Init ==
    /\ stage = [p \in Pairs |-> "absent"]
    /\ predecessor = [p \in Pairs |-> None]

\* A login starts a chain.
Open(p) ==
    /\ stage[p] = "absent"
    /\ stage' = [stage EXCEPT ![p] = "live"]
    /\ UNCHANGED predecessor

\* The old token is spent in the step that makes the new one.
Exchange(p, q) ==
    /\ stage[p] = "live"
    /\ stage[q] = "absent"
    /\ stage' = [stage EXCEPT ![p] = "spent", ![q] = "live"]
    /\ predecessor' = [predecessor EXCEPT ![q] = p]

Close(p) ==
    /\ stage[p] = "live"
    /\ stage' = [stage EXCEPT ![p] = "closed"]
    /\ UNCHANGED predecessor

Next ==
    \/ \E p \in Pairs : Open(p) \/ Close(p)
    \/ \E p, q \in Pairs : Exchange(p, q)

Spec == Init /\ [][Next]_<<stage, predecessor>>
=============================================================================
