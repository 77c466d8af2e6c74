----------------------------- MODULE LoanLedger -----------------------------
(***************************************************************************)
(* What the loans API promises, without requests, locks or failures: an    *)
(* application is submitted once, decided at most once, and whoever is     *)
(* told of a decision is told the one the ledger holds for ever.           *)
(***************************************************************************)
CONSTANTS LoanIds, Clients, Managers, Purposes, Decisions, NoRow, NoUser

VARIABLES ledger,        \* the stored row of every application identifier
          acknowledged   \* decisions that managers have been told were made

Pending(c, p) ==
    [client |-> c, purpose |-> p, status |-> "PENDING", manager |-> NoUser]

Decided(row, m, d) == [row EXCEPT !.status = d, !.manager = m]

Init == ledger = [l \in LoanIds |-> NoRow] /\ acknowledged = {}

Submit(l, c, p) ==
    /\ ledger[l] = NoRow
    /\ ledger' = [ledger EXCEPT ![l] = Pending(c, p)]
    /\ UNCHANGED acknowledged

Decide(l, m, d) ==
    /\ ledger[l].status = "PENDING"
    /\ ledger' = [ledger EXCEPT ![l] = Decided(@, m, d)]
    /\ UNCHANGED acknowledged

Acknowledge(l, m, d) ==
    /\ ledger[l].status = d
    /\ ledger[l].manager = m
    /\ acknowledged' = acknowledged \cup {[loan |-> l, manager |-> m, status |-> d]}
    /\ UNCHANGED ledger

Next == \E l \in LoanIds :
           \/ \E c \in Clients, p \in Purposes : Submit(l, c, p)
           \/ \E m \in Managers, d \in Decisions : Decide(l, m, d) \/ Acknowledge(l, m, d)

Spec == Init /\ [][Next]_<<ledger, acknowledged>>
=============================================================================
