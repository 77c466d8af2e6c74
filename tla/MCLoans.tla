------------------------------ MODULE MCLoans ------------------------------
(* Small instances of Loans for TLC. *)
EXTENDS Loans, TLC

CONSTANTS c1, c2, m1, m2, a1

\* Threads are interchangeable, and so are the managers.
Symmetric == Permutations(Workers) \cup Permutations(Managers)
=============================================================================
