----------------------------- MODULE Deployment -----------------------------
(***************************************************************************)
(* The container of docker-compose.yml: every start runs                   *)
(* "migrate && seed.py && runserver" over a database volume that survives, *)
(* so seed.py runs again over the rows that clients and managers left.     *)
(* Its statements run one after another with no enclosing transaction, and *)
(* the server does not start unless the script ends normally.              *)
(***************************************************************************)
EXTENDS Loans

CONSTANTS Seeds,                        \* indexes of the seeded applications
          ClientOne, ClientTwo, Carol,  \* client@, client2@, manager@testbank.com
          Reviewed                      \* the first 80 applications get an audit row

\* The text of a seeded application holds its index: the index stands for it.
ASSUME SeedsArePurposes == Seeds \subseteq Nat /\ Seeds \subseteq Purposes
ASSUME ReviewedIsNat == Reviewed \in Nat
ASSUME SeededUsers ==
    ClientOne \in Clients /\ ClientTwo \in Clients /\ ClientOne # ClientTwo /\ Carol \in Managers

VARIABLES phase,     \* "upsert", "decide" and "review" are the loops of seed.py
          todo,      \* indexes the current loop has not reached
          allLoans,  \* all_loans: the row found or created for each index
          reviews,   \* the status in each SEED_LOAN_REVIEWED row of audit_logs
          made       \* history: the rows that seed.py created

seedVars == <<phase, todo, allLoans, reviews, made>>

SeedClient(i) == IF i % 2 = 0 THEN ClientOne ELSE ClientTwo
SeedStatus(i) == IF i % 5 = 0 THEN "APPROVED" ELSE IF i % 7 = 0 THEN "REJECTED" ELSE "PENDING"

\* The rows update_or_create(client=..., purpose=...) looks up.
Matches(i) == {l \in LoanIds : loans[l].client = SeedClient(i) /\ loans[l].purpose = i}

IsNext(i) == i \in todo /\ \A j \in todo : i <= j

DeployInit ==
    /\ Init
    /\ phase = "upsert" /\ todo = Seeds
    /\ allLoans = [i \in Seeds |-> NoLoan]
    /\ reviews = [l \in LoanIds |-> <<>>]
    /\ made = {}

\* After the last index of a loop the next loop, or the server, starts.
Advance(i, next) ==
    IF todo = {i} THEN phase' = next /\ todo' = Seeds
                  ELSE todo' = todo \ {i} /\ UNCHANGED phase

\* Variant: get_or_create, which leaves an existing row alone.
UpsertKeeping(i) ==
    /\ phase = "upsert" /\ IsNext(i)
    /\ \E l \in LoanIds :
          /\ IF Matches(i) = {}
             THEN /\ ~Exists(l)
                  /\ \A j \in LoanIds : j < l => Exists(j)
                  /\ loans' = [loans EXCEPT ![l] = Pending(SeedClient(i), i)]
             ELSE Matches(i) = {l} /\ UNCHANGED loans
          /\ allLoans' = [allLoans EXCEPT ![i] = l]
          /\ made' = IF Matches(i) = {} THEN made \cup {l} ELSE made
    /\ Advance(i, "decide")
    /\ UNCHANGED <<reviews, lockedBy, auditLog, handler, answers, counters>>

\* Variant: filter(...).update(...), which writes to every match.
UpsertEveryMatch(i) ==
    /\ phase = "upsert" /\ IsNext(i)
    /\ \E l \in LoanIds :
          /\ IF Matches(i) = {}
             THEN ~Exists(l) /\ \A j \in LoanIds : j < l => Exists(j)
             ELSE l \in Matches(i)
          /\ loans' = [k \in LoanIds |->
                IF k = l \/ k \in Matches(i) THEN Pending(SeedClient(i), i) ELSE loans[k]]
          /\ allLoans' = [allLoans EXCEPT ![i] = l]
          /\ made' = IF Matches(i) = {} THEN made \cup {l} ELSE made
    /\ Advance(i, "decide")
    /\ UNCHANGED <<reviews, lockedBy, auditLog, handler, answers, counters>>

\* Variant: update_or_create(client=..., purpose=..., status="PENDING").
UpsertPendingOnly(i) ==
    /\ phase = "upsert" /\ IsNext(i)
    /\ LET pending == {l \in Matches(i) : loans[l].status = "PENDING"} IN
       \E l \in LoanIds :
          /\ IF pending = {}
             THEN ~Exists(l) /\ \A j \in LoanIds : j < l => Exists(j)
             ELSE pending = {l}
          /\ loans' = [loans EXCEPT ![l] = Pending(SeedClient(i), i)]
          /\ allLoans' = [allLoans EXCEPT ![i] = l]
          /\ made' = IF pending = {} THEN made \cup {l} ELSE made
    /\ Advance(i, "decide")
    /\ UNCHANGED <<reviews, lockedBy, auditLog, handler, answers, counters>>

\* update_or_create: a new row, or the only match back to PENDING.
Upsert(i) ==
    /\ phase = "upsert" /\ IsNext(i)
    /\ \E l \in LoanIds :
          /\ IF Matches(i) = {}
             THEN ~Exists(l) /\ \A j \in LoanIds : j < l => Exists(j)
             ELSE Matches(i) = {l}
          /\ loans' = [loans EXCEPT ![l] = Pending(SeedClient(i), i)]
          /\ allLoans' = [allLoans EXCEPT ![i] = l]
          /\ made' = IF Matches(i) = {} THEN made \cup {l} ELSE made
    /\ Advance(i, "decide")
    /\ UNCHANGED <<reviews, lockedBy, auditLog, handler, answers, counters>>

\* Two matches raise MultipleObjectsReturned: the script ends, no server runs.
UpsertAmbiguous(i) ==
    /\ phase = "upsert" /\ IsNext(i)
    /\ Cardinality(Matches(i)) > 1
    /\ phase' = "failed"
    /\ UNCHANGED <<todo, allLoans, reviews, made, vars>>

\* The second loop decides every fifth and every seventh seeded application.
SeedDecide(i) ==
    /\ phase = "decide" /\ IsNext(i)
    /\ loans' = IF SeedStatus(i) = "PENDING" THEN loans
                ELSE [loans EXCEPT ![allLoans[i]].status = SeedStatus(i),
                                   ![allLoans[i]].manager = Carol]
    /\ Advance(i, "review")
    /\ UNCHANGED <<allLoans, reviews, made, lockedBy, auditLog, handler, answers, counters>>

\* Variant: a row on every start.
SeedReviewAgain(i) ==
    /\ phase = "review" /\ IsNext(i)
    /\ reviews' = IF i < Reviewed
                  THEN [reviews EXCEPT ![allLoans[i]] = Append(@, SeedStatus(i))]
                  ELSE reviews
    /\ Advance(i, "serving")
    /\ UNCHANGED <<allLoans, made, vars>>

\* The third loop: an audit row for an application that has none yet.
SeedReview(i) ==
    /\ phase = "review" /\ IsNext(i)
    /\ reviews' = IF i < Reviewed /\ reviews[allLoans[i]] = <<>>
                  THEN [reviews EXCEPT ![allLoans[i]] = Append(@, SeedStatus(i))]
                  ELSE reviews
    /\ Advance(i, "serving")
    /\ UNCHANGED <<allLoans, made, vars>>

\* log_action swallows its failure: the next start tries again.
SeedReviewFails(i) ==
    /\ phase = "review" /\ IsNext(i)
    /\ i < Reviewed /\ reviews[allLoans[i]] = <<>>
    /\ faults < MaxFaults /\ faults' = faults + 1
    /\ Advance(i, "serving")
    /\ UNCHANGED <<allLoans, reviews, made, loans, lockedBy, auditLog, handler, answers, accepted, crashes>>

ServeRequests == phase = "serving" /\ Serve /\ UNCHANGED seedVars

\* The container stops, in the middle of a request or of the script, and is
\* started again.
Restart ==
    /\ Crash
    /\ phase' = "upsert" /\ todo' = Seeds /\ allLoans' = [i \in Seeds |-> NoLoan]
    /\ UNCHANGED <<reviews, made>>

Waiting == phase \in {"serving", "failed"} /\ Quiescent /\ UNCHANGED seedVars

DeployNext ==
    \/ \E i \in Seeds : Upsert(i) \/ UpsertAmbiguous(i) \/ SeedDecide(i)
                       \/ SeedReview(i) \/ SeedReviewFails(i)
    \/ ServeRequests
    \/ Restart
    \/ Waiting

DeploySpec == DeployInit /\ [][DeployNext]_<<vars, seedVars>>

-----------------------------------------------------------------------------
\* Whenever the server starts, however often seed.py was cut short before,
\* each seeded application is one row with the status its index gives it.
SeedComplete ==
    (phase # "serving" /\ phase' = "serving") =>
        \A i \in Seeds : \E l \in LoanIds :
            /\ Matches(i)' = {l}
            /\ loans'[l].status = SeedStatus(i)
            /\ loans'[l].manager = IF SeedStatus(i) = "PENDING" THEN NoUser ELSE Carol
StartsFromSeed == [][SeedComplete]_<<vars, seedVars>>

\* Applications that clients submitted keep their decision over restarts: the
\* script writes seeded rows only.
SubmittedRowKept ==
    \A l \in LoanIds : (loans[l].status \in Decisions /\ l \notin made) => loans'[l] = loans[l]
SubmittedDecisionsFinal == [][SubmittedRowKept]_<<vars, seedVars>>

\* However often the script is cut short and run again, an application has one
\* audit row of the seed at most, it belongs to a seeded application, and it names
\* the status that the seed gives it, not the one a manager gave it meanwhile.
SeedReviewedOnce ==
    \A l \in LoanIds : reviews[l] # <<>> =>
        \E i \in Seeds : /\ l \in Matches(i) \cap made /\ i < Reviewed
                         /\ reviews[l] = <<SeedStatus(i)>>

\* However often the script is cut short between its statements and run again,
\* and whatever managers decided meanwhile, it never creates a second row for an
\* index, so it fails only over a row that a seeded client submitted with the
\* very text of a seeded application of its own.
FailsOnlyOnDuplicate ==
    /\ \A i \in Seeds : Cardinality(Matches(i) \cap made) <= 1
    /\ phase = "failed" => \E i \in Seeds : Matches(i) \ made # {}
=============================================================================
