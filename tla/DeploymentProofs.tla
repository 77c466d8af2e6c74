-------------------------- MODULE DeploymentProofs --------------------------
(***************************************************************************)
(* Proofs about Deployment for every set of users, threads and seeds: the  *)
(* rows and audit rows of seed.py over any number of restarts.             *)
(***************************************************************************)
EXTENDS Deployment, LoansProofs, FiniteSetTheorems

\* all_loans holds the only row of the index, and that row has its status and manager.
Found(i) == allLoans[i] \in LoanIds /\ Matches(i) = {allLoans[i]}
Holds(i, status, manager) ==
    Found(i) /\ loans[allLoans[i]].status = status /\ loans[allLoans[i]].manager = manager
Decided(i) == Holds(i, SeedStatus(i), IF SeedStatus(i) = "PENDING" THEN NoUser ELSE Carol)

Phases == {"upsert", "decide", "review", "serving", "failed"}

SeedTyped ==
    /\ phase \in Phases /\ todo \subseteq Seeds
    /\ allLoans \in [Seeds -> LoanIds \cup {NoLoan}]
    /\ reviews \in [LoanIds -> Seq({"APPROVED", "REJECTED", "PENDING"})]

\* How far each loop of the script has come; no thread serves a request meanwhile.
ScriptOK ==
    /\ phase \in {"upsert", "decide", "review"} => \A w \in Workers : pc[w] = "idle"
    /\ phase = "upsert" => \A i \in Seeds \ todo : Holds(i, "PENDING", NoUser)
    /\ phase = "decide" => \A i \in Seeds : IF i \in todo THEN Holds(i, "PENDING", NoUser)
                                                          ELSE Decided(i)
    /\ phase = "review" => \A i \in Seeds : Decided(i)
    /\ phase = "serving" => \A i \in Seeds : Matches(i) # {}

\* Every index that has a row has exactly one that the script made: clients come
\* to add others only while the server runs, when the script has made its own.
MadeOnce(i) == \E l \in LoanIds : Matches(i) \cap made = {l}
MadeOK ==
    /\ made \subseteq LoanIds /\ \A l \in made : Exists(l)
    /\ \A i \in Seeds : Matches(i) # {} => MadeOnce(i)

DeployInv ==
    LockInv /\ SeedTyped /\ ScriptOK /\ MadeOK /\ SeedReviewedOnce /\ FailsOnlyOnDuplicate

-----------------------------------------------------------------------------
\* What every statement that writes the table keeps: the client and the purpose of
\* each row.
RowsKept ==
    \A l \in LoanIds :
        Exists(l) => /\ loans'[l] # NoRow
                     /\ loans'[l].client = loans[l].client
                     /\ loans'[l].purpose = loans[l].purpose

\* A row has a user for its client; the absent row has none.
LEMMA RowClient ==
    ASSUME NEW row \in Row
    PROVE  row # NoRow <=> row.client \in Users
BY NullsAreNot DEF Row, NoRow

\* The rows that a seeded application matches exist, and each has one index.
LEMMA MatchFacts ==
    ASSUME TypeOK, NEW i \in Seeds, NEW l \in Matches(i)
    PROVE  /\ l \in LoanIds /\ Exists(l)
           /\ \A j \in Seeds : l \in Matches(j) => j = i
<1>1. l \in LoanIds /\ loans[l] \in Row /\ loans[l].client = SeedClient(i) /\ loans[l].purpose = i
  BY DEF Matches, TypeOK, TablesOK, Table
<1>2. SeedClient(i) \in Users
  BY SeededUsers DEF SeedClient, Users
<1>3. QED
  BY <1>1, <1>2, RowClient DEF Exists, Matches

\* The steps of the server keep the rows.
LEMMA ServerKeepsRows == LockInv /\ [Next]_vars => RowsKept
<1> SUFFICES ASSUME LockInv, [Next]_vars PROVE RowsKept
  OBVIOUS
<1> USE DEF LockInv, TypeOK
<1>0. ASSUME loans' = loans PROVE RowsKept
  BY <1>0 DEF RowsKept, Exists
<1>1. ASSUME NEW w \in Workers, ApplyCreate(w) PROVE RowsKept
  <2>1. PICK id \in LoanIds :
           /\ ~Exists(id)
           /\ loans' = [loans EXCEPT ![id] = Pending(req[w].user, req[w].purpose)]
    BY <1>1 DEF ApplyCreate
  <2>2. \A l \in LoanIds : l # id => loans'[l] = loans[l]
    BY <2>1 DEF TablesOK, Table
  <2>3. QED
    BY <2>1, <2>2 DEF RowsKept, Exists
<1>2. ASSUME NEW w \in Workers, DecideCommit(w) PROVE RowsKept
  <2> DEFINE l == req[w].loan
             row == [loans[l] EXCEPT !.status = req[w].status, !.manager = req[w].user]
  <2>1. /\ l \in LoanIds /\ Exists(l) /\ req[w].status \in Decisions /\ req[w].user \in Users
        /\ loans' = [loans EXCEPT ![l] = row]
    BY <1>2, RequestFields DEF DecideCommit, LockHolders, HandlerShape
  <2>2. loans[l] \in Row \ {NoRow}
    BY <2>1 DEF Exists, TablesOK, Table
  <2>3. row.client = loans[l].client /\ row.purpose = loans[l].purpose /\ row \in Row
    BY <2>1, <2>2 DEF Row
  <2>4. row # NoRow
    BY <2>2, <2>3, RowClient
  <2>5. \A k \in LoanIds : loans'[k] = IF k = l THEN row ELSE loans[k]
    BY <2>1 DEF TablesOK, Table
  <2> HIDE DEF row
  <2>6. QED
    BY <2>1, <2>3, <2>4, <2>5 DEF RowsKept, Exists
<1>3. ASSUME NEW w \in Workers,
             \/ Begin(w) \/ ApplyForbidden(w) \/ DecideForbidden(w) \/ DecideMissing(w)
             \/ DecideLock(w) \/ DecideConflict(w) \/ Get(w) \/ List(w) \/ Export(w)
             \/ ExportStream(w) \/ AuditWrite(w) \/ AuditSwallowed(w) \/ Answer(w)
             \/ StatementFails(w)
      PROVE  loans' = loans
  BY <1>3 DEF Begin, ApplyForbidden, DecideForbidden, DecideMissing, DecideLock,
      DecideConflict, Get, List, Export, ExportStream, AuditWrite, AuditSwallowed, Answer,
      StatementFails, tables
<1>4. CASE Crash \/ UNCHANGED vars
  BY <1>0, <1>4 DEF Crash, vars
<1>5. QED
  BY <1>0, <1>1, <1>2, <1>3, <1>4 DEF Next, Serve, Proceed, Quiescent

-----------------------------------------------------------------------------
\* A match stays one, and a new match is a new row.
LEMMA MatchesGrow ==
    ASSUME TypeOK, RowsKept, NEW i \in Seeds
    PROVE  /\ Matches(i) \subseteq Matches(i)'
           /\ \A l \in Matches(i)' \ Matches(i) : ~Exists(l)
<1>1. ASSUME NEW l \in Matches(i) PROVE l \in Matches(i)'
  BY <1>1, MatchFacts DEF RowsKept, Matches
<1>2. ASSUME NEW l \in Matches(i)' \ Matches(i) PROVE ~Exists(l)
  BY <1>2 DEF RowsKept, Matches
<1>3. QED
  BY <1>1, <1>2

\* The script's rows stay the only ones it made, whatever clients submit once
\* every index has a row.
LEMMA MadeStays ==
    ASSUME TypeOK, RowsKept, MadeOK, UNCHANGED made,
           loans' = loans \/ \A i \in Seeds : Matches(i) # {}
    PROVE  MadeOK'
<1>1. made' \subseteq LoanIds /\ \A l \in made' : Exists(l)'
  BY DEF MadeOK, RowsKept, Exists
<1>2. ASSUME NEW i \in Seeds, Matches(i)' # {} PROVE MadeOnce(i)'
  <2>1. Matches(i) # {}
    BY <1>2 DEF Matches
  <2>2. PICK l \in LoanIds : Matches(i) \cap made = {l}
    BY <2>1 DEF MadeOK, MadeOnce
  <2>3. /\ Matches(i) \subseteq Matches(i)'
        /\ \A k \in Matches(i)' \ Matches(i) : k \notin made
    BY MatchesGrow DEF MadeOK
  <2>4. Matches(i)' \cap made = {l}
    BY <2>2, <2>3
  <2>5. QED
    BY <2>4 DEF MadeOnce
<1>3. QED
  BY <1>1, <1>2 DEF MadeOK

\* The only match of an index is the script's own row.
LEMMA OnlyMatchIsMade ==
    ASSUME MadeOK, NEW i \in Seeds, NEW l, Matches(i) = {l}
    PROVE  l \in made
BY DEF MadeOK, MadeOnce

\* The script has made at most one row for each index.
MadeAtMostOne == \A i \in Seeds : Cardinality(Matches(i) \cap made) <= 1

LEMMA MadeOnceAtMost == MadeOK => MadeAtMostOne
<1> SUFFICES ASSUME MadeOK, NEW i \in Seeds PROVE Cardinality(Matches(i) \cap made) <= 1
  BY DEF MadeAtMostOne
<1>1. Cardinality({}) = 0
  BY FS_EmptySet
<1>2. CASE Matches(i) = {}
  <2>1. Matches(i) \cap made = {}
    BY <1>2
  <2>2. Cardinality(Matches(i) \cap made) = 0
    BY <1>1, <2>1, Zenon
  <2>3. QED
    BY <2>2
<1>3. CASE Matches(i) # {}
  <2>1. PICK l \in LoanIds : Matches(i) \cap made = {l}
    BY <1>3 DEF MadeOK, MadeOnce
  <2>2. Cardinality(Matches(i) \cap made) = Cardinality({l})
    BY <2>1, Zenon
  <2>3. Cardinality({l}) = 1
    BY FS_Singleton
  <2>4. QED
    BY <2>2, <2>3
<1>4. QED
  BY <1>2, <1>3

-----------------------------------------------------------------------------
\* Typing and idle threads over a statement of the script that writes rows only.
LEMMA ScriptKeepsLocks ==
    ASSUME LockInv, \A w \in Workers : pc[w] = "idle", loans' \in Table, CountersOK',
           UNCHANGED <<lockedBy, auditLog, handler, answers>>
    PROVE  LockInv' /\ \A w \in Workers : pc'[w] = "idle"
<1>1. UNCHANGED <<pc, req, local, code, known>>
  BY DEF handler
<1>2. TypeOK'
  BY <1>1 DEF LockInv, TypeOK, TablesOK, HandlersOK, AnswersOK
<1>3. QED
  BY <1>1, <1>2 DEF LockInv, HandlerShape, LockHolders

\* What a step of update_or_create does to the tables.
LEMMA UpsertFacts ==
    ASSUME DeployInv, NEW i \in Seeds, Upsert(i)
    PROVE  /\ LockInv' /\ RowsKept
           /\ \A w \in Workers : pc'[w] = "idle"
           /\ \E l \in LoanIds :
                 /\ Matches(i) = {} \/ Matches(i) = {l}
                 /\ Matches(i)' = {l}
                 /\ \A k \in LoanIds : k # l => loans'[k] = loans[k]
                 /\ ~Exists(l) \/ Matches(i) = {l}
                 /\ loans'[l] = Pending(SeedClient(i), i)
                 /\ allLoans' = [allLoans EXCEPT ![i] = l]
                 /\ made' = IF Matches(i) = {} THEN made \cup {l} ELSE made
<1> USE DEF DeployInv
<1>1. PICK l \in LoanIds :
         /\ IF Matches(i) = {}
            THEN ~Exists(l)
            ELSE Matches(i) = {l}
         /\ loans' = [loans EXCEPT ![l] = Pending(SeedClient(i), i)]
         /\ allLoans' = [allLoans EXCEPT ![i] = l]
         /\ made' = IF Matches(i) = {} THEN made \cup {l} ELSE made
  BY DEF Upsert
<1>2. SeedClient(i) \in Users /\ i \in Purposes
  BY SeededUsers, SeedsArePurposes DEF SeedClient, Users
<1>3. Pending(SeedClient(i), i) \in Row
  BY <1>2, RowShapes
<1>4. loans \in Table
  BY DEF LockInv, TypeOK, TablesOK
<1>5. loans' \in Table
  BY <1>1, <1>3, <1>4 DEF Table
<1>6. LockInv' /\ \A w \in Workers : pc'[w] = "idle"
  <2>1. UNCHANGED <<lockedBy, auditLog, handler, answers, counters>> /\ phase = "upsert"
    BY DEF Upsert
  <2>2. CountersOK'
    BY <2>1 DEF LockInv, TypeOK, CountersOK, counters
  <2>3. QED
    BY <1>5, <2>1, <2>2, ScriptKeepsLocks DEF ScriptOK
<1>7. \A k \in LoanIds : loans'[k] = IF k = l THEN Pending(SeedClient(i), i) ELSE loans[k]
  BY <1>1, <1>4 DEF Table
<1>8. /\ Pending(SeedClient(i), i).client = SeedClient(i)
      /\ Pending(SeedClient(i), i).purpose = i
      /\ Pending(SeedClient(i), i) # NoRow
  BY DEF Pending, NoRow
<1>9. RowsKept
  <2>1. Matches(i) # {} => /\ loans[l].client = SeedClient(i) /\ loans[l].purpose = i
    BY <1>1 DEF Matches
  <2>2. ASSUME NEW k \in LoanIds, k # l
        PROVE  loans'[k] = loans[k]
    BY <1>7, <2>2
  <2>3. /\ loans'[l] # NoRow /\ loans'[l].client = SeedClient(i) /\ loans'[l].purpose = i
    BY <1>7, <1>8
  <2>4. Exists(l) => /\ loans'[l].client = loans[l].client
                     /\ loans'[l].purpose = loans[l].purpose
    BY <1>1, <2>1, <2>3
  <2>5. QED
    BY <2>2, <2>3, <2>4 DEF RowsKept, Exists
<1>10. Matches(i)' = {l}
  BY <1>1, <1>7, <1>8 DEF Matches
<1>11. QED
  BY <1>1, <1>6, <1>7, <1>9, <1>10

\* What the second loop does to the tables.
LEMMA DecideFacts ==
    ASSUME DeployInv, NEW i \in Seeds, SeedDecide(i)
    PROVE  /\ LockInv' /\ RowsKept
           /\ \A w \in Workers : pc'[w] = "idle"
           /\ \A k \in LoanIds : k # allLoans[i] => loans'[k] = loans[k]
           /\ Holds(i, "PENDING", NoUser)
           /\ loans'[allLoans[i]].status = SeedStatus(i)
           /\ loans'[allLoans[i]].manager = IF SeedStatus(i) = "PENDING" THEN NoUser ELSE Carol
<1> USE DEF DeployInv
<1> DEFINE l == allLoans[i]
           row == [loans[l] EXCEPT !.status = SeedStatus(i), !.manager = Carol]
           written == IF SeedStatus(i) = "PENDING" THEN loans[l] ELSE row
<1>1. Holds(i, "PENDING", NoUser)
  BY DEF SeedDecide, IsNext, ScriptOK
<1>2. l \in LoanIds /\ Exists(l)
  BY <1>1, MatchFacts DEF Holds, Found, LockInv
<1>3. loans \in Table
  BY DEF LockInv, TypeOK, TablesOK
<1>4. loans[l] \in Row \ {NoRow} /\ loans[l].status = "PENDING" /\ loans[l].manager = NoUser
  BY <1>1, <1>2, <1>3 DEF Table, Exists, Holds
<1>5. SeedStatus(i) \in Decisions \cup {"PENDING"} /\ Carol \in Users
  BY SeededUsers DEF SeedStatus, Decisions, Users
<1>6. /\ row \in Row /\ row.client = loans[l].client /\ row.purpose = loans[l].purpose
      /\ row.status = SeedStatus(i) /\ row.manager = Carol
  BY <1>4, <1>5 DEF Row
<1>7. row # NoRow
  BY <1>4, <1>6, RowClient
<1>8. loans' = [loans EXCEPT ![l] = written]
  <2>1. CASE SeedStatus(i) = "PENDING"
    BY <2>1, <1>2, <1>3 DEF SeedDecide, Table
  <2>2. CASE SeedStatus(i) # "PENDING"
    BY <2>2 DEF SeedDecide
  <2>3. QED
    BY <2>1, <2>2
<1>9. /\ written \in Row /\ written # NoRow
      /\ written.client = loans[l].client /\ written.purpose = loans[l].purpose
      /\ written.status = SeedStatus(i)
      /\ written.manager = IF SeedStatus(i) = "PENDING" THEN NoUser ELSE Carol
  BY <1>4, <1>6, <1>7
<1> HIDE DEF row, written
<1>10. \A k \in LoanIds : loans'[k] = IF k = l THEN written ELSE loans[k]
  BY <1>3, <1>8 DEF Table
<1>11. loans' \in Table
  BY <1>3, <1>8, <1>9 DEF Table
<1>12. RowsKept
  BY <1>2, <1>9, <1>10 DEF RowsKept, Exists
<1>13. LockInv' /\ \A w \in Workers : pc'[w] = "idle"
  <2>1. UNCHANGED <<lockedBy, auditLog, handler, answers, counters>> /\ phase = "decide"
    BY DEF SeedDecide
  <2>2. CountersOK'
    BY <2>1 DEF LockInv, TypeOK, CountersOK, counters
  <2>3. QED
    BY <1>11, <2>1, <2>2, ScriptKeepsLocks DEF ScriptOK
<1>14. QED
  BY <1>1, <1>2, <1>9, <1>10, <1>12, <1>13

-----------------------------------------------------------------------------
\* The row of another index is not touched by a write to row l.
LEMMA HoldsStays ==
    ASSUME TypeOK, NEW j \in Seeds, NEW s, NEW m, Holds(j, s, m), NEW l \in LoanIds,
           l # allLoans[j], loans'[l].purpose # j, allLoans'[j] = allLoans[j],
           \A k \in LoanIds : k # l => loans'[k] = loans[k]
    PROVE  Holds(j, s, m)'
<1>1. allLoans[j] \in LoanIds /\ Matches(j) = {allLoans[j]}
  BY DEF Holds, Found
<1>2. l \notin Matches(j)' /\ \A k \in LoanIds : k # l => (k \in Matches(j) <=> k \in Matches(j)')
  BY DEF Matches
<1>3. Matches(j)' \subseteq LoanIds /\ Matches(j) \subseteq LoanIds
  BY DEF Matches
<1>4. Matches(j)' = {allLoans[j]}
  BY <1>1, <1>2, <1>3
<1>5. QED
  BY <1>1, <1>4 DEF Holds, Found

\* The audit rows of the seed stay about seeded rows.
LEMMA ReviewsStay ==
    ASSUME DeployInv, RowsKept, UNCHANGED reviews, made \subseteq made'
    PROVE  SeedReviewedOnce'
<1> USE DEF DeployInv
<1> SUFFICES ASSUME NEW l \in LoanIds, reviews[l] # <<>>
             PROVE  \E i \in Seeds : /\ l \in Matches(i)' \cap made' /\ i < Reviewed
                                     /\ reviews[l] = <<SeedStatus(i)>>
  BY DEF SeedReviewedOnce
<1>1. PICK i \in Seeds : /\ l \in Matches(i) \cap made /\ i < Reviewed
                         /\ reviews[l] = <<SeedStatus(i)>>
  BY DEF SeedReviewedOnce
<1>2. l \in Matches(i)'
  BY <1>1, MatchesGrow DEF LockInv
<1>3. QED
  BY <1>1, <1>2

\* update_or_create preserves the invariant.
LEMMA UpsertStep ==
    ASSUME DeployInv, NEW i \in Seeds, Upsert(i) PROVE DeployInv'
<1> USE DEF DeployInv
<1>1. PICK l \in LoanIds :
         /\ Matches(i) = {} \/ Matches(i) = {l}
         /\ Matches(i)' = {l}
         /\ \A k \in LoanIds : k # l => loans'[k] = loans[k]
         /\ ~Exists(l) \/ Matches(i) = {l}
         /\ loans'[l] = Pending(SeedClient(i), i)
         /\ allLoans' = [allLoans EXCEPT ![i] = l]
         /\ made' = IF Matches(i) = {} THEN made \cup {l} ELSE made
  BY UpsertFacts
<1>2. LockInv' /\ RowsKept /\ \A w \in Workers : pc'[w] = "idle"
  BY UpsertFacts
<1>3. TypeOK /\ TypeOK'
  BY <1>2 DEF LockInv
<1>4. Holds(i, "PENDING", NoUser)'
  BY <1>1 DEF Holds, Found, Pending, SeedTyped
<1>5. ASSUME NEW j \in Seeds \ todo PROVE Holds(j, "PENDING", NoUser)'
  <2>1. Holds(j, "PENDING", NoUser) /\ j # i
    BY DEF ScriptOK, Upsert, IsNext
  <2>2. allLoans[j] \in Matches(j)
    BY <2>1 DEF Holds, Found
  <2>3. l # allLoans[j]
    BY <1>1, <1>3, <2>1, <2>2, MatchFacts
  <2>4. loans'[l].purpose # j
    BY <1>1, <2>1 DEF Pending
  <2>5. allLoans'[j] = allLoans[j]
    BY <1>1, <2>1 DEF SeedTyped
  <2>6. QED
    BY <1>1, <1>3, <2>1, <2>3, <2>4, <2>5, HoldsStays
<1>6. /\ phase = "upsert" /\ i \in todo /\ UNCHANGED reviews
      /\ IF todo = {i} THEN phase' = "decide" /\ todo' = Seeds
                       ELSE todo' = todo \ {i} /\ UNCHANGED phase
  BY DEF Upsert, Advance, IsNext
<1>7. SeedTyped'
  BY <1>1, <1>6 DEF SeedTyped, Phases
<1>8. ScriptOK'
  <2>1. \A j \in Seeds : (j \notin todo \/ j = i) => Holds(j, "PENDING", NoUser)'
    BY <1>4, <1>5
  <2>2. CASE todo = {i}
    <3>1. \A j \in Seeds : Holds(j, "PENDING", NoUser)' /\ j \in todo'
      BY <1>6, <2>1, <2>2
    <3>2. phase' = "decide"
      BY <1>6, <2>2
    <3>3. QED
      BY <1>2, <3>1, <3>2 DEF ScriptOK
  <2>3. CASE todo # {i}
    <3>1. \A j \in Seeds \ todo' : Holds(j, "PENDING", NoUser)'
      BY <1>6, <2>1, <2>3
    <3>2. phase' = "upsert"
      BY <1>6, <2>3
    <3>3. QED
      BY <1>2, <3>1, <3>2 DEF ScriptOK
  <2>4. QED
    BY <2>2, <2>3
<1>9. MadeOK'
  <2>1. \A j \in Seeds : j # i => Matches(j)' = Matches(j) /\ l \notin Matches(j)
    <3> SUFFICES ASSUME NEW j \in Seeds, j # i
                 PROVE  Matches(j)' = Matches(j) /\ l \notin Matches(j)
      OBVIOUS
    <3>1. l \notin Matches(j)
      BY <1>1, <1>3, MatchFacts
    <3>2. loans'[l].purpose # j
      BY <1>1 DEF Pending
    <3>3. l \notin Matches(j)' /\ \A k \in LoanIds : k # l => (k \in Matches(j)' <=> k \in Matches(j))
      BY <1>1, <3>2 DEF Matches
    <3>4. Matches(j)' \subseteq LoanIds /\ Matches(j) \subseteq LoanIds
      BY DEF Matches
    <3>5. QED
      BY <3>1, <3>3, <3>4
  <2>2. made' \subseteq made \cup {l}
    BY <1>1
  <2>3. \A j \in Seeds : j # i => (Matches(j)' # {} => MadeOnce(j)')
    <3> SUFFICES ASSUME NEW j \in Seeds, j # i, Matches(j)' # {} PROVE MadeOnce(j)'
      OBVIOUS
    <3>1. PICK m \in LoanIds : Matches(j) \cap made = {m}
      BY <2>1 DEF MadeOK, MadeOnce
    <3>2. Matches(j)' \cap made' = {m}
      BY <1>1, <2>1, <2>2, <3>1
    <3>3. QED
      BY <3>2 DEF MadeOnce
  <2>4. l \in made'
    BY <1>1, OnlyMatchIsMade
  <2>5. Matches(i)' \cap made' = {l}
    BY <1>1, <2>4
  <2>6. MadeOnce(i)'
    BY <2>5 DEF MadeOnce
  <2>7. made' \subseteq LoanIds /\ \A k \in made' : Exists(k)'
    <3>1. loans'[l] # NoRow
      BY <1>1 DEF Pending, NoRow
    <3>2. QED
      BY <1>2, <2>2, <3>1 DEF MadeOK, RowsKept, Exists
  <2>8. QED
    BY <2>3, <2>6, <2>7 DEF MadeOK
<1>10. SeedReviewedOnce'
  BY <1>1, <1>2, <1>6, ReviewsStay
<1>11. FailsOnlyOnDuplicate'
  <2>1. MadeAtMostOne'
    BY <1>9, MadeOnceAtMost, PTL
  <2>2. QED
    BY <1>6, <2>1 DEF FailsOnlyOnDuplicate, MadeAtMostOne
<1>12. QED
  BY <1>2, <1>7, <1>8, <1>9, <1>10, <1>11

\* Two matches: the script made one of them only.
LEMMA AmbiguousStep ==
    ASSUME DeployInv, NEW i \in Seeds, UpsertAmbiguous(i) PROVE DeployInv'
<1> USE DEF DeployInv
<1>1. /\ phase = "upsert" /\ Cardinality(Matches(i)) > 1 /\ phase' = "failed"
      /\ UNCHANGED <<todo, allLoans, reviews, made, vars>>
  BY DEF UpsertAmbiguous
<1>2. \A x : Matches(i) # {x}
  <2>1. Cardinality(Matches(i)) > 1
    BY <1>1
  <2>2. ASSUME NEW x, Matches(i) = {x} PROVE FALSE
    <3>1. Cardinality(Matches(i)) = Cardinality({x})
      BY <2>2, Zenon
    <3>2. Cardinality({x}) = 1
      BY FS_Singleton
    <3>3. QED
      BY <2>1, <3>1, <3>2
  <2>3. QED
    BY <2>2
<1>3. Matches(i) # {}
  <2>1. Cardinality(Matches(i)) > 1 /\ Cardinality({}) = 0
    BY <1>1, FS_EmptySet
  <2>2. QED
    BY <2>1
<1>4. PICK d \in Matches(i) : d \notin made
  <2>1. PICK l \in LoanIds : Matches(i) \cap made = {l}
    BY <1>3 DEF MadeOK, MadeOnce
  <2>2. QED
    BY <1>2, <2>1
<1>5. /\ loans' = loans /\ pc' = pc /\ todo' = todo /\ allLoans' = allLoans /\ reviews' = reviews
      /\ made' = made /\ UNCHANGED vars
  BY <1>1 DEF vars
<1>6. LockInv'
  BY <1>5, TypeStep, ShapeStep, LockStep DEF LockInv
<1>7. SeedTyped'
  BY <1>1 DEF SeedTyped, Phases
<1>8. ScriptOK'
  BY <1>1 DEF ScriptOK
<1>9. TypeOK /\ RowsKept
  BY <1>5, ServerKeepsRows DEF LockInv
<1>10. MadeOK'
  BY <1>5, <1>9, MadeStays
<1>11. SeedReviewedOnce'
  BY <1>5, <1>9, ReviewsStay
<1>12. FailsOnlyOnDuplicate'
  BY <1>4, <1>5 DEF FailsOnlyOnDuplicate, Matches
<1>13. QED
  BY <1>6, <1>7, <1>8, <1>10, <1>11, <1>12

\* The second loop preserves the invariant.
LEMMA DecideStep ==
    ASSUME DeployInv, NEW i \in Seeds, SeedDecide(i) PROVE DeployInv'
<1> USE DEF DeployInv
<1> DEFINE l == allLoans[i]
<1>1. /\ LockInv' /\ RowsKept /\ Holds(i, "PENDING", NoUser)
      /\ \A w \in Workers : pc'[w] = "idle"
      /\ \A k \in LoanIds : k # l => loans'[k] = loans[k]
      /\ loans'[l].status = SeedStatus(i)
      /\ loans'[l].manager = IF SeedStatus(i) = "PENDING" THEN NoUser ELSE Carol
  BY DecideFacts
<1>2. TypeOK /\ TypeOK' /\ l \in LoanIds /\ l \in Matches(i)
  BY <1>1 DEF LockInv, Holds, Found
<1>3. loans'[l].client = loans[l].client /\ loans'[l].purpose = loans[l].purpose /\ loans[l].purpose = i
  BY <1>1, <1>2, MatchFacts DEF RowsKept, Matches
<1>4. /\ phase = "decide" /\ i \in todo /\ UNCHANGED <<allLoans, reviews, made>>
      /\ IF todo = {i} THEN phase' = "review" /\ todo' = Seeds
                       ELSE todo' = todo \ {i} /\ UNCHANGED phase
  BY DEF SeedDecide, Advance, IsNext
<1>5. Decided(i)'
  <2>1. Matches(i)' = {l}
    <3>1. \A k \in LoanIds : k \in Matches(i)' <=> k \in Matches(i)
      BY <1>1, <1>2, <1>3 DEF Matches
    <3>2. Matches(i)' \subseteq LoanIds /\ Matches(i) \subseteq LoanIds /\ Matches(i) = {l}
      BY <1>1 DEF Matches, Holds, Found
    <3>3. QED
      BY <3>1, <3>2
  <2>2. QED
    BY <1>1, <1>2, <1>4, <2>1 DEF Decided, Holds, Found
<1>6. ASSUME NEW j \in Seeds, j # i, NEW s, NEW m, Holds(j, s, m) PROVE Holds(j, s, m)'
  <2>1. allLoans[j] \in Matches(j)
    BY <1>6 DEF Holds, Found
  <2>2. l # allLoans[j]
    BY <1>2, <1>6, <2>1, MatchFacts
  <2>3. QED
    BY <1>1, <1>2, <1>3, <1>4, <1>6, <2>2, HoldsStays
<1>7. \A j \in Seeds : j # i => IF j \in todo THEN Holds(j, "PENDING", NoUser)' ELSE Decided(j)'
  <2>1. \A j \in Seeds : IF j \in todo THEN Holds(j, "PENDING", NoUser) ELSE Decided(j)
    BY <1>4 DEF ScriptOK
  <2>2. QED
    BY <1>6, <2>1 DEF Decided
<1>8. SeedTyped'
  BY <1>4 DEF SeedTyped, Phases
<1>9. ScriptOK'
  <2>1. CASE todo = {i}
    <3>1. \A j \in Seeds : Decided(j)'
      BY <1>5, <1>7, <2>1
    <3>2. QED
      BY <1>1, <1>4, <2>1, <3>1 DEF ScriptOK
  <2>2. CASE todo # {i}
    <3>1. \A j \in Seeds : IF j \in todo' THEN Holds(j, "PENDING", NoUser)' ELSE Decided(j)'
      BY <1>4, <1>5, <1>7, <2>2
    <3>2. QED
      BY <1>1, <1>4, <2>2, <3>1 DEF ScriptOK
  <2>3. QED
    BY <2>1, <2>2
<1>10. MadeOK'
  <2>1. \A j \in Seeds : Matches(j) # {}
    BY <1>4 DEF ScriptOK, Decided, Holds, Found
  <2>2. QED
    BY <1>1, <1>2, <1>4, <2>1, MadeStays
<1>11. SeedReviewedOnce'
  BY <1>1, <1>4, ReviewsStay
<1>12. FailsOnlyOnDuplicate'
  <2>1. MadeAtMostOne'
    BY <1>10, MadeOnceAtMost, PTL
  <2>2. QED
    BY <1>4, <2>1 DEF FailsOnlyOnDuplicate, MadeAtMostOne
<1>13. QED
  BY <1>1, <1>8, <1>9, <1>10, <1>11, <1>12

\* A statement of the third loop: one audit row, or none.
LEMMA ReviewStep ==
    ASSUME DeployInv, NEW i \in Seeds, SeedReview(i) \/ SeedReviewFails(i) PROVE DeployInv'
<1> USE DEF DeployInv
<1>1. /\ phase = "review" /\ i \in todo /\ UNCHANGED <<allLoans, made, loans, lockedBy, auditLog,
                                                        pc, req, local, code, known, answers>>
      /\ IF todo = {i} THEN phase' = "serving" /\ todo' = Seeds
                       ELSE todo' = todo \ {i} /\ UNCHANGED phase
  BY DEF SeedReview, SeedReviewFails, Advance, IsNext, vars, handler
<1>2. LockInv' /\ \A w \in Workers : pc'[w] = "idle"
  <2>1. CountersOK'
    BY BoundsAreNat DEF LockInv, TypeOK, CountersOK, SeedReview, SeedReviewFails, vars
  <2>2. loans' \in Table
    BY <1>1 DEF LockInv, TypeOK, TablesOK
  <2>3. QED
    BY <1>1, <2>1, <2>2, ScriptKeepsLocks DEF ScriptOK, handler
<1>3. RowsKept /\ TypeOK /\ TypeOK'
  BY <1>1, <1>2 DEF RowsKept, Exists, LockInv
<1>4. \A j \in Seeds : Matches(j)' = Matches(j)
  BY <1>1 DEF Matches
<1>5. made' = made
  BY <1>1
<1>6. /\ allLoans[i] \in LoanIds /\ Matches(i) = {allLoans[i]} /\ allLoans[i] \in made
  BY <1>1, OnlyMatchIsMade DEF ScriptOK, Decided, Holds, Found
<1>7. \A l \in LoanIds :
         \/ reviews'[l] = reviews[l]
         \/ l = allLoans[i] /\ i < Reviewed /\ reviews'[l] = <<SeedStatus(i)>>
  <2>1. CASE SeedReviewFails(i)
    BY <2>1 DEF SeedReviewFails
  <2>2. CASE SeedReview(i) /\ ~(i < Reviewed /\ reviews[allLoans[i]] = <<>>)
    BY <2>2 DEF SeedReview
  <2>3. CASE SeedReview(i) /\ i < Reviewed /\ reviews[allLoans[i]] = <<>>
    <3>1. reviews' = [reviews EXCEPT ![allLoans[i]] = Append(@, SeedStatus(i))]
      BY <2>3 DEF SeedReview
    <3>2. Append(<<>>, SeedStatus(i)) = <<SeedStatus(i)>>
      OBVIOUS
    <3>3. QED
      BY <1>6, <2>3, <3>1, <3>2 DEF SeedTyped
  <2>4. QED
    BY <2>1, <2>2, <2>3
<1>8. SeedReviewedOnce'
  <2> SUFFICES ASSUME NEW l \in LoanIds, reviews'[l] # <<>>
               PROVE  \E j \in Seeds : /\ l \in Matches(j)' \cap made' /\ j < Reviewed
                                       /\ reviews'[l] = <<SeedStatus(j)>>
    BY DEF SeedReviewedOnce
  <2>1. CASE reviews'[l] = reviews[l]
    <3>1. PICK j \in Seeds : /\ l \in Matches(j) \cap made /\ j < Reviewed
                             /\ reviews[l] = <<SeedStatus(j)>>
      BY <2>1 DEF SeedReviewedOnce
    <3>2. QED
      BY <1>4, <1>5, <2>1, <3>1
  <2>2. CASE l = allLoans[i] /\ i < Reviewed /\ reviews'[l] = <<SeedStatus(i)>>
    BY <1>4, <1>5, <1>6, <2>2
  <2>3. QED
    BY <1>7, <2>1, <2>2
<1>9. SeedTyped'
  <2>1. reviews' \in [LoanIds -> Seq({"APPROVED", "REJECTED", "PENDING"})]
    <3>1. SeedStatus(i) \in {"APPROVED", "REJECTED", "PENDING"}
      BY DEF SeedStatus
    <3>2. \A s \in Seq({"APPROVED", "REJECTED", "PENDING"}) :
             Append(s, SeedStatus(i)) \in Seq({"APPROVED", "REJECTED", "PENDING"})
      BY <3>1
    <3>3. QED
      BY <1>6, <3>2 DEF SeedTyped, SeedReview, SeedReviewFails
  <2>2. QED
    BY <1>1, <2>1 DEF SeedTyped, Phases
<1>10. MadeOK'
  BY <1>1, <1>3, MadeStays
<1>11. ScriptOK'
  <2>1. \A j \in Seeds : Decided(j)'
    BY <1>1, <1>4 DEF ScriptOK, Decided, Holds, Found
  <2>2. QED
    BY <1>1, <1>2, <2>1 DEF ScriptOK, Decided, Holds, Found
<1>12. FailsOnlyOnDuplicate'
  <2>1. \A j \in Seeds : Cardinality(Matches(j)' \cap made') <= 1
    BY <1>4, <1>5 DEF FailsOnlyOnDuplicate
  <2>2. QED
    BY <1>1, <2>1 DEF FailsOnlyOnDuplicate
<1>13. QED
  BY <1>2, <1>8, <1>9, <1>10, <1>11, <1>12

\* The server's steps keep what the script left, and so does a restart.
LEMMA ServerStep ==
    ASSUME DeployInv, [Next]_vars, UNCHANGED <<reviews, made>>,
           loans' = loans \/ phase = "serving"
    PROVE  LockInv' /\ RowsKept /\ MadeOK' /\ MadeAtMostOne' /\ SeedReviewedOnce'
<1> USE DEF DeployInv
<1>1. LockInv' /\ RowsKept
  BY TypeStep, ShapeStep, LockStep, ServerKeepsRows DEF LockInv
<1>2. MadeOK'
  BY <1>1, MadeStays DEF LockInv, ScriptOK
<1>3. SeedReviewedOnce'
  BY <1>1, ReviewsStay
<1>4. MadeAtMostOne'
  BY <1>2, MadeOnceAtMost, PTL
<1>5. QED
  BY <1>1, <1>2, <1>3, <1>4

\* The invariant holds before the first start of the container.
LEMMA DeployInitInv == DeployInit => DeployInv
<1> SUFFICES ASSUME DeployInit PROVE DeployInv
  OBVIOUS
<1>1. LockInv
  BY InitInv DEF DeployInit
<1>2. \A S : <<>> \in Seq(S)
  OBVIOUS
<1>3. SeedTyped
  BY <1>2 DEF DeployInit, SeedTyped, Phases
<1>4. ScriptOK
  BY DEF DeployInit, Init, ScriptOK
<1>5. MadeOK
  <2>1. made = {} /\ \A l \in LoanIds : ~Exists(l)
    BY DEF DeployInit, Init, Exists, NoRows
  <2>2. \A i \in Seeds : Matches(i) = {}
    BY <1>1, <2>1, MatchFacts DEF LockInv
  <2>3. QED
    BY <2>1, <2>2 DEF MadeOK
<1>6. SeedReviewedOnce /\ FailsOnlyOnDuplicate
  BY <1>5, MadeOnceAtMost DEF DeployInit, SeedReviewedOnce, FailsOnlyOnDuplicate, MadeAtMostOne
<1>7. QED
  BY <1>1, <1>3, <1>4, <1>5, <1>6 DEF DeployInv

\* Every step of the deployment preserves the invariant.
LEMMA DeployStep == DeployInv /\ [DeployNext]_<<vars, seedVars>> => DeployInv'
<1> SUFFICES ASSUME DeployInv, [DeployNext]_<<vars, seedVars>> PROVE DeployInv'
  OBVIOUS
<1>1. CASE \E i \in Seeds : Upsert(i) \/ UpsertAmbiguous(i) \/ SeedDecide(i)
                            \/ SeedReview(i) \/ SeedReviewFails(i)
  BY <1>1, UpsertStep, AmbiguousStep, DecideStep, ReviewStep
<1>2. CASE ServeRequests
  <2>1. phase = "serving" /\ Next /\ UNCHANGED <<phase, todo, allLoans, reviews, made>>
    BY <1>2 DEF ServeRequests, Next, seedVars
  <2>2. LockInv' /\ RowsKept /\ MadeOK' /\ MadeAtMostOne' /\ SeedReviewedOnce'
    BY <2>1, ServerStep
  <2>3. \A i \in Seeds : Matches(i)' # {}
    BY <2>1, <2>2, MatchesGrow DEF DeployInv, LockInv, ScriptOK
  <2>4. SeedTyped' /\ ScriptOK' /\ FailsOnlyOnDuplicate'
    BY <2>1, <2>2, <2>3 DEF DeployInv, SeedTyped, ScriptOK, FailsOnlyOnDuplicate, MadeAtMostOne
  <2>5. QED
    BY <2>2, <2>4 DEF DeployInv
<1>3. CASE Restart
  <2>1. /\ Crash /\ Next /\ UNCHANGED <<reviews, made>> /\ loans' = loans /\ phase' = "upsert" /\ todo' = Seeds
        /\ allLoans' = [i \in Seeds |-> NoLoan]
    BY <1>3 DEF Restart, Next, Crash
  <2>2. LockInv' /\ MadeOK' /\ MadeAtMostOne' /\ SeedReviewedOnce'
    BY <2>1, ServerStep
  <2>3. SeedTyped' /\ ScriptOK' /\ FailsOnlyOnDuplicate'
    BY <2>1, <2>2 DEF DeployInv, SeedTyped, ScriptOK, FailsOnlyOnDuplicate, MadeAtMostOne, Phases,
       Crash
  <2>4. QED
    BY <2>2, <2>3 DEF DeployInv
<1>4. CASE Waiting \/ UNCHANGED <<vars, seedVars>>
  <2>1. UNCHANGED <<vars, phase, todo, allLoans, reviews, made>>
    BY <1>4 DEF Waiting, Quiescent, seedVars
  <2>2. /\ loans' = loans /\ pc' = pc /\ phase' = phase /\ todo' = todo
        /\ allLoans' = allLoans /\ reviews' = reviews /\ made' = made
    BY <2>1 DEF vars
  <2>3. LockInv' /\ MadeOK' /\ SeedReviewedOnce'
    BY <2>1, <2>2, ServerStep
  <2>4. SeedTyped'
    BY <2>2 DEF DeployInv, SeedTyped
  <2>5. ScriptOK'
    BY <2>2 DEF DeployInv, ScriptOK, Decided, Holds, Found, Matches
  <2>6. FailsOnlyOnDuplicate'
    BY <2>2 DEF DeployInv, FailsOnlyOnDuplicate, Matches
  <2>7. QED
    BY <2>3, <2>4, <2>5, <2>6 DEF DeployInv
<1>5. QED
  BY <1>1, <1>2, <1>3, <1>4 DEF DeployNext

\* In every reachable state of the deployment.
LEMMA DeployInvariant == DeploySpec => []DeployInv
BY DeployInitInv, DeployStep, PTL DEF DeploySpec

-----------------------------------------------------------------------------
\* Every table, lock, handler and variable of the script is well typed, over any
\* number of restarts in the middle of requests and of the script.
THEOREM DeploymentTyped == DeploySpec => [](TypeOK /\ SeedTyped)
<1>1. DeployInv => TypeOK /\ SeedTyped
  BY DEF DeployInv, LockInv
<1>2. QED
  BY <1>1, DeployInvariant, PTL

\* An application has at most one audit row of the seed, with the seed's status.
THEOREM SeedAuditedOnce == DeploySpec => []SeedReviewedOnce
<1>1. DeployInv => SeedReviewedOnce
  BY DEF DeployInv
<1>2. QED
  BY <1>1, DeployInvariant, PTL

\* However often it is cut short and run again, the script makes one row for an
\* index at most, and fails only over a copy that a client submitted.
THEOREM DuplicateStopsStart == DeploySpec => []FailsOnlyOnDuplicate
<1>1. DeployInv => FailsOnlyOnDuplicate
  BY DEF DeployInv
<1>2. QED
  BY <1>1, DeployInvariant, PTL

\* Only the last statement of the third loop starts the server.
LEMMA CompleteStep == DeployInv /\ [DeployNext]_<<vars, seedVars>> => [SeedComplete]_<<vars, seedVars>>
<1> SUFFICES ASSUME DeployInv, DeployNext, phase # "serving", phase' = "serving"
             PROVE  \A i \in Seeds : \E l \in LoanIds :
                        /\ Matches(i)' = {l}
                        /\ loans'[l].status = SeedStatus(i)
                        /\ loans'[l].manager = IF SeedStatus(i) = "PENDING" THEN NoUser ELSE Carol
  BY DEF SeedComplete
<1>1. PICK j \in Seeds : SeedReview(j) \/ SeedReviewFails(j)
  BY DEF DeployNext, Upsert, UpsertAmbiguous, SeedDecide, Advance, ServeRequests, Restart,
         Waiting, seedVars
<1>2. phase = "review" /\ loans' = loans
  BY <1>1 DEF SeedReview, SeedReviewFails, vars
<1>3. \A i \in Seeds : Decided(i) /\ Matches(i)' = Matches(i)
  BY <1>2 DEF DeployInv, ScriptOK, Matches
<1>4. QED
  BY <1>2, <1>3 DEF Decided, Holds, Found

\* Whenever the server starts, each seeded application is one row with its status.
THEOREM ServerStartsFromSeed == DeploySpec => StartsFromSeed
BY DeployInvariant, CompleteStep, PTL DEF DeploySpec, StartsFromSeed

\* The script writes the rows of its indexes only; the server keeps decided rows.
LEMMA SubmittedStep ==
    DeployInv /\ [DeployNext]_<<vars, seedVars>> => [SubmittedRowKept]_<<vars, seedVars>>
<1> SUFFICES ASSUME DeployInv, DeployNext,
                    NEW l \in LoanIds, loans[l].status \in Decisions, l \notin made
             PROVE  loans'[l] = loans[l]
  BY DEF SubmittedRowKept
<1> USE DEF DeployInv
<1>1. ASSUME NEW i \in Seeds, Upsert(i) PROVE loans'[l] = loans[l]
  <2>1. PICK k \in LoanIds :
           /\ ~Exists(k) \/ Matches(i) = {k}
           /\ \A j \in LoanIds : j # k => loans'[j] = loans[j]
    BY <1>1, UpsertFacts
  <2>2. l # k
    BY <2>1, OnlyMatchIsMade, StatusExists DEF LockInv
  <2>3. QED
    BY <2>1, <2>2
<1>2. ASSUME NEW i \in Seeds, SeedDecide(i) PROVE loans'[l] = loans[l]
  <2>1. Holds(i, "PENDING", NoUser) /\ \A k \in LoanIds : k # allLoans[i] => loans'[k] = loans[k]
    BY <1>2, DecideFacts
  <2>2. allLoans[i] \in made
    BY <2>1, OnlyMatchIsMade DEF Holds, Found
  <2>3. QED
    BY <2>1, <2>2
<1>3. ASSUME NEW i \in Seeds, UpsertAmbiguous(i) \/ SeedReview(i) \/ SeedReviewFails(i)
      PROVE  loans'[l] = loans[l]
  BY <1>3 DEF UpsertAmbiguous, SeedReview, SeedReviewFails, vars
<1>4. CASE ServeRequests \/ Restart \/ Waiting
  <2>1. Next
    BY <1>4 DEF ServeRequests, Restart, Waiting, Next
  <2>2. QED
    BY <2>1, KeepStep DEF DecidedRowKept
<1>5. QED
  BY <1>1, <1>2, <1>3, <1>4 DEF DeployNext

\* A decision on an application that a client submitted survives every restart.
THEOREM SubmittedDecisionsStand == DeploySpec => SubmittedDecisionsFinal
BY DeployInvariant, SubmittedStep, PTL DEF DeploySpec, SubmittedDecisionsFinal
=============================================================================
