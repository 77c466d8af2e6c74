----------------------------- MODULE LoansProofs -----------------------------
(***************************************************************************)
(* Proofs about Loans for every set of users, threads and loans: typing,   *)
(* the row lock protocol, finality of decisions, the truth of what         *)
(* managers were told, and the refinement of LoanLedger; then, resting on  *)
(* the row lock protocol, what the answers and the audit log say of        *)
(* applications: reads never show less than what was answered before they  *)
(* began, clients are shown their own applications only, and the audit log *)
(* agrees with the table.                                                  *)
(***************************************************************************)
EXTENDS Loans, TLAPS

\* A worker is at a step of the endpoint its request names.
HandlerShape ==
    \A w \in Workers :
        /\ pc[w] # "idle" => req[w] \in Requests
        /\ pc[w] \in {"apply", "decide", "get", "list", "export"} => req[w].op = pc[w]
        /\ pc[w] = "holding" => req[w].op = "decide"
        /\ pc[w] = "stream" => req[w].op = "export"
        /\ pc[w] = "audit" => req[w].op \in {"apply", "decide", "export"}

\* The protocol behind finality: a manager's transaction holds the lock of
\* the row it read, and its copy is still what the table holds.
LockHolders ==
    \A w \in Workers : pc[w] = "holding" =>
        /\ req[w].user \in Managers
        /\ lockedBy[req[w].loan] = w
        /\ Exists(req[w].loan)
        /\ local[w][req[w].loan] = loans[req[w].loan]

\* Between the end of the transaction and the answer, the row already holds
\* what the answer will say.
PendingAnswers ==
    \A w \in Workers : (pc[w] \in {"audit", "answer"} /\ req[w].op = "decide") =>
        LET row == loans[req[w].loan] IN
        /\ (pc[w] = "audit" \/ code[w] = 200) =>
              row.status = req[w].status /\ row.manager = req[w].user /\ req[w].user \in Managers
        /\ (pc[w] = "answer" /\ code[w] = 409) => row.status \in Decisions

LockInv == TypeOK /\ HandlerShape /\ LockHolders
AnswerInv == PendingAnswers /\ DecisionAnswersStand

-----------------------------------------------------------------------------
\* The fields that the requests of each endpoint have.
LEMMA RequestFields ==
    ASSUME NEW r \in Requests
    PROVE  /\ r.user \in Users
           /\ r.op \in {"apply", "decide", "get", "list", "export"}
           /\ r.op = "apply" => r.purpose \in Purposes
           /\ r.op = "decide" => r.loan \in LoanIds /\ r.status \in Decisions
           /\ r.op = "get" => r.loan \in LoanIds
BY DEF Requests

\* The tables a handler can hold.
LEMMA RowShapes ==
    /\ NoRow \in Row
    /\ NoRows \in Table
    /\ \A u \in Users, p \in Purposes : Pending(u, p) \in Row
BY DEF Row, NoRow, NoRows, Table, Pending

\* A read of one row holds that row, and nothing else (_get_loan_or_404).
LEMMA OnlyShape ==
    ASSUME NEW l \in LoanIds, NEW row \in Row
    PROVE  Only(l, row) \in Table /\ Only(l, row)[l] = row
BY RowShapes DEF Only, Table, NoRows

\* A list or an export holds a table of rows.
LEMMA VisibleShape ==
    ASSUME loans \in Table, NEW u
    PROVE  Visible(u) \in Table
BY RowShapes DEF Visible, Table

\* A handler that replies stays well typed.
LEMMA ReplyTyped ==
    ASSUME HandlersOK, NEW w \in Workers, NEW c \in Codes, NEW rows \in Table,
           Reply(w, c, rows)
    PROVE  HandlersOK'
BY DEF HandlersOK, Reply, Steps

\* A handler that goes on to its next step stays well typed.
LEMMA GotoTyped ==
    ASSUME HandlersOK, NEW w \in Workers, NEW step \in Steps, NEW rows \in Table,
           Goto(w, step, rows)
    PROVE  HandlersOK'
BY DEF HandlersOK, Goto

\* What a failed statement leaves in a thread's hands: a 500 without rows, or, for
\* an export, rows of its queryset.
LEMMA FailedFacts ==
    ASSUME TypeOK, HandlerShape, NEW w \in Workers, FailedReply(w)
    PROVE  \E c \in {200, 500}, rows \in Table :
              /\ Reply(w, c, rows) /\ pc[w] \notin {"idle", "audit"} /\ req[w] \in Requests
              /\ \/ c = 500 /\ rows = NoRows
                 \/ c = 200 /\ pc[w] = "stream" /\ req[w].op = "export"
              /\ \A l \in LoanIds : rows[l] \in {NoRow, Visible(req[w].user)[l]}
<1>1. CASE Reply(w, 500, NoRows) /\ pc[w] \notin {"idle", "audit"}
  BY <1>1, RowShapes DEF HandlerShape, NoRows
<1>2. ASSUME NEW n \in LoanIds, Reply(w, 200, FirstRows(Visible(req[w].user), n)), pc[w] = "stream"
      PROVE  /\ FirstRows(Visible(req[w].user), n) \in Table
             /\ \A l \in LoanIds : FirstRows(Visible(req[w].user), n)[l] \in {NoRow, Visible(req[w].user)[l]}
  BY VisibleShape, RowShapes DEF FirstRows, Table, TypeOK, TablesOK
<1>3. QED
  BY <1>1, <1>2 DEF FailedReply, Serialising, HandlerShape

\* Typing is preserved by every step of every handler.
LEMMA TypeStep == TypeOK /\ HandlerShape /\ [Next]_vars => TypeOK'
<1> SUFFICES ASSUME TypeOK, HandlerShape, [Next]_vars PROVE TypeOK'
  OBVIOUS
<1> USE DEF TypeOK
<1>a. 0 \in Codes /\ 200 \in Codes /\ 201 \in Codes /\ 403 \in Codes /\ 404 \in Codes
      /\ 409 \in Codes /\ 500 \in Codes /\ "holding" \in Steps /\ "audit" \in Steps
  BY DEF Codes, Steps
<1>1. ASSUME NEW w \in Workers, Begin(w) PROVE TypeOK'
  <2>1. PICK r \in Requests : /\ req' = [req EXCEPT ![w] = r]
                              /\ pc' = [pc EXCEPT ![w] = r.op]
    BY <1>1 DEF Begin
  <2>2. r.op \in Steps
    BY RequestFields DEF Steps
  <2>3. AnsweredDecisions \subseteq LoanIds
    <3>1. \A a \in answers : a.req.op = "decide" => a.req.loan \in LoanIds
      BY RequestFields DEF AnswersOK
    <3>2. QED
      BY <3>1 DEF AnsweredDecisions
  <2>4. HandlersOK'
    BY <1>1, <2>1, <2>2, <2>3, <1>a, RowShapes DEF Begin, HandlersOK
  <2>5. CountersOK'
    BY <1>1, BoundsAreNat DEF Begin, CountersOK
  <2>6. QED
    BY <1>1, <2>4, <2>5 DEF Begin, tables, TablesOK, AnswersOK
<1>2. ASSUME NEW w \in Workers, ApplyForbidden(w) PROVE TypeOK'
  <2>1. HandlersOK'
    BY <1>2, <1>a, ReplyTyped, RowShapes DEF ApplyForbidden
  <2>2. QED
    BY <1>2, <2>1 DEF ApplyForbidden, tables, counters, TablesOK, CountersOK, AnswersOK
<1>3. ASSUME NEW w \in Workers, ApplyCreate(w) PROVE TypeOK'
  <2>1. Pending(req[w].user, req[w].purpose) \in Row
    BY <1>3, RequestFields, RowShapes DEF ApplyCreate, HandlerShape
  <2>2. PICK id \in LoanIds :
           /\ loans' = [loans EXCEPT ![id] = Pending(req[w].user, req[w].purpose)]
           /\ Goto(w, "audit", Only(id, Pending(req[w].user, req[w].purpose)))
    BY <1>3 DEF ApplyCreate
  <2>3. HandlersOK'
    BY <2>1, <2>2, <1>a, GotoTyped, OnlyShape
  <2>4. loans' \in Table
    BY <2>1, <2>2 DEF TablesOK, Table
  <2>5. QED
    BY <1>3, <2>3, <2>4 DEF ApplyCreate, counters, TablesOK, CountersOK, AnswersOK
<1>4. ASSUME NEW w \in Workers, DecideForbidden(w) PROVE TypeOK'
  <2>1. HandlersOK'
    BY <1>4, <1>a, ReplyTyped, RowShapes DEF DecideForbidden
  <2>2. QED
    BY <1>4, <2>1 DEF DecideForbidden, tables, counters, TablesOK, CountersOK, AnswersOK
<1>5. ASSUME NEW w \in Workers, DecideMissing(w) PROVE TypeOK'
  <2>1. HandlersOK'
    BY <1>5, <1>a, ReplyTyped, RowShapes DEF DecideMissing
  <2>2. QED
    BY <1>5, <2>1 DEF DecideMissing, tables, counters, TablesOK, CountersOK, AnswersOK
<1>6. ASSUME NEW w \in Workers, DecideLock(w) PROVE TypeOK'
  <2>1. req[w].loan \in LoanIds
    BY <1>6, RequestFields DEF DecideLock, HandlerShape
  <2>2. HandlersOK'
    BY <1>6, <2>1, <1>a, GotoTyped, OnlyShape DEF DecideLock, TablesOK, Table
  <2>3. TablesOK'
    BY <1>6, <2>1 DEF DecideLock, TablesOK
  <2>4. QED
    BY <1>6, <2>2, <2>3 DEF DecideLock, counters, CountersOK, AnswersOK
<1>7. ASSUME NEW w \in Workers, DecideConflict(w) PROVE TypeOK'
  <2>1. HandlersOK'
    BY <1>7, <1>a, ReplyTyped, RowShapes DEF DecideConflict
  <2>2. TablesOK'
    BY <1>7 DEF DecideConflict, Release, TablesOK
  <2>3. QED
    BY <1>7, <2>1, <2>2 DEF DecideConflict, counters, CountersOK, AnswersOK
<1>8. ASSUME NEW w \in Workers, DecideCommit(w) PROVE TypeOK'
  <2> DEFINE l == req[w].loan
             row == [local[w][l] EXCEPT !.status = req[w].status, !.manager = req[w].user]
  <2>1. l \in LoanIds /\ req[w].status \in Decisions /\ req[w].user \in Users
    BY <1>8, RequestFields DEF DecideCommit, HandlerShape
  <2>2. local[w][l] \in Row
    BY <2>1 DEF HandlersOK, Table
  <2>3. row \in Row
    <3>1. local[w][l] \in Row \ {NoRow}
      BY <1>8, <2>2 DEF DecideCommit, NoRow
    <3>2. QED
      BY <2>1, <3>1 DEF Row
  <2>4. loans' = [loans EXCEPT ![l] = row] /\ Release(l) /\ Goto(w, "audit", Only(l, row))
    BY <1>8 DEF DecideCommit
  <2>5. HandlersOK'
    BY <2>1, <2>3, <2>4, <1>a, GotoTyped, OnlyShape
  <2>6. TablesOK'
    <3> HIDE DEF l, row
    <3>1. loans' \in Table
      BY <2>1, <2>3, <2>4 DEF TablesOK, Table
    <3>2. QED
      BY <1>8, <2>4, <3>1 DEF DecideCommit, Release, TablesOK
  <2>7. QED
    BY <1>8, <2>5, <2>6 DEF DecideCommit, counters, CountersOK, AnswersOK
<1>9. ASSUME NEW w \in Workers, Get(w) PROVE TypeOK'
  <2>1. req[w].loan \in LoanIds
    BY <1>9, RequestFields DEF Get, HandlerShape
  <2>2. loans[req[w].loan] \in Row
    BY <2>1 DEF TablesOK, Table
  <2>3. \E c \in Codes, rows \in Table : Reply(w, c, rows)
    BY <1>9, <2>1, <2>2, <1>a, RowShapes, OnlyShape DEF Get
  <2>4. HandlersOK'
    BY <2>3, ReplyTyped
  <2>5. QED
    BY <1>9, <2>4 DEF Get, tables, counters, TablesOK, CountersOK, AnswersOK
<1>10. ASSUME NEW w \in Workers, List(w) PROVE TypeOK'
  <2>1. HandlersOK'
    BY <1>10, <1>a, ReplyTyped, RowShapes, VisibleShape DEF List, TablesOK
  <2>2. QED
    BY <1>10, <2>1 DEF List, tables, counters, TablesOK, CountersOK, AnswersOK
<1>11. ASSUME NEW w \in Workers, Export(w) PROVE TypeOK'
  <2>1. HandlersOK'
    BY <1>11, <1>a, ReplyTyped, GotoTyped, RowShapes DEF Export
  <2>2. QED
    BY <1>11, <2>1 DEF Export, tables, counters, TablesOK, CountersOK, AnswersOK
<1>12. ASSUME NEW w \in Workers, ExportStream(w) PROVE TypeOK'
  <2>1. HandlersOK'
    BY <1>12, <1>a, ReplyTyped, VisibleShape DEF ExportStream, TablesOK
  <2>2. QED
    BY <1>12, <2>1 DEF ExportStream, tables, counters, TablesOK, CountersOK, AnswersOK
<1>b. ASSUME NEW w \in Workers, AfterAudit(w) PROVE HandlersOK'
  BY <1>b, <1>a DEF AfterAudit, HandlersOK, Steps
<1>13. ASSUME NEW w \in Workers, AuditWrite(w) PROVE TypeOK'
  <2>1. req[w] \in Requests /\ req[w].op \in {"apply", "decide", "export"}
    BY <1>13 DEF AuditWrite, HandlerShape
  <2>2. [user |-> req[w].user, action |-> AuditAction(req[w])] \in AuditRow
    BY <2>1, RequestFields DEF AuditRow, AuditAction
  <2>3. auditLog' \in [LoanIds \cup {NoLoan} -> Seq(AuditRow)]
    BY <1>13, <2>2 DEF AuditWrite, TablesOK
  <2>4. QED
    BY <1>13, <1>b, <2>3 DEF AuditWrite, counters, TablesOK, CountersOK, AnswersOK
<1>14. ASSUME NEW w \in Workers, AuditSwallowed(w) PROVE TypeOK'
  BY <1>14, <1>b, BoundsAreNat DEF AuditSwallowed, tables, TablesOK, CountersOK, AnswersOK
<1>15. ASSUME NEW w \in Workers, Answer(w) PROVE TypeOK'
  <2>1. HandlersOK'
    BY <1>15, <1>a, RowShapes DEF Answer, HandlersOK, Steps
  <2>2. req[w] \in Requests
    BY <1>15 DEF Answer, HandlerShape
  <2>3. AnswersOK'
    BY <1>15, <2>2 DEF Answer, HandlersOK, AnswersOK
  <2>4. QED
    BY <1>15, <2>1, <2>3 DEF Answer, tables, counters, TablesOK, CountersOK
<1>16. ASSUME NEW w \in Workers, StatementFails(w) PROVE TypeOK'
  <2>1. HandlersOK'
    BY <1>16, <1>a, ReplyTyped, FailedFacts DEF StatementFails
  <2>2. TablesOK'
    BY <1>16 DEF StatementFails, TablesOK
  <2>3. QED
    BY <1>16, <2>1, <2>2, BoundsAreNat DEF StatementFails, CountersOK, AnswersOK
<1>17. CASE Crash
  <2>1. HandlersOK'
    BY <1>17, <1>a, RowShapes DEF Crash, HandlersOK, Steps
  <2>2. TablesOK'
    BY <1>17 DEF Crash, TablesOK
  <2>3. QED
    BY <1>17, <2>1, <2>2, BoundsAreNat DEF Crash, CountersOK, AnswersOK
<1>18. CASE UNCHANGED vars
  BY <1>18 DEF vars, TablesOK, HandlersOK, CountersOK, AnswersOK
<1>19. QED
  BY <1>1, <1>2, <1>3, <1>4, <1>5, <1>6, <1>7, <1>8, <1>9, <1>10, <1>11, <1>12,
     <1>13, <1>14, <1>15, <1>16, <1>17, <1>18
     DEF Next, Serve, Proceed, Quiescent


-----------------------------------------------------------------------------
\* With an empty table and idle threads, nothing is locked, decided or answered.
LEMMA InitInv == Init => LockInv /\ AnswerInv
<1> SUFFICES ASSUME Init PROVE LockInv /\ AnswerInv
  OBVIOUS
<1>1. TablesOK
  <2>1. \A S : <<>> \in Seq(S)
    OBVIOUS
  <2>2. QED
    BY <2>1, RowShapes DEF Init, TablesOK
<1>2. HandlersOK /\ CountersOK /\ AnswersOK
  BY RowShapes, BoundsAreNat DEF Init, HandlersOK, CountersOK, AnswersOK, Steps, Codes
<1>3. QED
  BY <1>1, <1>2
     DEF Init, LockInv, AnswerInv, TypeOK, HandlerShape, LockHolders, PendingAnswers,
         DecisionAnswersStand

\* The request of a worker stays one of its endpoint's requests.
LEMMA ShapeStep == LockInv /\ [Next]_vars => HandlerShape'
<1> SUFFICES ASSUME LockInv, [Next]_vars PROVE HandlerShape'
  OBVIOUS
<1> USE DEF LockInv, TypeOK, HandlersOK, HandlerShape
<1>1. ASSUME NEW w \in Workers, Begin(w) PROVE HandlerShape'
  BY <1>1, RequestFields DEF Begin
<1>2. ASSUME NEW w \in Workers, ApplyForbidden(w) \/ DecideForbidden(w) \/ DecideMissing(w)
                              \/ DecideConflict(w) \/ StatementFails(w)
      PROVE HandlerShape'
  BY <1>2, FailedFacts DEF ApplyForbidden, DecideForbidden, DecideMissing, DecideConflict,
              StatementFails, Reply
<1>3. ASSUME NEW w \in Workers, ApplyCreate(w) \/ DecideLock(w) \/ DecideCommit(w)
      PROVE HandlerShape'
  BY <1>3 DEF ApplyCreate, DecideLock, DecideCommit, Goto
<1>4. ASSUME NEW w \in Workers, Get(w) \/ List(w) \/ Export(w) \/ ExportStream(w)
      PROVE HandlerShape'
  BY <1>4 DEF Get, List, Export, ExportStream, Reply, Goto
<1>5. ASSUME NEW w \in Workers, AuditWrite(w) \/ AuditSwallowed(w) \/ Answer(w)
      PROVE HandlerShape'
  BY <1>5 DEF AuditWrite, AuditSwallowed, AfterAudit, Answer
<1>6. CASE Crash
  BY <1>6 DEF Crash
<1>7. CASE UNCHANGED vars
  BY <1>7 DEF vars
<1>8. QED
  BY <1>1, <1>2, <1>3, <1>4, <1>5, <1>6, <1>7 DEF Next, Serve, Proceed, Quiescent

\* A row that is locked, or pending, or decided, exists.
LEMMA StatusExists ==
    ASSUME NEW l \in LoanIds, loans[l].status \in Decisions \cup {"PENDING"}
    PROVE  Exists(l)
BY DEF Exists, NoRow, Decisions

\* The lock protocol is preserved by every step.
LEMMA LockStep == LockInv /\ [Next]_vars => LockHolders'
<1> SUFFICES ASSUME LockInv, [Next]_vars PROVE LockHolders'
  OBVIOUS
<1> USE DEF LockInv, TypeOK
<1>0. ASSUME NEW v \in Workers, pc[v] = "holding"
      PROVE  req[v].loan \in LoanIds
  BY <1>0, RequestFields DEF HandlerShape
<1>1. ASSUME NEW w \in Workers, Begin(w) PROVE LockHolders'
  BY <1>1, RequestFields DEF Begin, tables, LockHolders, Exists, HandlersOK
<1>2. ASSUME NEW w \in Workers, ApplyForbidden(w) \/ DecideForbidden(w) \/ DecideMissing(w)
      PROVE LockHolders'
  BY <1>2 DEF ApplyForbidden, DecideForbidden, DecideMissing, Reply, tables,
              LockHolders, Exists, HandlersOK
<1>3. ASSUME NEW w \in Workers, ApplyCreate(w) PROVE LockHolders'
  <2>1. PICK id \in LoanIds :
           /\ ~Exists(id)
           /\ loans' = [loans EXCEPT ![id] = Pending(req[w].user, req[w].purpose)]
           /\ Goto(w, "audit", Only(id, Pending(req[w].user, req[w].purpose)))
    BY <1>3 DEF ApplyCreate
  <2>2. ASSUME NEW v \in Workers, pc'[v] = "holding" PROVE v # w /\ pc[v] = "holding"
    BY <2>1, <2>2 DEF Goto, HandlersOK
  <2>3. ASSUME NEW v \in Workers, pc[v] = "holding" PROVE loans'[req[v].loan] = loans[req[v].loan]
    BY <1>0, <2>1, <2>3 DEF LockHolders, TablesOK, Table
  <2>4. QED
    BY <1>3, <2>1, <2>2, <2>3 DEF ApplyCreate, Goto, LockHolders, Exists, HandlersOK
<1>4. ASSUME NEW w \in Workers, DecideLock(w) PROVE LockHolders'
  <2> DEFINE l == req[w].loan
  <2>1. l \in LoanIds /\ loans[l] \in Row
    BY <1>4, RequestFields DEF DecideLock, HandlerShape, TablesOK, Table
  <2>2. Only(l, loans[l])[l] = loans[l]
    BY <2>1, OnlyShape
  <2>3. ASSUME NEW v \in Workers, pc[v] = "holding" PROVE req[v].loan # l /\ v # w
    BY <1>4, <2>3, NullsAreNot DEF DecideLock, LockHolders
  <2>4. /\ pc' = [pc EXCEPT ![w] = "holding"]
        /\ local' = [local EXCEPT ![w] = Only(l, loans[l])]
        /\ lockedBy' = [lockedBy EXCEPT ![l] = w]
        /\ UNCHANGED <<req, loans>> /\ Exists(l) /\ req[w].user \in Managers
    BY <1>4 DEF DecideLock, Goto
  <2>5. ASSUME NEW v \in Workers, pc'[v] = "holding", v # w
        PROVE  pc[v] = "holding" /\ lockedBy'[req[v].loan] = v
    BY <1>0, <2>1, <2>3, <2>4, <2>5 DEF HandlersOK, TablesOK, LockHolders
  <2>6. QED
    BY <2>1, <2>2, <2>4, <2>5 DEF LockHolders, Exists, HandlersOK, TablesOK
<1>5. ASSUME NEW w \in Workers, DecideConflict(w) PROVE LockHolders'
  <2>1. ASSUME NEW v \in Workers, pc'[v] = "holding"
        PROVE  v # w /\ pc[v] = "holding" /\ lockedBy'[req[v].loan] = v
    BY <1>0, <1>5, <2>1 DEF DecideConflict, Reply, Release, LockHolders, HandlersOK, TablesOK
  <2>2. QED
    BY <1>5, <2>1 DEF DecideConflict, Reply, LockHolders, Exists, HandlersOK
<1>6. ASSUME NEW w \in Workers, DecideCommit(w) PROVE LockHolders'
  <2>1. ASSUME NEW v \in Workers, pc'[v] = "holding"
        PROVE  v # w /\ pc[v] = "holding" /\ lockedBy'[req[v].loan] = v
               /\ loans'[req[v].loan] = loans[req[v].loan]
    BY <1>0, <1>6, <2>1 DEF DecideCommit, Goto, Release, LockHolders, HandlersOK, TablesOK, Table
  <2>2. QED
    BY <1>6, <2>1 DEF DecideCommit, Goto, LockHolders, Exists, HandlersOK
<1>7. ASSUME NEW w \in Workers, Get(w) \/ List(w) \/ Export(w) \/ ExportStream(w)
      PROVE LockHolders'
  BY <1>7 DEF Get, List, Export, ExportStream, Reply, Goto, tables, LockHolders, Exists,
              HandlersOK
<1>8. ASSUME NEW w \in Workers, AuditWrite(w) \/ AuditSwallowed(w) \/ Answer(w)
      PROVE LockHolders'
  BY <1>8 DEF AuditWrite, AuditSwallowed, AfterAudit, Answer, tables, LockHolders, Exists,
              HandlersOK
<1>9. ASSUME NEW w \in Workers, StatementFails(w) PROVE LockHolders'
  <2>1. ASSUME NEW v \in Workers, pc'[v] = "holding"
        PROVE  v # w /\ pc[v] = "holding" /\ lockedBy'[req[v].loan] = v
    BY <1>0, <1>9, <2>1, FailedFacts DEF StatementFails, Reply, LockHolders, HandlersOK
  <2>2. QED
    BY <1>9, <2>1, FailedFacts DEF StatementFails, Reply, LockHolders, Exists, HandlersOK
<1>10. CASE Crash
  BY <1>10 DEF Crash, LockHolders
<1>11. CASE UNCHANGED vars
  BY <1>11 DEF vars, LockHolders, Exists
<1>12. QED
  BY <1>1, <1>2, <1>3, <1>4, <1>5, <1>6, <1>7, <1>8, <1>9, <1>10, <1>11
     DEF Next, Serve, Proceed, Quiescent

\* Typing and the row lock protocol hold in every reachable state.
THEOREM LockInvariant == Spec => []LockInv
<1>1. LockInv /\ [Next]_vars => LockInv'
  BY TypeStep, ShapeStep, LockStep DEF LockInv
<1>2. QED
  BY InitInv, <1>1, PTL DEF Spec

\* Every reachable state is well typed.
THEOREM TypeCorrect == Spec => []TypeOK
<1>1. LockInv => TypeOK
  BY DEF LockInv
<1>2. QED
  BY <1>1, LockInvariant, PTL

-----------------------------------------------------------------------------
\* Only a commit over a pending row and an insert write the table.
LEMMA KeepStep == LockInv /\ [Next]_vars => DecidedRowKept
<1> SUFFICES ASSUME LockInv, [Next]_vars PROVE DecidedRowKept
  OBVIOUS
<1> USE DEF LockInv, TypeOK
<1>1. ASSUME NEW w \in Workers, ApplyCreate(w) PROVE DecidedRowKept
  BY <1>1, StatusExists DEF ApplyCreate, DecidedRowKept, TablesOK, Table
<1>2. ASSUME NEW w \in Workers, DecideCommit(w) PROVE DecidedRowKept
  <2>1. loans[req[w].loan].status = "PENDING"
    BY <1>2 DEF DecideCommit, LockHolders
  <2>2. \A l \in LoanIds : l # req[w].loan => loans'[l] = loans[l]
    BY <1>2 DEF DecideCommit, TablesOK, Table
  <2>3. QED
    BY <2>1, <2>2 DEF DecidedRowKept, Decisions
<1>3. ASSUME NEW w \in Workers,
             \/ Begin(w) \/ ApplyForbidden(w) \/ DecideForbidden(w) \/ DecideMissing(w)
             \/ DecideLock(w) \/ DecideConflict(w) \/ Get(w) \/ List(w) \/ Export(w)
             \/ ExportStream(w) \/ AuditWrite(w) \/ AuditSwallowed(w) \/ Answer(w)
             \/ StatementFails(w)
      PROVE  loans' = loans
  BY <1>3 DEF Begin, ApplyForbidden, DecideForbidden, DecideMissing, DecideLock,
      DecideConflict, Get, List, Export, ExportStream, AuditWrite, AuditSwallowed, Answer,
      StatementFails, tables
<1>4. CASE Crash \/ UNCHANGED vars
  BY <1>4 DEF Crash, vars, DecidedRowKept
<1>5. QED
  BY <1>1, <1>2, <1>3, <1>4 DEF Next, Serve, Proceed, Quiescent, DecidedRowKept

\* The decision is final: no step changes a row that has been decided.
THEOREM DecisionIsFinal == Spec => FinalDecision
<1>1. LockInv /\ [Next]_vars => [DecidedRowKept]_loans
  BY KeepStep
<1>2. QED
  BY <1>1, LockInvariant, PTL DEF Spec, FinalDecision

\* What a manager was told, and what a handler is about to tell one, stays
\* true at every step.
LEMMA AnswerStep == LockInv /\ AnswerInv /\ [Next]_vars => AnswerInv'
<1> SUFFICES ASSUME LockInv, AnswerInv, [Next]_vars PROVE AnswerInv'
  OBVIOUS
<1> USE DEF LockInv, TypeOK, AnswerInv
<1>k. DecidedRowKept
  BY KeepStep
<1>a. \A a \in answers : IsDecision(a) => a.req.loan \in LoanIds /\ a.req.status \in Decisions
  BY RequestFields DEF AnswersOK, IsDecision
<1>b. \A w \in Workers : pc[w] # "idle" /\ req[w].op = "decide" =>
          req[w].loan \in LoanIds /\ req[w].status \in Decisions
  BY RequestFields DEF HandlerShape
\* Old answers and pending ones of workers that do not move.
<1>c. ASSUME answers' = answers PROVE DecisionAnswersStand'
  BY <1>c, <1>k, <1>a DEF DecisionAnswersStand, DecidedRowKept, IsDecision
<1>d. ASSUME NEW v \in Workers, pc'[v] = pc[v], req'[v] = req[v], code'[v] = code[v],
             pc'[v] \in {"audit", "answer"}, req'[v].op = "decide"
      PROVE  /\ (pc'[v] = "audit" \/ code'[v] = 200) =>
                   /\ loans'[req'[v].loan].status = req'[v].status
                   /\ loans'[req'[v].loan].manager = req'[v].user
                   /\ req'[v].user \in Managers
             /\ (pc'[v] = "answer" /\ code'[v] = 409) => loans'[req'[v].loan].status \in Decisions
  BY <1>d, <1>b, <1>k DEF PendingAnswers, DecidedRowKept
<1>e. ASSUME NEW w \in Workers,
             \A v \in Workers \ {w} : pc'[v] = pc[v] /\ req'[v] = req[v] /\ code'[v] = code[v],
             pc'[w] \in {"audit", "answer"} /\ req'[w].op = "decide" =>
                 /\ (pc'[w] = "audit" \/ code'[w] = 200) =>
                       /\ loans'[req'[w].loan].status = req'[w].status
                       /\ loans'[req'[w].loan].manager = req'[w].user
                       /\ req'[w].user \in Managers
                 /\ (pc'[w] = "answer" /\ code'[w] = 409) =>
                       loans'[req'[w].loan].status \in Decisions
      PROVE  PendingAnswers'
  BY <1>d, <1>e DEF PendingAnswers
<1>1. ASSUME NEW w \in Workers, Begin(w) PROVE AnswerInv'
  <2>1. pc'[w] \notin {"audit", "answer"}
    BY <1>1, RequestFields DEF Begin, HandlersOK
  <2>2. PendingAnswers'
    BY <1>1, <1>e, <2>1 DEF Begin, HandlersOK
  <2>3. QED
    BY <1>1, <1>c, <2>2 DEF Begin
<1>2. ASSUME NEW w \in Workers,
             \/ ApplyForbidden(w) \/ ApplyCreate(w) \/ List(w) \/ Export(w)
             \/ ExportStream(w) \/ Get(w)
      PROVE  AnswerInv'
  <2>1. req'[w].op # "decide" /\ answers' = answers
    BY <1>2 DEF HandlerShape, ApplyForbidden, ApplyCreate, List, Export, ExportStream, Get,
                Reply, Goto
  <2>2. \A v \in Workers \ {w} : pc'[v] = pc[v] /\ req'[v] = req[v] /\ code'[v] = code[v]
    BY <1>2 DEF HandlersOK, ApplyForbidden, ApplyCreate, List, Export, ExportStream, Get,
                Reply, Goto
  <2>3. QED
    BY <1>c, <1>e, <2>1, <2>2
<1>3. ASSUME NEW w \in Workers, DecideForbidden(w) \/ DecideMissing(w) \/ StatementFails(w)
      PROVE  AnswerInv'
  <2>1. /\ pc'[w] = "answer" /\ answers' = answers
        /\ code'[w] \in {403, 404, 500} \/ req'[w].op = "export"
    BY <1>3, FailedFacts DEF HandlersOK, DecideForbidden, DecideMissing, StatementFails, Reply
  <2>2. \A v \in Workers \ {w} : pc'[v] = pc[v] /\ req'[v] = req[v] /\ code'[v] = code[v]
    BY <1>3, FailedFacts DEF HandlersOK, DecideForbidden, DecideMissing, StatementFails, Reply
  <2>3. QED
    BY <1>c, <1>e, <2>1, <2>2
<1>4. ASSUME NEW w \in Workers, DecideLock(w) PROVE AnswerInv'
  <2>1. pc'[w] = "holding" /\ answers' = answers
    BY <1>4 DEF HandlersOK, DecideLock, Goto
  <2>2. \A v \in Workers \ {w} : pc'[v] = pc[v] /\ req'[v] = req[v] /\ code'[v] = code[v]
    BY <1>4 DEF HandlersOK, DecideLock, Goto
  <2>3. QED
    BY <1>c, <1>e, <2>1, <2>2
<1>5. ASSUME NEW w \in Workers, DecideConflict(w) PROVE AnswerInv'
  <2>1. /\ pc'[w] = "answer" /\ code'[w] = 409 /\ answers' = answers
        /\ loans' = loans /\ req' = req
    BY <1>5 DEF HandlersOK, DecideConflict, Reply
  <2>2. loans[req[w].loan].status \in Decisions
    <3>1. /\ loans[req[w].loan] \in Row /\ Exists(req[w].loan)
          /\ loans[req[w].loan].status # "PENDING"
      BY <1>5, <1>b DEF DecideConflict, HandlerShape, LockHolders, TablesOK, Table
    <3>2. QED
      BY <3>1 DEF Row, Exists
  <2>3. \A v \in Workers \ {w} : pc'[v] = pc[v] /\ req'[v] = req[v] /\ code'[v] = code[v]
    BY <1>5 DEF HandlersOK, DecideConflict, Reply
  <2>4. QED
    BY <1>c, <1>e, <2>1, <2>2, <2>3
<1>6. ASSUME NEW w \in Workers, DecideCommit(w) PROVE AnswerInv'
  <2>1. pc'[w] = "audit" /\ req' = req /\ answers' = answers
    BY <1>6 DEF HandlersOK, DecideCommit, Goto
  <2>2. req[w].loan \in LoanIds /\ req[w].user \in Managers
    BY <1>6, <1>b DEF DecideCommit, HandlerShape, LockHolders
  <2>3. /\ loans'[req[w].loan].status = req[w].status
        /\ loans'[req[w].loan].manager = req[w].user
    BY <1>6, <2>2 DEF DecideCommit, TablesOK, HandlersOK, Table, Row
  <2>4. \A v \in Workers \ {w} : pc'[v] = pc[v] /\ req'[v] = req[v] /\ code'[v] = code[v]
    BY <1>6 DEF HandlersOK, DecideCommit, Goto
  <2>5. QED
    BY <1>c, <1>e, <2>1, <2>2, <2>3, <2>4
<1>7. ASSUME NEW w \in Workers, AuditWrite(w) \/ AuditSwallowed(w) PROVE AnswerInv'
  <2>1. /\ pc[w] = "audit" /\ req' = req /\ answers' = answers /\ loans' = loans
        /\ code'[w] # 409
    BY <1>7 DEF AuditWrite, AuditSwallowed, AfterAudit, HandlersOK, tables
  <2>2. \A v \in Workers \ {w} : pc'[v] = pc[v] /\ req'[v] = req[v] /\ code'[v] = code[v]
    BY <1>7 DEF HandlersOK, AuditWrite, AuditSwallowed, AfterAudit
  <2>3. QED
    BY <1>c, <1>e, <2>1, <2>2 DEF PendingAnswers
<1>8. ASSUME NEW w \in Workers, Answer(w) PROVE AnswerInv'
  <2>1. pc'[w] = "idle" /\ pc[w] = "answer" /\ loans' = loans
    BY <1>8 DEF Answer, HandlersOK, tables
  <2>2. \A v \in Workers \ {w} : pc'[v] = pc[v] /\ req'[v] = req[v] /\ code'[v] = code[v]
    BY <1>8 DEF HandlersOK, Answer
  <2>3. PendingAnswers'
    BY <1>e, <2>1, <2>2
  <2>4. DecisionAnswersStand'
    BY <1>8, <2>1 DEF Answer, DecisionAnswersStand, PendingAnswers, IsDecision
  <2>5. QED
    BY <2>3, <2>4
<1>9. CASE Crash
  BY <1>9, <1>c DEF Crash, PendingAnswers
<1>10. CASE UNCHANGED vars
  BY <1>10 DEF vars, PendingAnswers, DecisionAnswersStand
<1>11. QED
  BY <1>1, <1>2, <1>3, <1>4, <1>5, <1>6, <1>7, <1>8, <1>9, <1>10
     DEF Next, Serve, Proceed, Quiescent

\* A manager who was told 200 or 409 was told the truth, for ever.
THEOREM AnswersStand == Spec => []DecisionAnswersStand
<1>1. Spec => [](LockInv /\ AnswerInv)
  BY InitInv, AnswerStep, LockInvariant, PTL DEF Spec
<1>2. AnswerInv => DecisionAnswersStand
  BY DEF AnswerInv
<1>3. QED
  BY <1>1, <1>2, PTL

-----------------------------------------------------------------------------
\* Every step of the handlers is a step of the ledger, or none at all.
LEMMA LedgerStep ==
    LockInv /\ AnswerInv /\ [Next]_vars => [Ledger!Next]_<<loans, Acknowledged>>
<1> SUFFICES ASSUME LockInv, AnswerInv, [Next]_vars
             PROVE  [Ledger!Next]_<<loans, Acknowledged>>
  OBVIOUS
<1> USE DEF LockInv, TypeOK
<1>a. answers' = answers => Acknowledged' = Acknowledged
  BY DEF Acknowledged, IsDecision
<1>1. ASSUME NEW w \in Workers, ApplyCreate(w) PROVE Ledger!Next
  <2>1. req[w].user \in Clients /\ req[w].purpose \in Purposes /\ answers' = answers
    BY <1>1, RequestFields DEF ApplyCreate, HandlerShape
  <2>2. PICK id \in LoanIds :
           ~Exists(id) /\ loans' = [loans EXCEPT ![id] = Pending(req[w].user, req[w].purpose)]
    BY <1>1 DEF ApplyCreate
  <2>3. Ledger!Submit(id, req[w].user, req[w].purpose)
    BY <2>1, <2>2, <1>a DEF Ledger!Submit, Ledger!Pending, Pending, Exists
  <2>4. QED
    BY <2>1, <2>3 DEF Ledger!Next
<1>2. ASSUME NEW w \in Workers, DecideCommit(w) PROVE Ledger!Next
  <2>1. /\ req[w].loan \in LoanIds /\ req[w].status \in Decisions /\ req[w].user \in Managers
        /\ local[w][req[w].loan] = loans[req[w].loan] /\ answers' = answers
    BY <1>2, RequestFields DEF DecideCommit, HandlerShape, LockHolders
  <2>2. Ledger!Decide(req[w].loan, req[w].user, req[w].status)
    BY <1>2, <2>1, <1>a DEF DecideCommit, Ledger!Decide, Ledger!Decided, TablesOK, Table
  <2>3. QED
    BY <2>1, <2>2 DEF Ledger!Next
<1>3. ASSUME NEW w \in Workers, Answer(w) PROVE [Ledger!Next]_<<loans, Acknowledged>>
  <2> DEFINE a == [req |-> req[w], code |-> code[w], rows |-> local[w], known |-> known[w]]
             b == [loan |-> req[w].loan, manager |-> req[w].user, status |-> req[w].status]
  <2>1. answers' = answers \cup {a} /\ loans' = loans
    BY <1>3 DEF Answer, tables
  <2>2. CASE req[w].op = "decide" /\ code[w] = 200
    <3>1. /\ req[w].loan \in LoanIds /\ req[w].status \in Decisions /\ req[w].user \in Managers
          /\ loans[req[w].loan].status = req[w].status
          /\ loans[req[w].loan].manager = req[w].user
      BY <1>3, <2>2, RequestFields DEF Answer, HandlerShape, AnswerInv, PendingAnswers
    <3>2. Acknowledged' = Acknowledged \cup {b}
      <4>1. {x \in answers' : IsDecision(x) /\ x.code = 200}
              = {x \in answers : IsDecision(x) /\ x.code = 200} \cup {a}
        BY <2>1, <2>2 DEF IsDecision
      <4>2. a.req = req[w]
        OBVIOUS
      <4>3. Acknowledged' = {[loan |-> x.req.loan, manager |-> x.req.user, status |-> x.req.status] :
                                x \in {y \in answers' : IsDecision(y) /\ y.code = 200}}
        BY DEF Acknowledged, IsDecision
      <4>4. QED
        <5> HIDE DEF a
        <5>1. QED
          BY <4>1, <4>2, <4>3 DEF Acknowledged
    <3>3. Ledger!Acknowledge(req[w].loan, req[w].user, req[w].status)
      BY <2>1, <3>1, <3>2 DEF Ledger!Acknowledge
    <3>4. QED
      BY <3>1, <3>3 DEF Ledger!Next
  <2>3. CASE ~(req[w].op = "decide" /\ code[w] = 200)
    <3>1. Acknowledged' = Acknowledged
      BY <2>1, <2>3 DEF Acknowledged, IsDecision
    <3>2. QED
      BY <2>1, <3>1
  <2>4. QED
    BY <2>2, <2>3
<1>4. ASSUME NEW w \in Workers,
             \/ Begin(w) \/ ApplyForbidden(w) \/ DecideForbidden(w) \/ DecideMissing(w)
             \/ DecideLock(w) \/ DecideConflict(w) \/ Get(w) \/ List(w) \/ Export(w)
             \/ ExportStream(w) \/ AuditWrite(w) \/ AuditSwallowed(w) \/ StatementFails(w)
      PROVE  loans' = loans /\ answers' = answers
  BY <1>4 DEF Begin, ApplyForbidden, DecideForbidden, DecideMissing, DecideLock,
      DecideConflict, Get, List, Export, ExportStream, AuditWrite, AuditSwallowed,
      StatementFails, tables
<1>5. CASE Crash \/ UNCHANGED vars
  BY <1>5, <1>a DEF Crash, vars
<1>6. QED
  BY <1>1, <1>2, <1>3, <1>4, <1>5, <1>a DEF Next, Serve, Proceed, Quiescent

\* The handlers implement the ledger: for any number of threads, however their
\* steps interleave, fail or are cut off by a crash.
THEOREM ImplementsLedger == Spec => LedgerSpec
<1>1. Init => Ledger!Init
  BY DEF Init, Ledger!Init, NoRows, Acknowledged
<1>2. Spec => [](LockInv /\ AnswerInv)
  BY InitInv, AnswerStep, LockInvariant, PTL DEF Spec
<1>3. QED
  BY <1>1, <1>2, LedgerStep, PTL DEF Spec, LedgerSpec, Ledger!Spec

-----------------------------------------------------------------------------
Reading(r) == r.op \in {"get", "list", "export"}

\* What a handler remembers as answered when it began is decided for ever.
KnownDecided ==
    \A w \in Workers : \A l \in known[w] : loans[l].status \in Decisions

\* The rows of a read on its way to the client are those of the table, where
\* the decision had been answered before the read began.
PendingReads ==
    \A w \in Workers : (pc[w] = "answer" /\ code[w] = 200 /\ Reading(req[w])) =>
        \A l \in known[w] : local[w][l] \in {NoRow, loans[l]}

AnsweredReads ==
    \A a \in answers : (IsRead(a) /\ a.code = 200) =>
        \A l \in a.known : a.rows[l] \in {NoRow, loans[l]} /\ loans[l].status \in Decisions

ReadInv == KnownDecided /\ PendingReads /\ AnsweredReads

\* The rows of a client's read on its way to it are its own.
PendingOwn ==
    \A w \in Workers :
        (pc[w] = "answer" /\ Reading(req[w]) /\ req[w].user \in Clients) =>
            /\ \A l \in LoanIds : local[w][l] # NoRow => local[w][l].client = req[w].user
            /\ code[w] \in {200, 404, 500}

OwnInv == PendingOwn /\ ClientsSeeOwn

Auditing(w) == pc[w] = "audit" /\ req[w].op = "decide"

\* A thread between the commit of its decision and the audit row is the only
\* one there is for its application, whose audit row is still to be written;
\* the row in its hands is that of the application.
PendingAudit ==
    \A w \in Workers : Auditing(w) =>
        /\ DecisionRows(req[w].loan) = {}
        /\ \A e \in LoanIds : local[w][e] # NoRow => e = req[w].loan
        /\ \A v \in Workers : (Auditing(v) /\ req[v].loan = req[w].loan) => v = w

AuditInv == PendingAudit /\ AuditMatchesLoan

-----------------------------------------------------------------------------
\* A step of one thread leaves the others where they are.
LEMMA OthersStay ==
    ASSUME LockInv, NEW w \in Workers,
           Begin(w) \/ DecideLock(w) \/ Proceed(w) \/ StatementFails(w)
    PROVE  \A v \in Workers \ {w} :
              /\ pc'[v] = pc[v] /\ req'[v] = req[v] /\ code'[v] = code[v]
              /\ local'[v] = local[v] /\ known'[v] = known[v]
<1> USE DEF LockInv, TypeOK, HandlersOK
<1>1. CASE Begin(w)
  BY <1>1 DEF Begin
<1>2. CASE \/ ApplyForbidden(w) \/ DecideForbidden(w) \/ DecideMissing(w)
           \/ DecideConflict(w) \/ StatementFails(w)
  BY <1>2, FailedFacts DEF ApplyForbidden, DecideForbidden, DecideMissing, DecideConflict,
              StatementFails, Reply
<1>3. CASE ApplyCreate(w) \/ DecideLock(w) \/ DecideCommit(w)
  BY <1>3 DEF ApplyCreate, DecideLock, DecideCommit, Goto
<1>4. CASE Get(w) \/ List(w) \/ Export(w) \/ ExportStream(w)
  BY <1>4 DEF Get, List, Export, ExportStream, Reply, Goto
<1>5. CASE AuditWrite(w) \/ AuditSwallowed(w) \/ Answer(w)
  BY <1>5 DEF AuditWrite, AuditSwallowed, AfterAudit, Answer
<1>6. QED
  BY <1>1, <1>2, <1>3, <1>4, <1>5 DEF Proceed

\* A step is that of one thread, or a crash, or none.
LEMMA OneMoves ==
    ASSUME LockInv, [Next]_vars
    PROVE  \/ \E w \in Workers :
                /\ \A v \in Workers \ {w} :
                      /\ pc'[v] = pc[v] /\ req'[v] = req[v] /\ code'[v] = code[v]
                      /\ local'[v] = local[v] /\ known'[v] = known[v]
                /\ Begin(w) \/ DecideLock(w) \/ Proceed(w) \/ StatementFails(w)
           \/ Crash
           \/ UNCHANGED vars
BY OthersStay DEF Next, Serve, Quiescent

\* A queryset of a user shows rows of the table, a client's only its own.
LEMMA VisibleRows ==
    ASSUME NEW u, NEW l \in LoanIds
    PROVE  /\ Visible(u)[l] \in {NoRow, loans[l]}
           /\ (u \in Clients /\ Visible(u)[l] # NoRow) => Visible(u)[l].client = u
BY RolesDisjoint DEF Visible

\* The rows and the code that a read is about to answer.
LEMMA ReadFacts ==
    ASSUME LockInv, NEW w \in Workers,
           Get(w) \/ List(w) \/ Export(w) \/ ExportStream(w) \/ StatementFails(w),
           pc'[w] = "answer"
    PROVE  /\ \A l \in LoanIds : local'[w][l] \in {NoRow, loans[l]}
           /\ req'[w].user \in Clients =>
                 /\ \A l \in LoanIds : local'[w][l] # NoRow => local'[w][l].client = req'[w].user
                 /\ code'[w] \in {200, 404, 500}
<1> USE DEF LockInv, TypeOK, HandlersOK
<1>1. CASE Get(w)
  <2>1. req[w].loan \in LoanIds
    BY <1>1, RequestFields DEF Get, HandlerShape
  <2>2. /\ \A l \in LoanIds : NoRows[l] = NoRow
        /\ \A l \in LoanIds : Only(req[w].loan, loans[req[w].loan])[l] \in {NoRow, loans[l]}
        /\ \A l \in LoanIds : l # req[w].loan => Only(req[w].loan, loans[req[w].loan])[l] = NoRow
        /\ Only(req[w].loan, loans[req[w].loan])[req[w].loan] = loans[req[w].loan]
    BY <2>1 DEF NoRows, Only
  <2>3. CASE ~Exists(req[w].loan) /\ Reply(w, 404, NoRows)
    BY <2>2, <2>3 DEF Reply
  <2>4. CASE CanView(req[w].user, loans[req[w].loan]) /\ Reply(w, 200, Only(req[w].loan, loans[req[w].loan]))
    BY <2>1, <2>2, <2>4, RolesDisjoint DEF Reply, CanView
  <2>5. CASE Reply(w, IF req[w].user \in Clients THEN 404 ELSE 403, NoRows)
    BY <2>2, <2>5 DEF Reply
  <2>6. QED
    BY <1>1, <2>3, <2>4, <2>5 DEF Get
<1>2. CASE List(w) \/ ExportStream(w)
  BY <1>2, VisibleRows DEF List, ExportStream, Reply, NoRows
<1>3. CASE Export(w)
  <2>1. req[w].user \notin Clients
    BY <1>3 DEF Export, Goto
  <2>2. QED
    BY <1>3, <2>1 DEF Export, Reply, Goto, NoRows
<1>4. CASE StatementFails(w)
  <2>1. PICK c \in {200, 500}, rows \in Table :
            /\ Reply(w, c, rows)
            /\ \A l \in LoanIds : rows[l] \in {NoRow, Visible(req[w].user)[l]}
    BY <1>4, FailedFacts DEF StatementFails
  <2>2. req'[w] = req[w] /\ local'[w] = rows /\ code'[w] = c
    BY <2>1 DEF Reply
  <2>3. QED
    BY <2>1, <2>2, VisibleRows
<1>5. QED
  BY <1>1, <1>2, <1>3, <1>4

\* What the threads that are not reads say at "answer", and what is answered.
LEMMA AnswersGrow ==
    ASSUME LockInv, [Next]_vars
    PROVE  \/ answers' = answers
           \/ \E w \in Workers :
                /\ pc[w] = "answer" /\ req[w] \in Requests /\ loans' = loans
                /\ answers' = answers \cup
                      {[req |-> req[w], code |-> code[w], rows |-> local[w], known |-> known[w]]}
<1>1. ASSUME NEW w \in Workers, Answer(w)
      PROVE  /\ pc[w] = "answer" /\ req[w] \in Requests /\ loans' = loans
             /\ answers' = answers \cup
                   {[req |-> req[w], code |-> code[w], rows |-> local[w], known |-> known[w]]}
  BY <1>1 DEF Answer, tables, LockInv, HandlerShape
<1>2. ASSUME NEW w \in Workers,
             \/ Begin(w) \/ ApplyForbidden(w) \/ ApplyCreate(w) \/ DecideForbidden(w)
             \/ DecideMissing(w) \/ DecideLock(w) \/ DecideConflict(w) \/ DecideCommit(w)
             \/ Get(w) \/ List(w) \/ Export(w) \/ ExportStream(w) \/ AuditWrite(w)
             \/ AuditSwallowed(w) \/ StatementFails(w)
      PROVE  answers' = answers
  BY <1>2 DEF Begin, ApplyForbidden, ApplyCreate, DecideForbidden, DecideMissing, DecideLock,
      DecideConflict, DecideCommit, Get, List, Export, ExportStream, AuditWrite,
      AuditSwallowed, StatementFails
<1>3. CASE Crash \/ UNCHANGED vars
  BY <1>3 DEF Crash, vars
<1>4. QED
  BY <1>1, <1>2, <1>3 DEF Next, Serve, Proceed, Quiescent

\* Only the reads make a read ready for its answer, or a failed statement does.
LEMMA ReadReady ==
    ASSUME LockInv, NEW w \in Workers,
           Begin(w) \/ DecideLock(w) \/ Proceed(w) \/ StatementFails(w),
           pc'[w] = "answer", Reading(req'[w])
    PROVE  /\ req'[w] = req[w] /\ known'[w] = known[w] /\ loans' = loans
           /\ Get(w) \/ List(w) \/ Export(w) \/ ExportStream(w) \/ StatementFails(w)
<1> USE DEF LockInv, TypeOK, HandlersOK, HandlerShape
<1>0. req'[w].op \in {"get", "list", "export"}
  BY DEF Reading
<1>1. CASE Begin(w)
  BY <1>1, RequestFields DEF Begin
<1>2. CASE \/ ApplyForbidden(w) \/ DecideForbidden(w) \/ DecideMissing(w) \/ DecideConflict(w)
  BY <1>0, <1>2 DEF ApplyForbidden, DecideForbidden, DecideMissing, DecideConflict, Reply
<1>3. CASE ApplyCreate(w) \/ DecideLock(w) \/ DecideCommit(w)
  BY <1>3 DEF ApplyCreate, DecideLock, DecideCommit, Goto
<1>4. CASE Get(w) \/ List(w) \/ Export(w) \/ ExportStream(w)
  BY <1>4 DEF Get, List, Export, ExportStream, Reply, Goto, tables
<1>5. CASE AuditWrite(w) \/ AuditSwallowed(w)
  BY <1>0, <1>5 DEF AuditWrite, AuditSwallowed, AfterAudit
<1>6. CASE Answer(w)
  BY <1>6 DEF Answer
<1>7. CASE StatementFails(w)
  BY <1>7, FailedFacts DEF StatementFails, Reply
<1>8. QED
  BY <1>1, <1>2, <1>3, <1>4, <1>5, <1>6, <1>7 DEF Proceed

-----------------------------------------------------------------------------
\* What was answered before a request began stays decided while it runs.
LEMMA KnownStep ==
    LockInv /\ AnswerInv /\ KnownDecided /\ [Next]_vars => KnownDecided'
<1> SUFFICES ASSUME LockInv, AnswerInv, KnownDecided, [Next]_vars PROVE KnownDecided'
  OBVIOUS
<1>k. /\ DecidedRowKept
      /\ \A v \in Workers : known[v] \subseteq LoanIds
  BY KeepStep DEF LockInv, TypeOK, HandlersOK
<1>1. \A l \in AnsweredDecisions : l \in LoanIds /\ loans[l].status \in Decisions
  BY RequestFields DEF AnsweredDecisions, AnswerInv, DecisionAnswersStand, LockInv, TypeOK, AnswersOK,
                       IsDecision
<1>2. \A v \in Workers : known'[v] \subseteq known[v] \cup AnsweredDecisions
  <2>1. ASSUME NEW w \in Workers, Begin(w) \/ DecideLock(w) \/ Proceed(w) \/ StatementFails(w)
        PROVE  \E S \in {known[w], AnsweredDecisions, {}} : known' = [known EXCEPT ![w] = S]
    <3>1. known = [known EXCEPT ![w] = known[w]]
      BY DEF LockInv, TypeOK, HandlersOK
    <3>2. QED
      BY <2>1, <3>1 DEF Proceed, Begin, ApplyForbidden, ApplyCreate, DecideForbidden, DecideMissing,
          DecideLock, DecideConflict, DecideCommit, Get, List, Export, ExportStream, AuditWrite,
          AfterAudit, AuditSwallowed, StatementFails, FailedReply, Answer, Reply, Goto
  <2>2. ASSUME NEW w \in Workers, Begin(w) \/ DecideLock(w) \/ Proceed(w) \/ StatementFails(w),
               NEW v \in Workers
        PROVE  known'[v] \subseteq known[v] \cup AnsweredDecisions
    <3>1. PICK S \in {known[w], AnsweredDecisions, {}} : known' = [known EXCEPT ![w] = S]
      BY <2>1, <2>2
    <3>2. QED
      BY <3>1 DEF LockInv, TypeOK, HandlersOK
  <2>3. CASE Crash \/ UNCHANGED vars
    BY <2>3 DEF Crash, vars
  <2>4. QED
    BY <2>2, <2>3, OneMoves
<1>3. QED
  BY <1>k, <1>1, <1>2 DEF KnownDecided, DecidedRowKept

\* Reads never go back behind what had been answered before they began.
LEMMA ReadStep == LockInv /\ AnswerInv /\ ReadInv /\ [Next]_vars => ReadInv'
<1> SUFFICES ASSUME LockInv, AnswerInv, ReadInv, [Next]_vars PROVE ReadInv'
  OBVIOUS
<1>k. /\ DecidedRowKept /\ KnownDecided /\ KnownDecided'
      /\ \A v \in Workers : known[v] \subseteq LoanIds
  BY KeepStep, KnownStep DEF ReadInv, LockInv, TypeOK, HandlersOK
<1>1. PendingReads'
  <2>1. ASSUME NEW v \in Workers, pc'[v] = pc[v], req'[v] = req[v], code'[v] = code[v],
               local'[v] = local[v], known'[v] = known[v],
               pc'[v] = "answer", code'[v] = 200, Reading(req'[v]),
               NEW l \in known'[v]
        PROVE  local'[v][l] \in {NoRow, loans'[l]}
    <3>1. local[v][l] \in {NoRow, loans[l]} /\ l \in LoanIds /\ loans[l].status \in Decisions
      <4>1. l \in known[v] /\ pc[v] = "answer" /\ code[v] = 200 /\ Reading(req[v])
        BY <2>1
      <4>2. QED
        BY <4>1, <1>k DEF ReadInv, PendingReads, KnownDecided
    <3>2. QED
      BY <2>1, <3>1, <1>k DEF DecidedRowKept
  <2>2. ASSUME NEW w \in Workers,
               \A v \in Workers \ {w} :
                      /\ pc'[v] = pc[v] /\ req'[v] = req[v] /\ code'[v] = code[v]
                      /\ local'[v] = local[v] /\ known'[v] = known[v],
               Begin(w) \/ DecideLock(w) \/ Proceed(w) \/ StatementFails(w)
        PROVE  PendingReads'
    <3>1. ASSUME pc'[w] = "answer", code'[w] = 200, Reading(req'[w]), NEW l \in known'[w]
          PROVE  local'[w][l] \in {NoRow, loans'[l]}
      BY <2>2, <3>1, <1>k, ReadReady, ReadFacts
    <3>2. QED
      BY <2>1, <2>2, <3>1 DEF PendingReads
  <2>3. CASE Crash
    BY <2>3 DEF Crash, PendingReads
  <2>4. CASE UNCHANGED vars
    BY <2>4 DEF vars, ReadInv, PendingReads
  <2>5. QED
    BY <2>2, <2>3, <2>4, OneMoves
<1>2. AnsweredReads'
  <2>1. ASSUME NEW a \in answers, IsRead(a), a.code = 200, NEW l \in a.known
        PROVE  a.rows[l] \in {NoRow, loans'[l]} /\ loans'[l].status \in Decisions
    <3>1. a.known \subseteq LoanIds
      BY DEF LockInv, TypeOK, AnswersOK
    <3>2. QED
      BY <2>1, <3>1, <1>k DEF ReadInv, AnsweredReads, DecidedRowKept
  <2>2. ASSUME NEW w \in Workers, pc[w] = "answer", loans' = loans,
               answers' = answers \cup
                      {[req |-> req[w], code |-> code[w], rows |-> local[w], known |-> known[w]]}
        PROVE  AnsweredReads'
    BY <2>1, <2>2, <1>k DEF AnsweredReads, IsRead, Reading, ReadInv, PendingReads, KnownDecided
  <2>3. QED
    BY <2>1, <2>2, AnswersGrow DEF AnsweredReads
<1>3. QED
  BY <1>k, <1>1, <1>2 DEF ReadInv

\* A client is shown nothing but its own.
LEMMA OwnStep == LockInv /\ OwnInv /\ [Next]_vars => OwnInv'
<1> SUFFICES ASSUME LockInv, OwnInv, [Next]_vars PROVE OwnInv'
  OBVIOUS
<1>1. PendingOwn'
  <2>1. ASSUME NEW w \in Workers,
               \A v \in Workers \ {w} :
                      /\ pc'[v] = pc[v] /\ req'[v] = req[v] /\ code'[v] = code[v]
                      /\ local'[v] = local[v] /\ known'[v] = known[v],
               Begin(w) \/ DecideLock(w) \/ Proceed(w) \/ StatementFails(w)
        PROVE  PendingOwn'
    <3>1. ASSUME pc'[w] = "answer", Reading(req'[w]), req'[w].user \in Clients
          PROVE  /\ \A l \in LoanIds : local'[w][l] # NoRow => local'[w][l].client = req'[w].user
                 /\ code'[w] \in {200, 404, 500}
      BY <2>1, <3>1, ReadReady, ReadFacts
    <3>2. QED
      BY <2>1, <3>1 DEF PendingOwn, OwnInv
  <2>2. CASE Crash
    BY <2>2 DEF Crash, PendingOwn
  <2>3. CASE UNCHANGED vars
    BY <2>3 DEF vars, OwnInv, PendingOwn
  <2>4. QED
    BY <2>1, <2>2, <2>3, OneMoves
<1>2. ClientsSeeOwn'
  <2>1. ASSUME NEW w \in Workers, pc[w] = "answer",
               answers' = answers \cup
                      {[req |-> req[w], code |-> code[w], rows |-> local[w], known |-> known[w]]}
        PROVE  ClientsSeeOwn'
    BY <2>1 DEF OwnInv, PendingOwn, ClientsSeeOwn, IsRead, Reading
  <2>2. QED
    BY <2>1, AnswersGrow DEF OwnInv, ClientsSeeOwn
<1>3. QED
  BY <1>1, <1>2 DEF OwnInv

-----------------------------------------------------------------------------
\* The audit log changes in AuditWrite alone, by one row about one entity.
LEMMA AuditGrows ==
    ASSUME [Next]_vars
    PROVE  auditLog' = auditLog \/ \E w \in Workers : AuditWrite(w)
<1>1. ASSUME NEW w \in Workers,
             \/ Begin(w) \/ ApplyForbidden(w) \/ ApplyCreate(w) \/ DecideForbidden(w)
             \/ DecideMissing(w) \/ DecideLock(w) \/ DecideConflict(w) \/ DecideCommit(w)
             \/ Get(w) \/ List(w) \/ Export(w) \/ ExportStream(w) \/ AuditSwallowed(w)
             \/ Answer(w) \/ StatementFails(w)
      PROVE  auditLog' = auditLog
  BY <1>1 DEF Begin, ApplyForbidden, ApplyCreate, DecideForbidden, DecideMissing, DecideLock,
      DecideConflict, DecideCommit, Get, List, Export, ExportStream, Answer, AuditSwallowed,
      StatementFails, tables
<1>2. CASE Crash \/ UNCHANGED vars
  BY <1>2 DEF Crash, vars
<1>3. QED
  BY <1>1, <1>2 DEF Next, Serve, Proceed, Quiescent

\* A row appended to a sequence of rows is its last, and the others stay.
LEMMA Appended ==
    ASSUME NEW s \in Seq(AuditRow), NEW r \in AuditRow
    PROVE  /\ DOMAIN Append(s, r) = DOMAIN s \cup {Len(s) + 1}
           /\ Len(s) + 1 \notin DOMAIN s
           /\ Append(s, r)[Len(s) + 1] = r
           /\ \A i \in DOMAIN s : Append(s, r)[i] = s[i]
OBVIOUS

\* The row that AuditWrite appends, and the entity it is about.
LEMMA WriteFacts ==
    ASSUME LockInv, AnswerInv, AuditInv, NEW w \in Workers, AuditWrite(w)
    PROVE  \E e \in LoanIds \cup {NoLoan}, r \in AuditRow :
              /\ auditLog' = [auditLog EXCEPT ![e] = Append(auditLog[e], r)]
              /\ e \in LoanIds /\ r.action \in Decisions =>
                    /\ Auditing(w) /\ req[w].loan = e
                    /\ r.action = loans[e].status /\ r.user = loans[e].manager
<1>1. /\ req[w] \in Requests /\ pc[w] = "audit" /\ req[w].op \in {"apply", "decide", "export"}
  BY DEF AuditWrite, LockInv, HandlerShape
<1>2. PICK e \in LoanIds \cup {NoLoan} :
          /\ AuditEntity(w, e)
          /\ auditLog' = [auditLog EXCEPT ![e] =
                Append(auditLog[e], [user |-> req[w].user, action |-> AuditAction(req[w])])]
  BY DEF AuditWrite
<1>3. PICK r : r = [user |-> req[w].user, action |-> AuditAction(req[w])]
  OBVIOUS
<1>4. /\ r \in AuditRow /\ r.user = req[w].user
      /\ r.action \in Decisions => req[w].op = "decide" /\ r.action = req[w].status
  BY <1>1, <1>3, RequestFields DEF AuditRow, AuditAction, Decisions
<1>5. ASSUME e \in LoanIds, r.action \in Decisions
      PROVE  /\ Auditing(w) /\ req[w].loan = e
             /\ r.action = loans[e].status /\ r.user = loans[e].manager
  <2>1. Auditing(w)
    BY <1>1, <1>4, <1>5 DEF Auditing
  <2>2. local[w][e] # NoRow
    BY <1>2, <2>1 DEF AuditEntity, Auditing
  <2>3. req[w].loan = e
    BY <1>5, <2>1, <2>2 DEF AuditInv, PendingAudit
  <2>4. QED
    BY <1>4, <1>5, <2>1, <2>3 DEF Auditing, AnswerInv, PendingAnswers
<1>6. QED
  BY <1>2, <1>3, <1>4, <1>5

\* The rows about decisions say what the table says, at most once each.
LEMMA MatchStep == LockInv /\ AnswerInv /\ AuditInv /\ [Next]_vars => AuditMatchesLoan'
<1> SUFFICES ASSUME LockInv, AnswerInv, AuditInv, [Next]_vars PROVE AuditMatchesLoan'
  OBVIOUS
<1>1. ASSUME auditLog' = auditLog PROVE AuditMatchesLoan'
  <2>1. DecidedRowKept
    BY KeepStep
  <2>2. \A l \in LoanIds : DecisionRows(l)' = DecisionRows(l)
    BY <1>1 DEF DecisionRows
  <2>3. ASSUME NEW l \in LoanIds, NEW i \in DecisionRows(l) PROVE loans'[l] = loans[l]
    BY <2>1, <2>3 DEF AuditInv, AuditMatchesLoan, DecidedRowKept, DecisionRows
  <2>4. QED
    BY <1>1, <2>2, <2>3 DEF AuditInv, AuditMatchesLoan
<1>2. ASSUME NEW w \in Workers, AuditWrite(w) PROVE AuditMatchesLoan'
  <2>1. PICK e \in LoanIds \cup {NoLoan}, r \in AuditRow :
              /\ auditLog' = [auditLog EXCEPT ![e] = Append(auditLog[e], r)]
              /\ e \in LoanIds /\ r.action \in Decisions =>
                    /\ Auditing(w) /\ req[w].loan = e
                    /\ r.action = loans[e].status /\ r.user = loans[e].manager
    BY <1>2, WriteFacts
  <2>2. auditLog \in [LoanIds \cup {NoLoan} -> Seq(AuditRow)] /\ loans' = loans
    BY <1>2 DEF LockInv, TypeOK, TablesOK, AuditWrite
  <2>3. \A l \in LoanIds : l # e => auditLog'[l] = auditLog[l]
    BY <2>1, <2>2
  <2>4. /\ auditLog'[e] = Append(auditLog[e], r) /\ auditLog[e] \in Seq(AuditRow)
        /\ DOMAIN auditLog'[e] = DOMAIN auditLog[e] \cup {Len(auditLog[e]) + 1}
        /\ auditLog'[e][Len(auditLog[e]) + 1] = r
        /\ \A i \in DOMAIN auditLog[e] : auditLog'[e][i] = auditLog[e][i]
    BY <2>1, <2>2, Appended
  <2>5. PICK n : n = Len(auditLog[e]) + 1
    OBVIOUS
  <2>6. ASSUME NEW l \in LoanIds
        PROVE  /\ \A i \in DecisionRows(l)' :
                     auditLog'[l][i].action = loans[l].status /\ auditLog'[l][i].user = loans[l].manager
               /\ \A i, j \in DecisionRows(l)' : i = j
    <3>0. DecisionRows(l)' = {i \in DOMAIN auditLog'[l] : auditLog'[l][i].action \in Decisions}
      BY DEF DecisionRows
    <3>1. CASE l # e
      BY <2>3, <3>0, <3>1 DEF AuditInv, AuditMatchesLoan, DecisionRows
    <3>2. CASE l = e /\ r.action \notin Decisions
      <4>1. DecisionRows(l)' = DecisionRows(l)
        BY <2>4, <3>0, <3>2 DEF DecisionRows
      <4>2. \A i \in DecisionRows(l) : auditLog'[l][i] = auditLog[l][i]
        BY <2>4, <3>2 DEF DecisionRows
      <4>3. QED
        BY <4>1, <4>2 DEF AuditInv, AuditMatchesLoan
    <3>3. CASE l = e /\ r.action \in Decisions
      <4>1. DecisionRows(l) = {}
        BY <2>1, <3>3 DEF AuditInv, PendingAudit
      <4>2. DecisionRows(l)' \subseteq {n}
        BY <2>4, <2>5, <3>0, <3>3, <4>1 DEF DecisionRows
      <4>3. QED
        BY <2>1, <2>4, <2>5, <3>3, <4>2
    <3>4. QED
      BY <3>1, <3>2, <3>3
  <2>7. QED
    BY <2>2, <2>6 DEF AuditMatchesLoan
<1>3. QED
  BY <1>1, <1>2, AuditGrows

\* Only the thread that has just committed a decision has yet to audit it.
LEMMA PendingStep == LockInv /\ AnswerInv /\ AuditInv /\ [Next]_vars => PendingAudit'
<1> SUFFICES ASSUME LockInv, AnswerInv, AuditInv, [Next]_vars PROVE PendingAudit'
  OBVIOUS
<1> USE DEF LockInv, TypeOK, HandlersOK
<1>0. \A v \in Workers : Auditing(v) =>
          req[v].loan \in LoanIds /\ loans[req[v].loan].status \in Decisions
  <2>1. ASSUME NEW v \in Workers, Auditing(v)
        PROVE  req[v] \in Requests /\ req[v].op = "decide" /\ pc[v] = "audit"
    BY <2>1 DEF Auditing, HandlerShape
  <2>2. QED
    BY <2>1, RequestFields DEF AnswerInv, PendingAnswers
\* Threads that do not move, while no decision is audited.
<1>1. ASSUME NEW w \in Workers, auditLog' = auditLog, ~Auditing(w)',
             \A v \in Workers \ {w} : pc'[v] = pc[v] /\ req'[v] = req[v] /\ local'[v] = local[v]
      PROVE  PendingAudit'
  <2>1. \A v \in Workers : Auditing(v)' =>
            v # w /\ Auditing(v) /\ req'[v] = req[v] /\ local'[v] = local[v]
    BY <1>1 DEF Auditing
  <2>2. ASSUME NEW v \in Workers, Auditing(v)' PROVE DecisionRows(req[v].loan)' = {}
    <3>1. DecisionRows(req[v].loan) = {}
      BY <2>1, <2>2 DEF AuditInv, PendingAudit
    <3>2. QED
      BY <1>1, <2>1, <2>2, <3>1 DEF DecisionRows
  <2>3. ASSUME NEW v \in Workers, Auditing(v)'
        PROVE  /\ \A e \in LoanIds : local'[v][e] # NoRow => e = req'[v].loan
               /\ \A u \in Workers : (Auditing(u)' /\ req'[u].loan = req'[v].loan) => u = v
    BY <2>1, <2>3 DEF AuditInv, PendingAudit
  <2>4. QED
    BY <2>2, <2>3 DEF PendingAudit
<1>2. ASSUME NEW w \in Workers,
             \/ Begin(w) \/ ApplyForbidden(w) \/ ApplyCreate(w) \/ DecideForbidden(w)
             \/ DecideMissing(w) \/ DecideLock(w) \/ DecideConflict(w)
             \/ Get(w) \/ List(w) \/ Export(w) \/ ExportStream(w) \/ AuditSwallowed(w)
             \/ Answer(w) \/ StatementFails(w)
      PROVE  PendingAudit'
  <2>1. auditLog' = auditLog
    BY <1>2 DEF Begin, ApplyForbidden, ApplyCreate, DecideForbidden, DecideMissing, DecideLock,
      DecideConflict, Get, List, Export, ExportStream, Answer, AuditSwallowed,
      StatementFails, tables
  <2>2. pc'[w] # "audit" \/ req'[w].op # "decide"
    <3>1. CASE StatementFails(w)
      BY <3>1, FailedFacts DEF StatementFails, Reply
    <3>2. CASE ~StatementFails(w)
      BY <1>2, <3>2, RequestFields DEF Begin, ApplyForbidden, ApplyCreate, DecideForbidden,
        DecideMissing, DecideLock, DecideConflict, Get, List, Export, ExportStream, Answer,
        AuditSwallowed, Reply, Goto, AfterAudit, HandlerShape
    <3>3. QED
      BY <3>1, <3>2
  <2>3. \A v \in Workers \ {w} : pc'[v] = pc[v] /\ req'[v] = req[v] /\ local'[v] = local[v]
    BY <1>2, OthersStay DEF Proceed
  <2>4. QED
    BY <1>1, <2>1, <2>2, <2>3 DEF Auditing
<1>3. ASSUME NEW w \in Workers, DecideCommit(w) PROVE PendingAudit'
  <2>1. PICK l \in LoanIds, row \in Row :
            /\ l = req[w].loan /\ loans[l].status = "PENDING" /\ auditLog' = auditLog
            /\ pc[w] = "holding" /\ Goto(w, "audit", Only(l, row))
    <3>1. /\ req[w].loan \in LoanIds /\ pc[w] = "holding"
          /\ loans[req[w].loan].status = "PENDING" /\ auditLog' = auditLog
          /\ Goto(w, "audit", Only(req[w].loan, [local[w][req[w].loan] EXCEPT
                      !.status = req[w].status, !.manager = req[w].user]))
      BY <1>3, RequestFields DEF DecideCommit, HandlerShape, LockHolders
    <3>2. [local[w][req[w].loan] EXCEPT !.status = req[w].status, !.manager = req[w].user] \in Row
      <4>1. /\ req[w].status \in Decisions /\ req[w].user \in Users
            /\ local[w][req[w].loan] \in Row /\ local[w][req[w].loan].status = "PENDING"
        BY <1>3, <3>1, RequestFields DEF HandlerShape, LockHolders, Table
      <4>2. local[w][req[w].loan] \in Row \ {NoRow}
        BY <4>1 DEF NoRow
      <4>3. QED
        BY <4>1, <4>2 DEF Row
    <3>3. QED
      BY <3>1, <3>2
  <2>2. DecisionRows(l) = {}
    BY <2>1 DEF AuditInv, AuditMatchesLoan, DecisionRows, Decisions
  <2>3. \A v \in Workers : Auditing(v) => req[v].loan # l
    BY <1>0, <2>1 DEF Decisions
  <2>4. /\ req' = req /\ \A v \in Workers \ {w} : pc'[v] = pc[v] /\ local'[v] = local[v]
        /\ local'[w] = Only(l, row)
    BY <2>1 DEF Goto
  <2>5. \A e \in LoanIds : Only(l, row)[e] # NoRow => e = l
    BY <2>1 DEF Only, NoRows
  <2>6. \A v \in Workers : Auditing(v)' =>
            v = w \/ (v # w /\ Auditing(v) /\ req'[v] = req[v] /\ local'[v] = local[v])
    BY <2>4 DEF Auditing
  <2>7. ASSUME NEW v \in Workers, Auditing(v)' PROVE DecisionRows(req[v].loan)' = {}
    <3>1. DecisionRows(req[v].loan) = {}
      BY <2>1, <2>2, <2>6, <2>7 DEF AuditInv, PendingAudit
    <3>2. QED
      BY <2>1, <2>4, <3>1 DEF DecisionRows
  <2>8. ASSUME NEW v \in Workers, Auditing(v)'
        PROVE  /\ \A e \in LoanIds : local'[v][e] # NoRow => e = req'[v].loan
               /\ \A u \in Workers : (Auditing(u)' /\ req'[u].loan = req'[v].loan) => u = v
    BY <2>1, <2>3, <2>4, <2>5, <2>6, <2>8 DEF AuditInv, PendingAudit
  <2>9. QED
    BY <2>7, <2>8 DEF PendingAudit
<1>4. ASSUME NEW w \in Workers, AuditWrite(w) PROVE PendingAudit'
  <2>1. PICK e \in LoanIds \cup {NoLoan}, r \in AuditRow :
              /\ auditLog' = [auditLog EXCEPT ![e] = Append(auditLog[e], r)]
              /\ e \in LoanIds /\ r.action \in Decisions =>
                    /\ Auditing(w) /\ req[w].loan = e
                    /\ r.action = loans[e].status /\ r.user = loans[e].manager
    BY <1>4, WriteFacts
  <2>2. /\ req' = req /\ local' = local /\ pc'[w] # "audit"
        /\ \A v \in Workers \ {w} : pc'[v] = pc[v]
    BY <1>4 DEF AuditWrite, AfterAudit
  <2>3. \A v \in Workers : Auditing(v)' => v # w /\ Auditing(v)
    BY <2>2 DEF Auditing
  <2>4. ASSUME NEW v \in Workers, Auditing(v)' PROVE DecisionRows(req[v].loan)' = {}
    <3>1. v # w /\ Auditing(v) /\ req[v].loan \in LoanIds /\ DecisionRows(req[v].loan) = {}
      BY <2>3, <2>4, <1>0 DEF AuditInv, PendingAudit
    <3>2. /\ auditLog[req[v].loan] \in Seq(AuditRow)
          /\ auditLog'[req[v].loan] = auditLog[req[v].loan]
             \/ (e = req[v].loan /\ auditLog'[e] = Append(auditLog[e], r))
      BY <2>1, <3>1 DEF TablesOK
    <3>3. CASE auditLog'[req[v].loan] = auditLog[req[v].loan]
      BY <2>2, <3>1, <3>3 DEF DecisionRows
    <3>4. CASE e = req[v].loan /\ auditLog'[e] = Append(auditLog[e], r)
      <4>1. r.action \notin Decisions
        BY <2>1, <3>1, <3>4 DEF AuditInv, PendingAudit
      <4>2. /\ DOMAIN auditLog'[e] = DOMAIN auditLog[e] \cup {Len(auditLog[e]) + 1}
            /\ auditLog'[e][Len(auditLog[e]) + 1] = r
            /\ \A i \in DOMAIN auditLog[e] : auditLog'[e][i] = auditLog[e][i]
        BY <3>2, <3>4, Appended
      <4>3. QED
        BY <2>2, <3>1, <3>4, <4>1, <4>2 DEF DecisionRows
    <3>5. QED
      BY <3>2, <3>3, <3>4
  <2>5. QED
    BY <2>2, <2>3, <2>4 DEF AuditInv, PendingAudit
<1>5. CASE Crash
  BY <1>5 DEF Crash, PendingAudit, Auditing
<1>6. CASE UNCHANGED vars
  <2>1. \A k : DecisionRows(k)' = DecisionRows(k)
    BY <1>6 DEF vars, DecisionRows
  <2>2. QED
    BY <1>6, <2>1 DEF vars, AuditInv, PendingAudit, Auditing
<1>7. QED
  BY <1>2, <1>3, <1>4, <1>5, <1>6 DEF Next, Serve, Proceed, Quiescent

-----------------------------------------------------------------------------
HistoryInv == ReadInv /\ OwnInv /\ AuditInv

LEMMA HistoryInit == Init => HistoryInv
BY DEF Init, HistoryInv, ReadInv, KnownDecided, PendingReads, AnsweredReads, OwnInv, PendingOwn,
       ClientsSeeOwn, AuditInv, PendingAudit, Auditing, AuditMatchesLoan, DecisionRows

LEMMA HistoryInvariant == Spec => [](LockInv /\ AnswerInv /\ HistoryInv)
<1>1. Init => LockInv /\ AnswerInv /\ HistoryInv
  BY InitInv, HistoryInit
<1>2. LockInv /\ AnswerInv /\ HistoryInv /\ [Next]_vars => AnswerInv' /\ HistoryInv'
  BY AnswerStep, ReadStep, OwnStep, MatchStep, PendingStep DEF HistoryInv, AuditInv
<1>3. QED
  BY <1>1, <1>2, LockInvariant, PTL DEF Spec

\* A read that began after a decision was answered shows that decision
\* (get_loan, list_loans, export_loans_csv).
THEOREM ReadsAreCurrent == Spec => []ReadsSeeDecisions
<1>1. ReadInv => ReadsSeeDecisions
  BY DEF ReadInv, AnsweredReads, ReadsSeeDecisions, NoRow, Decisions
<1>2. QED
  BY <1>1, HistoryInvariant, PTL DEF HistoryInv

\* Clients are shown their own applications and no sign of the others.
THEOREM ReadsAreOwn == Spec => []ClientsSeeOwn
BY HistoryInvariant, PTL DEF HistoryInv, OwnInv

\* The audit log never names another decision than the one that stands, and
\* names that at most once (log_action after the commit of make_decision).
THEOREM AuditAgrees == Spec => []AuditMatchesLoan
BY HistoryInvariant, PTL DEF HistoryInv, AuditInv
=============================================================================
