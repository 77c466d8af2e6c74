-------------------------------- MODULE Loans --------------------------------
(***************************************************************************)
(* apps/loans/api.py on a multi-threaded server over PostgreSQL (READ      *)
(* COMMITTED, autocommit outside transaction.atomic).  Every worker runs   *)
(* one request at a time; a step is one statement against the database,    *)
(* with the local computation around it, so requests interleave exactly    *)
(* where the handlers do.  An uncommitted UPDATE is visible to nobody and  *)
(* is covered by the row lock, hence UPDATE and COMMIT are one step.       *)
(***************************************************************************)
EXTENDS Naturals, Sequences, FiniteSets

CONSTANTS Clients, Managers, Admins,  \* the users of each role
          Workers,                    \* server threads
          Purposes,                   \* the text of an application
          Ops,                        \* the endpoints that requests use
          NoUser, NoPurpose,          \* NULL foreign key, no row at all
          NoWorker,                   \* a row that no transaction holds
          MaxLoans, MaxRequests,      \* bounds: rows, requests accepted
          MaxCrashes, MaxFaults       \* bounds: server crashes, failed statements

Users == Clients \cup Managers \cup Admins

ASSUME RolesDisjoint ==
    /\ Clients \cap Managers = {}
    /\ Clients \cap Admins = {}
    /\ Managers \cap Admins = {}
ASSUME NullsAreNot == NoUser \notin Users /\ NoPurpose \notin Purposes /\ NoWorker \notin Workers
ASSUME BoundsAreNat ==
    /\ MaxLoans \in Nat
    /\ MaxRequests \in Nat
    /\ MaxCrashes \in Nat
    /\ MaxFaults \in Nat

LoanIds == 1..MaxLoans
NoLoan == 0                           \* entity_id=None of an export's audit row
Decisions == {"APPROVED", "REJECTED"}
NoRow == [client |-> NoUser, purpose |-> NoPurpose, status |-> "NONE", manager |-> NoUser]

VARIABLES
    loans,      \* table credit_applications: identifier -> row, NoRow when absent
    lockedBy,   \* the worker whose transaction holds the row (SELECT FOR UPDATE)
    auditLog,   \* table audit_logs: entity_id -> the rows about it, in order
    pc,         \* where each worker is in its handler
    req,        \* the request it serves
    local,      \* the rows its handler has read or written (loan, qs)
    code,       \* the status code it is about to answer
    known,      \* history: loans whose decision had been answered when it began
    answers,    \* history: every answer delivered to a client
    accepted, crashes, faults          \* counters for the bounds

tables == <<loans, lockedBy, auditLog>>
handler == <<pc, req, local, code, known>>
counters == <<accepted, crashes, faults>>
vars == <<loans, lockedBy, auditLog, pc, req, local, code, known, answers,
          accepted, crashes, faults>>

Row == {NoRow} \cup [client : Users, purpose : Purposes,
                      status : Decisions \cup {"PENDING"}, manager : Users \cup {NoUser}]
Table == [LoanIds -> Row]

Requests ==
    [op : {"apply"} \cap Ops, user : Users, purpose : Purposes]
    \cup [op : {"decide"} \cap Ops, user : Users, loan : LoanIds, status : Decisions]
    \cup [op : {"get"} \cap Ops, user : Users, loan : LoanIds]
    \cup [op : {"list", "export"} \cap Ops, user : Users]
NoRequest == [op |-> "none", user |-> NoUser]

AuditRow == [user : Users, action : Decisions \cup {"LOAN_APPLY", "LOAN_EXPORT_CSV"}]

Steps == {"idle", "apply", "decide", "holding", "get", "list", "export",
          "audit", "stream", "answer"}

Codes == {0, 200, 201, 403, 404, 409, 500}

Exists(l) == loans[l] # NoRow
NoRows == [l \in LoanIds |-> NoRow]
Only(l, row) == [NoRows EXCEPT ![l] = row]

Pending(c, p) ==
    [client |-> c, purpose |-> p, status |-> "PENDING", manager |-> NoUser]

\* The queryset of list_loans and export_loans_csv.
Visible(u) == [l \in LoanIds |->
                  IF u \in Managers \/ loans[l].client = u THEN loans[l] ELSE NoRow]

\* Variant: _assert_can_view without the ownership test.
CanViewAnyLoan(u, row) == u \in Managers \cup Clients

\* _assert_can_view, after the row was found.
CanView(u, row) == u \in Managers \/ (u \in Clients /\ row.client = u)

-----------------------------------------------------------------------------
Init ==
    /\ loans = NoRows
    /\ lockedBy = [l \in LoanIds |-> NoWorker]
    /\ auditLog = [l \in LoanIds \cup {NoLoan} |-> <<>>]
    /\ pc = [w \in Workers |-> "idle"]
    /\ req = [w \in Workers |-> NoRequest]
    /\ local = [w \in Workers |-> NoRows]
    /\ code = [w \in Workers |-> 0]
    /\ known = [w \in Workers |-> {}]
    /\ answers = {}
    /\ accepted = 0 /\ crashes = 0 /\ faults = 0

\* The handler has its result: rows to return and a status code.
Reply(w, c, rows) ==
    /\ pc' = [pc EXCEPT ![w] = "answer"]
    /\ code' = [code EXCEPT ![w] = c]
    /\ local' = [local EXCEPT ![w] = rows]
    /\ UNCHANGED <<req, known>>

Goto(w, step, rows) ==
    /\ pc' = [pc EXCEPT ![w] = step]
    /\ local' = [local EXCEPT ![w] = rows]
    /\ UNCHANGED <<req, code, known>>

Release(l) == lockedBy' = [lockedBy EXCEPT ![l] = NoWorker]

AnsweredDecisions ==
    {a.req.loan : a \in {b \in answers : b.req.op = "decide" /\ b.code = 200}}

\* An authenticated request reaches an idle worker.  The table bound counts
\* the rows that applications in progress are about to create.
Begin(w) ==
    /\ pc[w] = "idle"
    /\ accepted < MaxRequests
    /\ \E r \in Requests :
          /\ r.op = "apply" =>
                Cardinality({l \in LoanIds : Exists(l)})
                + Cardinality({v \in Workers : pc[v] = "apply"}) < MaxLoans
          /\ req' = [req EXCEPT ![w] = r]
          /\ pc' = [pc EXCEPT ![w] = r.op]
    /\ local' = [local EXCEPT ![w] = NoRows]
    /\ code' = [code EXCEPT ![w] = 0]
    /\ known' = [known EXCEPT ![w] = AnsweredDecisions]
    /\ accepted' = accepted + 1
    /\ UNCHANGED <<tables, answers, crashes, faults>>

-----------------------------------------------------------------------------
\* apply_loan

ApplyForbidden(w) ==
    /\ pc[w] = "apply"
    /\ req[w].user \notin Clients
    /\ Reply(w, 403, NoRows)
    /\ UNCHANGED <<tables, answers, counters>>

ApplyCreate(w) ==
    /\ pc[w] = "apply"
    /\ req[w].user \in Clients
    /\ \E id \in LoanIds :
          /\ ~Exists(id)
          /\ \A j \in LoanIds : j < id => Exists(j)
          /\ LET row == Pending(req[w].user, req[w].purpose) IN
             /\ loans' = [loans EXCEPT ![id] = row]
             /\ Goto(w, "audit", Only(id, row))
    /\ UNCHANGED <<lockedBy, auditLog, answers, counters>>

-----------------------------------------------------------------------------
\* make_decision

DecideForbidden(w) ==
    /\ pc[w] = "decide"
    /\ req[w].user \notin Managers
    /\ Reply(w, 403, NoRows)
    /\ UNCHANGED <<tables, answers, counters>>

DecideMissing(w) ==
    /\ pc[w] = "decide"
    /\ req[w].user \in Managers
    /\ ~Exists(req[w].loan)
    /\ Reply(w, 404, NoRows)
    /\ UNCHANGED <<tables, answers, counters>>

\* Variant: the loan is read without select_for_update.
DecideReadOnly(w) ==
    /\ pc[w] = "decide"
    /\ req[w].user \in Managers
    /\ Exists(req[w].loan)
    /\ Goto(w, "holding", Only(req[w].loan, loans[req[w].loan]))
    /\ UNCHANGED <<tables, answers, counters>>

\* Variant: get_manager_user is not called.
DecideLockAnyRole(w) ==
    /\ pc[w] = "decide"
    /\ LET l == req[w].loan IN
       /\ Exists(l)
       /\ lockedBy[l] = NoWorker
       /\ lockedBy' = [lockedBy EXCEPT ![l] = w]
       /\ Goto(w, "holding", Only(l, loans[l]))
    /\ UNCHANGED <<loans, auditLog, answers, counters>>

\* SELECT ... FOR UPDATE waits for the row, then reads its committed content.
DecideLock(w) ==
    /\ pc[w] = "decide"
    /\ req[w].user \in Managers
    /\ LET l == req[w].loan IN
       /\ Exists(l)
       /\ lockedBy[l] = NoWorker
       /\ lockedBy' = [lockedBy EXCEPT ![l] = w]
       /\ Goto(w, "holding", Only(l, loans[l]))
    /\ UNCHANGED <<loans, auditLog, answers, counters>>

DecideConflict(w) ==
    /\ pc[w] = "holding"
    /\ LET l == req[w].loan IN
       /\ local[w][l].status # "PENDING"
       /\ Release(l)
    /\ Reply(w, 409, NoRows)
    /\ UNCHANGED <<loans, auditLog, answers, counters>>

\* Variant: the status is not compared with PENDING.
DecideCommitUnchecked(w) ==
    /\ pc[w] = "holding"
    /\ LET l == req[w].loan
           row == [local[w][l] EXCEPT !.status = req[w].status, !.manager = req[w].user]
       IN
       /\ loans' = [loans EXCEPT ![l] = row]
       /\ Release(l)
       /\ Goto(w, "audit", Only(l, row))
    /\ UNCHANGED <<auditLog, answers, counters>>

\* Variant: save(update_fields=[...]) without "status".
DecideCommitNoStatus(w) ==
    /\ pc[w] = "holding"
    /\ LET l == req[w].loan
           row == [local[w][l] EXCEPT !.status = req[w].status, !.manager = req[w].user]
       IN
       /\ local[w][l].status = "PENDING"
       /\ loans' = [loans EXCEPT ![l].manager = row.manager]
       /\ Release(l)
       /\ Goto(w, "audit", Only(l, row))
    /\ UNCHANGED <<auditLog, answers, counters>>

DecideCommit(w) ==
    /\ pc[w] = "holding"
    /\ LET l == req[w].loan
           row == [local[w][l] EXCEPT !.status = req[w].status, !.manager = req[w].user]
       IN
       /\ local[w][l].status = "PENDING"
       /\ loans' = [loans EXCEPT ![l] = row]
       /\ Release(l)
       /\ Goto(w, "audit", Only(l, row))
    /\ UNCHANGED <<auditLog, answers, counters>>

-----------------------------------------------------------------------------
\* get_loan, list_loans, export_loans_csv

Get(w) ==
    /\ pc[w] = "get"
    /\ LET u == req[w].user
           l == req[w].loan
       IN \/ /\ ~Exists(l)
             /\ Reply(w, 404, NoRows)
          \/ /\ Exists(l)
             /\ CanView(u, loans[l])
             /\ Reply(w, 200, Only(l, loans[l]))
          \/ /\ Exists(l)
             /\ ~CanView(u, loans[l])
             /\ Reply(w, IF u \in Clients THEN 404 ELSE 403, NoRows)
    /\ UNCHANGED <<tables, answers, counters>>

List(w) ==
    /\ pc[w] = "list"
    /\ IF req[w].user \in Clients \cup Managers
       THEN Reply(w, 200, Visible(req[w].user))
       ELSE Reply(w, 403, NoRows)
    /\ UNCHANGED <<tables, answers, counters>>

Export(w) ==
    /\ pc[w] = "export"
    /\ IF req[w].user \in Clients \cup Managers
       THEN Goto(w, "audit", NoRows)
       ELSE Reply(w, 403, NoRows)
    /\ UNCHANGED <<tables, answers, counters>>

\* The rows are read while the response is sent, after the audit row.
ExportStream(w) ==
    /\ pc[w] = "stream"
    /\ Reply(w, 200, Visible(req[w].user))
    /\ UNCHANGED <<tables, answers, counters>>

-----------------------------------------------------------------------------
\* log_action: one row about the loan in the handler's hands, or nothing at
\* all when the insert fails; the handler goes on either way.

\* Variant: the audit row carries the name of the endpoint.
AuditActionEndpoint(r) == r.op

AuditAction(r) ==
    CASE r.op = "apply" -> "LOAN_APPLY"
      [] r.op = "decide" -> r.status
      [] OTHER -> "LOAN_EXPORT_CSV"

AuditEntity(w, e) ==
    IF req[w].op = "export" THEN e = NoLoan ELSE e \in LoanIds /\ local[w][e] # NoRow

AfterAudit(w) ==
    /\ pc' = [pc EXCEPT ![w] = IF req[w].op = "export" THEN "stream" ELSE "answer"]
    /\ code' = [code EXCEPT ![w] = IF req[w].op = "apply" THEN 201 ELSE 200]
    /\ UNCHANGED <<req, local, known>>

AuditWrite(w) ==
    /\ pc[w] = "audit"
    /\ \E e \in LoanIds \cup {NoLoan} :
          /\ AuditEntity(w, e)
          /\ auditLog' = [auditLog EXCEPT ![e] =
                Append(@, [user |-> req[w].user, action |-> AuditAction(req[w])])]
    /\ AfterAudit(w)
    /\ UNCHANGED <<loans, lockedBy, answers, counters>>

AuditSwallowed(w) ==
    /\ pc[w] = "audit"
    /\ faults < MaxFaults
    /\ faults' = faults + 1
    /\ AfterAudit(w)
    /\ UNCHANGED <<tables, answers, accepted, crashes>>

-----------------------------------------------------------------------------
\* Answers and failures

Answer(w) ==
    /\ pc[w] = "answer"
    /\ answers' = answers \cup
          {[req |-> req[w], code |-> code[w], rows |-> local[w], known |-> known[w]]}
    /\ pc' = [pc EXCEPT ![w] = "idle"]
    /\ req' = [req EXCEPT ![w] = NoRequest]
    /\ local' = [local EXCEPT ![w] = NoRows]
    /\ code' = [code EXCEPT ![w] = 0]
    /\ known' = [known EXCEPT ![w] = {}]
    /\ UNCHANGED <<tables, counters>>

\* The result is turned into a response: client_email reads the client of each row.
Serialising(w) ==
    /\ pc[w] = "answer" /\ code[w] = 200
    /\ req[w].op \in {"decide", "get", "list"} /\ local[w] # NoRows

\* The rows with lower numbers than n, which the export writes first.
FirstRows(rows, n) == [l \in LoanIds |-> IF l < n THEN rows[l] ELSE NoRow]

\* What the client is sent when a statement raises: 500, or an export that ends
\* early, since its status went out before the rows were read.
FailedReply(w) ==
    \/ /\ pc[w] \in {"apply", "decide", "holding", "get", "list"} \/ Serialising(w)
       /\ Reply(w, 500, NoRows)
    \/ /\ pc[w] = "stream"
       /\ \E n \in LoanIds : Reply(w, 200, FirstRows(Visible(req[w].user), n))

\* Variant: the transaction of a failed request is not rolled back.
StatementFailsOpen(w) ==
    /\ faults < MaxFaults
    /\ faults' = faults + 1
    /\ FailedReply(w)
    /\ UNCHANGED <<tables, answers, accepted, crashes>>

\* A statement raises: the transaction, if any, is rolled back.
StatementFails(w) ==
    /\ faults < MaxFaults
    /\ faults' = faults + 1
    /\ lockedBy' = [l \in LoanIds |-> IF lockedBy[l] = w THEN NoWorker ELSE lockedBy[l]]
    /\ FailedReply(w)
    /\ UNCHANGED <<loans, auditLog, answers, accepted, crashes>>

\* The server process dies and is started again: requests in progress are
\* gone, their transactions are rolled back, committed rows stay.
Crash ==
    /\ crashes < MaxCrashes
    /\ crashes' = crashes + 1
    /\ lockedBy' = [l \in LoanIds |-> NoWorker]
    /\ pc' = [w \in Workers |-> "idle"]
    /\ req' = [w \in Workers |-> NoRequest]
    /\ local' = [w \in Workers |-> NoRows]
    /\ code' = [w \in Workers |-> 0]
    /\ known' = [w \in Workers |-> {}]
    /\ UNCHANGED <<loans, auditLog, answers, accepted, faults>>

\* Clients may stop sending; the server waits.
Quiescent ==
    /\ \A w \in Workers : pc[w] = "idle"
    /\ UNCHANGED vars

Proceed(w) ==
    \/ ApplyForbidden(w) \/ ApplyCreate(w)
    \/ DecideForbidden(w) \/ DecideMissing(w) \/ DecideConflict(w) \/ DecideCommit(w)
    \/ Get(w) \/ List(w) \/ Export(w) \/ ExportStream(w)
    \/ AuditWrite(w) \/ AuditSwallowed(w) \/ Answer(w)

Serve == \E w \in Workers : Begin(w) \/ DecideLock(w) \/ Proceed(w) \/ StatementFails(w)

Next == Serve \/ Crash \/ Quiescent

Spec == Init /\ [][Next]_vars

\* Running threads make progress; PostgreSQL queues the waiters of a row, so
\* one that waits is granted the lock although others take it meanwhile.
FairSpec == Spec /\ \A w \in Workers : WF_vars(Proceed(w)) /\ SF_vars(DecideLock(w))

-----------------------------------------------------------------------------
\* Properties

TablesOK ==
    /\ loans \in Table
    /\ lockedBy \in [LoanIds -> Workers \cup {NoWorker}]
    /\ auditLog \in [LoanIds \cup {NoLoan} -> Seq(AuditRow)]

HandlersOK ==
    /\ pc \in [Workers -> Steps]
    /\ req \in [Workers -> Requests \cup {NoRequest}]
    /\ local \in [Workers -> Table]
    /\ code \in [Workers -> Codes]
    /\ known \in [Workers -> SUBSET LoanIds]

CountersOK ==
    /\ accepted \in 0..MaxRequests
    /\ crashes \in 0..MaxCrashes
    /\ faults \in 0..MaxFaults

AnswersOK == answers \subseteq [req : Requests, code : Codes, rows : Table, known : SUBSET LoanIds]

\* Every variable stays within the rows, steps and codes of the handlers.
TypeOK == TablesOK /\ HandlersOK /\ CountersOK /\ AnswersOK

IsDecision(a) == a.req.op = "decide"
IsRead(a) == a.req.op \in {"get", "list", "export"}

\* What make_decision told a manager stays true: a 200 names the decision the
\* row holds for ever, so two managers are never both told that theirs was
\* made, and a 409 means that somebody's decision stands.
DecisionAnswersStand ==
    \A a \in answers : IsDecision(a) =>
        LET row == loans[a.req.loan] IN
        /\ a.code = 200 => row.status = a.req.status /\ row.manager = a.req.user
        /\ a.code = 409 => row.status \in Decisions

\* An audit row about a decision names the manager and the status the
\* application ended with, and no application has two of them: the row is
\* written after the commit, from the handler's copy of the loan.
DecisionRows(l) == {i \in DOMAIN auditLog[l] : auditLog[l][i].action \in Decisions}
AuditMatchesLoan ==
    \A l \in LoanIds :
        /\ \A i \in DecisionRows(l) :
              /\ auditLog[l][i].action = loans[l].status
              /\ auditLog[l][i].user = loans[l].manager
        /\ \A i, j \in DecisionRows(l) : i = j

\* A read that began after a decision was answered 200 shows that decision:
\* get_loan, list_loans and the CSV stream never return an older row.
ReadsSeeDecisions ==
    \A a \in answers : (IsRead(a) /\ a.code = 200) =>
        \A l \in a.known : /\ a.rows[l] \in {NoRow, loans[l]}
                           /\ a.rows[l].status # "PENDING"

\* A client is shown only applications of its own, in a list cut short as in a
\* whole one; another client's application is answered like an absent one.
ClientsSeeOwn ==
    \A a \in answers : (IsRead(a) /\ a.req.user \in Clients) =>
        /\ \A l \in LoanIds : a.rows[l] # NoRow => a.rows[l].client = a.req.user
        /\ a.code \in {200, 404, 500}

\* The decision is final: no step changes a row that has been decided.
DecidedRowKept ==
    \A l \in LoanIds : loans[l].status \in Decisions => loans'[l] = loans[l]
FinalDecision == [][DecidedRowKept]_loans

\* The table and the answers behave like the ledger of LoanLedger.
Acknowledged ==
    {[loan |-> a.req.loan, manager |-> a.req.user, status |-> a.req.status] :
        a \in {b \in answers : IsDecision(b) /\ b.code = 200}}
Ledger == INSTANCE LoanLedger WITH ledger <- loans, acknowledged <- Acknowledged
LedgerSpec == Ledger!Spec

\* The description of the endpoint (loans/api.py:191): "The decision is
\* written to the audit log."
DecisionIsAudited ==
    \A a \in answers : (IsDecision(a) /\ a.code = 200) => DecisionRows(a.req.loan) # {}

\* Every accepted request is answered, or lost in a crash: nobody waits for a
\* row for ever, since every path out of the transaction releases it.
EveryRequestEnds == \A w \in Workers : (pc[w] # "idle") ~> (pc[w] = "idle")
=============================================================================
