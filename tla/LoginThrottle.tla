---------------------------- MODULE LoginThrottle ----------------------------
(***************************************************************************)
(* The failure counters of auth_app/services.py and the login endpoint that *)
(* uses them, on concurrent threads over PostgreSQL.  There is one account: *)
(* the rows of two accounts have different scope keys and never meet.       *)
(*                                                                         *)
(* A step is one statement.  register_login_failure is a transaction: it    *)
(* locks or inserts the row of the e-mail address, then that of the address *)
(* together with the IP, and commits both.  reset_login_failures is one     *)
(* DELETE, which locks the rows it found in the order of its scan.          *)
(***************************************************************************)
EXTENDS Naturals, Sequences, FiniteSets

CONSTANTS Addresses,                       \* the clients' IP addresses
          Workers, None,                   \* None: no row, no worker
          MaxFailures, Window, Block,      \* MAX_LOGIN_FAILURES, LOGIN_WINDOW, LOGIN_BLOCK_DURATION
          MaxTime, MaxRequests,            \* bounds: clock, requests
          MaxCrashes, MaxFaults            \* bounds: server crashes, failed statements

ASSUME Limits ==
    /\ MaxFailures \in Nat \ {0, 1}        \* create() never blocks: one failure is not enough
    /\ Window \in Nat /\ Block \in Nat \ {0}
ASSUME Threads == Workers # {} /\ IsFiniteSet(Workers)
ASSUME BoundsAreNat ==
    /\ MaxTime \in Nat /\ MaxRequests \in Nat
    /\ MaxCrashes \in Nat /\ MaxFaults \in Nat

Email == "email"                           \* the scope key without an address
Scopes == {Email} \cup Addresses
Row == [count : Nat, first : Nat, blockedUntil : Nat]

ASSUME NoneIsNothing == None \notin Row /\ None \notin Workers /\ Email \notin Addresses

VARIABLES
    now,       \* the clock
    rows,      \* table login_throttles: scope -> row or None
    lockedBy,  \* the transaction that holds the row, or inserts it
    pc, req, code,
    since,     \* the variable "now" of register_login_failure
    scope,     \* the scope that its loop is at
    draft,     \* rows written and not yet committed
    targets,   \* rows that a DELETE has found
    failed,    \* history: times of the failures answered 401 since the row was deleted
    late,      \* history: failures that met an e-mail scope already blocked
    accepted, crashes, faults              \* counters for the bounds

transaction == <<lockedBy, since, scope, draft, targets>>
history == <<failed, late>>
counters == <<accepted, crashes, faults>>
vars == <<now, rows, lockedBy, pc, req, code, since, scope, draft, targets, failed, late,
          accepted, crashes, faults>>

Requests == [ip : Addresses, right : BOOLEAN]
Steps == {"idle", "check", "verify", "select", "insert", "commit", "reset", "deleting", "answer"}

\* The test of is_login_blocked on one row.
BlockedAt(row, t) == row # None /\ row.blockedUntil > t
Keys(r) == {Email, r.ip}                   \* _scope_targets

\* The row that create() inserts.  NULL for blocked_until is 0: never later than now.
Fresh(t) == [count |-> 1, first |-> t, blockedUntil |-> 0]

\* _update_failure_record outside a block.
Counted(row, t) ==
    LET restart == row.first + Window < t
        n == (IF restart THEN 0 ELSE row.count) + 1
    IN [count |-> n,
        first |-> IF restart THEN t ELSE row.first,
        blockedUntil |-> IF n >= MaxFailures THEN t + Block
                         ELSE IF restart THEN 0 ELSE row.blockedUntil]

Updated(row, t) == IF row.blockedUntil > t THEN row ELSE Counted(row, t)

NoDraft == [k \in Scopes |-> None]

-----------------------------------------------------------------------------
Init ==
    /\ now = 0
    /\ rows = NoDraft
    /\ lockedBy = NoDraft
    /\ pc = [w \in Workers |-> "idle"]
    /\ req = [w \in Workers |-> None]
    /\ code = [w \in Workers |-> 0]
    /\ since = [w \in Workers |-> 0]
    /\ scope = [w \in Workers |-> Email]
    /\ draft = [w \in Workers |-> NoDraft]
    /\ targets = [w \in Workers |-> {}]
    /\ failed = [k \in Scopes |-> <<>>]
    /\ late = 0
    /\ accepted = 0 /\ crashes = 0 /\ faults = 0

Goto(w, step) == pc' = [pc EXCEPT ![w] = step] /\ UNCHANGED <<req, code>>

\* The transaction of w is over, committed or not.
EndTransaction(w) ==
    /\ lockedBy' = [k \in Scopes |-> IF lockedBy[k] = w THEN None ELSE lockedBy[k]]
    /\ since' = [since EXCEPT ![w] = 0]
    /\ scope' = [scope EXCEPT ![w] = Email]
    /\ draft' = [draft EXCEPT ![w] = NoDraft]
    /\ targets' = [targets EXCEPT ![w] = {}]

Reply(w, c) ==
    /\ pc' = [pc EXCEPT ![w] = "answer"]
    /\ code' = [code EXCEPT ![w] = c]
    /\ EndTransaction(w)
    /\ UNCHANGED req

Begin(w) ==
    /\ pc[w] = "idle"
    /\ accepted < MaxRequests
    /\ \E r \in Requests : req' = [req EXCEPT ![w] = r]
    /\ pc' = [pc EXCEPT ![w] = "check"]
    /\ accepted' = accepted + 1
    /\ UNCHANGED <<now, rows, transaction, code, history, crashes, faults>>

\* Variant: is_login_blocked asks for the row with the address only.
CheckAddressOnly(w) ==
    /\ pc[w] = "check"
    /\ IF BlockedAt(rows[req[w].ip], now)
       THEN Reply(w, 429)
       ELSE Goto(w, "verify") /\ UNCHANGED transaction
    /\ UNCHANGED <<now, rows, history, counters>>

\* is_login_blocked
Check(w) ==
    /\ pc[w] = "check"
    /\ IF \E k \in Keys(req[w]) : BlockedAt(rows[k], now)
       THEN Reply(w, 429)
       ELSE Goto(w, "verify") /\ UNCHANGED transaction
    /\ UNCHANGED <<now, rows, history, counters>>

\* The user is looked up and the password verified; a wrong one begins the
\* transaction of register_login_failure, which reads the clock once.
Verify(w) ==
    /\ pc[w] = "verify"
    /\ IF req[w].right
       THEN Goto(w, "reset") /\ UNCHANGED since
       ELSE Goto(w, "select") /\ since' = [since EXCEPT ![w] = now]
    /\ UNCHANGED <<now, rows, lockedBy, scope, draft, targets, history, counters>>

-----------------------------------------------------------------------------
\* register_login_failure

\* Variant: the loop ends with its first scope.
HoldFirst(w, row) ==
    /\ lockedBy' = [lockedBy EXCEPT ![scope[w]] = w]
    /\ draft' = [draft EXCEPT ![w][scope[w]] = row]
    /\ Goto(w, "commit")
    /\ UNCHANGED <<now, rows, since, scope, targets, history, counters>>

\* The row of the current scope is w's: the loop goes on, or ends.
Hold(w, row) ==
    LET k == scope[w] IN
    /\ lockedBy' = [lockedBy EXCEPT ![k] = w]
    /\ draft' = [draft EXCEPT ![w][k] = row]
    /\ scope' = [scope EXCEPT ![w] = req[w].ip]
    /\ Goto(w, IF k = Email THEN "select" ELSE "commit")
    /\ UNCHANGED <<now, rows, since, targets, history, counters>>

\* Variant: the row is read without FOR UPDATE, and an UPDATE waits for no one.
SelectUnlocked(w) ==
    /\ pc[w] = "select"
    /\ LET k == scope[w] IN
       \/ /\ rows[k] = None
          /\ Goto(w, "insert")
          /\ UNCHANGED <<now, rows, transaction, history, counters>>
       \/ /\ rows[k] # None
          /\ Hold(w, Updated(rows[k], since[w]))

\* SELECT FOR UPDATE sees no uncommitted insert, and waits for a row in use.  It
\* reads the row when the wait ends; deleted rows are not found then.
Select(w) ==
    /\ pc[w] = "select"
    /\ LET k == scope[w] IN
       \/ /\ rows[k] = None
          /\ Goto(w, "insert")
          /\ UNCHANGED <<now, rows, transaction, history, counters>>
       \/ /\ rows[k] # None /\ lockedBy[k] = None
          /\ Hold(w, Updated(rows[k], since[w]))

\* Variant: a duplicate key is tried again.
InsertRetrying(w) ==
    /\ pc[w] = "insert"
    /\ LET k == scope[w] IN
       /\ lockedBy[k] = None
       /\ rows[k] = None
       /\ Hold(w, Fresh(since[w]))

\* INSERT waits for the transaction that inserts, changes or deletes the key.  If
\* there is a row then, the key is a duplicate: IntegrityError and roll back.
Insert(w) ==
    /\ pc[w] = "insert"
    /\ LET k == scope[w] IN
       /\ lockedBy[k] = None
       /\ \/ /\ rows[k] # None
             /\ Reply(w, 500)
             /\ UNCHANGED <<now, rows, history, counters>>
          \/ /\ rows[k] = None
             /\ Hold(w, Fresh(since[w]))

\* Both rows become visible together; the answer is 401.
Commit(w) ==
    /\ pc[w] = "commit"
    /\ rows' = [k \in Scopes |-> IF k \in Keys(req[w]) THEN draft[w][k] ELSE rows[k]]
    /\ failed' = [k \in Scopes |-> IF k \in Keys(req[w]) THEN Append(failed[k], since[w])
                                                         ELSE failed[k]]
    /\ late' = IF BlockedAt(rows[Email], since[w]) THEN late + 1 ELSE 0
    /\ Reply(w, 401)
    /\ UNCHANGED <<now, counters>>

-----------------------------------------------------------------------------
\* reset_login_failures, then the tokens are signed

ResetScan(w) ==
    /\ pc[w] = "reset"
    /\ targets' = [targets EXCEPT ![w] = {k \in Keys(req[w]) : rows[k] # None}]
    /\ Goto(w, "deleting")
    /\ UNCHANGED <<now, rows, lockedBy, since, scope, draft, history, counters>>

\* The next row of the scan is locked.
ResetLock(w) ==
    /\ pc[w] = "deleting"
    /\ \E k \in targets[w] :
          /\ lockedBy[k] = None
          /\ lockedBy' = [lockedBy EXCEPT ![k] = w]
    /\ UNCHANGED <<now, rows, pc, req, code, since, scope, draft, targets, history, counters>>

\* The rows are gone, also for other scans that found them.
ResetCommit(w) ==
    /\ pc[w] = "deleting"
    /\ \A k \in targets[w] : lockedBy[k] = w
    /\ rows' = [k \in Scopes |-> IF k \in targets[w] THEN None ELSE rows[k]]
    /\ failed' = [k \in Scopes |-> IF k \in targets[w] THEN <<>> ELSE failed[k]]
    /\ late' = IF Email \in targets[w] THEN 0 ELSE late
    /\ pc' = [pc EXCEPT ![w] = "answer"]
    /\ code' = [code EXCEPT ![w] = 200]
    /\ lockedBy' = [k \in Scopes |-> IF lockedBy[k] = w THEN None ELSE lockedBy[k]]
    /\ targets' = [v \in Workers |-> IF v = w THEN {} ELSE targets[v] \ targets[w]]
    /\ UNCHANGED <<now, req, since, scope, draft, counters>>

-----------------------------------------------------------------------------
\* Whose transaction w waits for.
WaitsFor(w) ==
    {lockedBy[k] : k \in IF pc[w] = "deleting" THEN targets[w]
                         ELSE IF pc[w] = "select" THEN {k \in {scope[w]} : rows[k] # None}
                         ELSE IF pc[w] = "insert" THEN {scope[w]} ELSE {}} \ {w, None}

\* PostgreSQL breaks a deadlock by aborting one transaction of the circle.
DeadlockDetected(w) ==
    /\ \E v \in WaitsFor(w) : w \in WaitsFor(v)
    /\ Reply(w, 500)
    /\ UNCHANGED <<now, rows, history, counters>>

Answer(w) ==
    /\ pc[w] = "answer"
    /\ pc' = [pc EXCEPT ![w] = "idle"]
    /\ req' = [req EXCEPT ![w] = None]
    /\ code' = [code EXCEPT ![w] = 0]
    /\ UNCHANGED <<now, rows, transaction, history, counters>>

\* A statement raises and its transaction is rolled back.
StatementFails(w) ==
    /\ pc[w] \notin {"idle", "answer"}
    /\ faults < MaxFaults
    /\ faults' = faults + 1
    /\ Reply(w, 500)
    /\ UNCHANGED <<now, rows, history, accepted, crashes>>

\* The server dies and is started again; the database rolls back.
Crash ==
    /\ crashes < MaxCrashes
    /\ crashes' = crashes + 1
    /\ lockedBy' = NoDraft
    /\ pc' = [w \in Workers |-> "idle"]
    /\ req' = [w \in Workers |-> None]
    /\ code' = [w \in Workers |-> 0]
    /\ since' = [w \in Workers |-> 0]
    /\ scope' = [w \in Workers |-> Email]
    /\ draft' = [w \in Workers |-> NoDraft]
    /\ targets' = [w \in Workers |-> {}]
    /\ UNCHANGED <<now, rows, history, accepted, faults>>

Tick ==
    /\ now < MaxTime
    /\ now' = now + 1
    /\ UNCHANGED <<rows, transaction, pc, req, code, history, counters>>

Quiescent ==
    /\ \A w \in Workers : pc[w] = "idle"
    /\ UNCHANGED vars

Proceed(w) ==
    \/ Check(w) \/ Verify(w)
    \/ Select(w) \/ Insert(w) \/ Commit(w)
    \/ ResetScan(w) \/ ResetLock(w) \/ ResetCommit(w)
    \/ DeadlockDetected(w)
    \/ Answer(w)

Next ==
    \/ \E w \in Workers : Begin(w) \/ Proceed(w) \/ StatementFails(w)
    \/ Crash \/ Tick \/ Quiescent

Spec == Init /\ [][Next]_vars

\* Running threads make progress, and so does PostgreSQL's deadlock detector.
FairSpec == Spec /\ \A w \in Workers : WF_vars(Proceed(w))

-----------------------------------------------------------------------------
TablesOK ==
    /\ now \in 0..MaxTime
    /\ rows \in [Scopes -> Row \cup {None}]
    /\ lockedBy \in [Scopes -> Workers \cup {None}]

HandlersOK ==
    /\ pc \in [Workers -> Steps]
    /\ req \in [Workers -> Requests \cup {None}]
    /\ code \in [Workers -> {0, 200, 401, 429, 500}]
    /\ since \in [Workers -> 0..MaxTime]
    /\ scope \in [Workers -> Scopes]
    /\ draft \in [Workers -> [Scopes -> Row \cup {None}]]
    /\ targets \in [Workers -> SUBSET Scopes]

HistoryOK ==
    /\ failed \in [Scopes -> Seq(0..MaxTime)]
    /\ late \in Nat
    /\ accepted \in 0..MaxRequests
    /\ crashes \in 0..MaxCrashes
    /\ faults \in 0..MaxFaults

\* Every variable stays within what the handlers know; a commit in particular
\* has a row for both of its scopes.
TypeOK ==
    /\ TablesOK /\ HandlersOK /\ HistoryOK
    /\ \A w \in Workers : pc[w] = "commit" => \A k \in Keys(req[w]) : draft[w][k] # None

\* No failure is lost and none is invented: a row counts at least the failures
\* answered since its window began (or enough of them to block), and at most
\* all that were answered since it was created, however transactions interleave.
InWindow(k) == Cardinality({i \in DOMAIN failed[k] : failed[k][i] >= rows[k].first})
CountsFailures ==
    \A k \in Scopes : rows[k] # None =>
        /\ rows[k].count >= InWindow(k) \/ rows[k].count >= MaxFailures
        /\ rows[k].count <= Len(failed[k])

\* "Repeated failed attempts are rate-limited" (auth_app/api.py:97): a request
\* that looks before the block and fails after it is possible once per thread,
\* whatever addresses the requests come from.
LateFailuresBounded == late < Cardinality(Workers)

\* A block in force is never shortened by a failure with an older clock: it ends
\* with its time, or with a login that succeeded.
BlockKept ==
    \A k \in Scopes : (BlockedAt(rows[k], now) /\ rows'[k] # None) =>
        rows'[k].blockedUntil >= rows[k].blockedUntil
BlocksHold == [][BlockKept]_rows

\* The responses that the endpoint declares (auth_app/api.py:91).
DeclaredResponses == \A w \in Workers : pc[w] = "answer" => code[w] \in {200, 401, 429}

\* Every request is answered or lost in a crash, although a reset may take the
\* rows in the other order than a registration.
EveryRequestEnds == \A w \in Workers : (pc[w] # "idle") ~> (pc[w] = "idle")
=============================================================================
