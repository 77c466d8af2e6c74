------------------------- MODULE LoginThrottleProofs -------------------------
(***************************************************************************)
(* Proofs about LoginThrottle for every number of threads, addresses and   *)
(* limits: typing, the row lock protocol, what the rows count, the bound   *)
(* on late failures, and that every deadlock has two members.              *)
(***************************************************************************)
EXTENDS LoginThrottle, FiniteSetTheorems, TLAPS

Registering(w) == pc[w] \in {"select", "insert", "commit"}

\* A thread is at a step of its request; its loop has written the e-mail row before
\* it comes to the address, and both before it commits.
Shape(w) ==
    /\ pc[w] # "idle" => req[w] \in Requests
    /\ ~Registering(w) => scope[w] = Email
    /\ pc[w] \in {"select", "insert"} =>
          /\ scope[w] \in Keys(req[w])
          /\ \A k \in Scopes : draft[w][k] # None <=> (k = Email /\ scope[w] # Email)
    /\ pc[w] = "commit" => \A k \in Keys(req[w]) : draft[w][k] # None
    /\ Registering(w) => since[w] <= now

\* The row that a failure at t makes of the row it finds.
Registered(row, t) == IF row = None THEN Fresh(t) ELSE Updated(row, t)

\* The row lock protocol: what a transaction has written it has locked, and it still
\* follows from the row in the table; a DELETE has found rows that exist; and nothing
\* else is locked.
Locks(w) ==
    \A k \in Scopes :
        /\ draft[w][k] # None => /\ Registering(w) /\ k \in Keys(req[w])
                                 /\ lockedBy[k] = w
                                 /\ draft[w][k] = Registered(rows[k], since[w])
        /\ k \in targets[w] => pc[w] = "deleting" /\ k \in Keys(req[w]) /\ rows[k] # None
        /\ lockedBy[k] = w => draft[w][k] # None \/ k \in targets[w]

\* The failures of s that are in the window that began at t.
Recent(s, t) == {i \in DOMAIN s : s[i] >= t}

\* What the row of a scope says of the failures answered since it was made.  A blocked
\* row has counted enough; and no failure is later than both the window and the block,
\* which is why a new window may count from one.
Counts(row, s) ==
    IF row = None THEN s = <<>>
    ELSE /\ row.count >= Cardinality(Recent(s, row.first)) \/ row.count >= MaxFailures
         /\ row.count <= Len(s)
         /\ row.blockedUntil > 0 => row.count >= MaxFailures
         /\ \A i \in DOMAIN s : s[i] <= row.first + Window \/ s[i] < row.blockedUntil
CountInv == \A k \in Scopes : Counts(rows[k], failed[k])

\* The threads that looked before the block of the e-mail address, and may fail after it.
MayBeLate(w) ==
    \/ pc[w] = "verify" /\ BlockedAt(rows[Email], now)
    \/ Registering(w) /\ BlockedAt(rows[Email], since[w])
LateThreads == {w \in Workers : MayBeLate(w)}
LateInv == late + Cardinality(LateThreads) < Cardinality(Workers)

Inv == TypeOK /\ \A w \in Workers : Shape(w) /\ Locks(w)

\* Threads that all wait for each other include two that wait for one another: the
\* pair that DeadlockDetected looks for, whatever the number of threads.
CirclesArePairs ==
    \A S \in SUBSET Workers :
        (S # {} /\ \A w \in S : WaitsFor(w) \cap S # {}) =>
            \E w, v \in S : v \in WaitsFor(w) /\ w \in WaitsFor(v)

-----------------------------------------------------------------------------
\* The keys of a request are its address and the e-mail scope.
LEMMA KeyFacts ==
    ASSUME NEW r \in Requests
    PROVE  /\ r.ip \in Addresses /\ r.ip \in Scopes /\ r.ip # Email /\ Email \in Scopes
           /\ Keys(r) \subseteq Scopes /\ Keys(r) = {Email, r.ip}
BY NoneIsNothing DEF Requests, Scopes, Keys

\* What create() and _update_failure_record write is a row.
LEMMA RowsWritten ==
    ASSUME NEW row \in Row \cup {None}, NEW t \in Nat
    PROVE  Fresh(t) \in Row /\ Registered(row, t) \in Row /\ Registered(row, t) # None
<1>1. Fresh(t) \in Row
  BY DEF Fresh, Row
<1>2. ASSUME row # None PROVE Updated(row, t) \in Row
  <2>1. row.count \in Nat /\ row.first \in Nat /\ row.blockedUntil \in Nat
    BY <1>2 DEF Row
  <2>2. Counted(row, t) \in Row
    BY <2>1, Limits DEF Counted, Row
  <2>3. QED
    BY <1>2, <2>2 DEF Updated
<1>3. QED
  BY <1>1, <1>2, NoneIsNothing DEF Registered

\* The first scope of a thread, and no row written, are in range.
LEMMA Defaults == Email \in Scopes /\ NoDraft \in [Scopes -> Row \cup {None}]
BY DEF Scopes, NoDraft

\* A thread that answers ends its transaction and keeps every type.
LEMMA ReplyTyped ==
    ASSUME TypeOK, NEW w \in Workers, NEW c \in {200, 401, 429, 500}, Reply(w, c)
    PROVE  HandlersOK' /\ lockedBy' \in [Scopes -> Workers \cup {None}]
BY Defaults, BoundsAreNat DEF TypeOK, HandlersOK, TablesOK, Reply, EndTransaction, Steps

\* A thread that goes on keeps every type.
LEMMA GotoTyped ==
    ASSUME TypeOK, NEW w \in Workers, NEW step \in Steps, Goto(w, step)
    PROVE  /\ pc' \in [Workers -> Steps] /\ req' \in [Workers -> Requests \cup {None}]
           /\ code' \in [Workers -> {0, 200, 401, 429, 500}]
BY DEF TypeOK, HandlersOK, Goto

\* A row that the loop writes keeps every type.
LEMMA HoldTyped ==
    ASSUME TypeOK, NEW w \in Workers, req[w] \in Requests, NEW row \in Row, Hold(w, row)
    PROVE  TablesOK' /\ HandlersOK' /\ HistoryOK'
<1> USE DEF TypeOK
<1>1. HandlersOK'
  <2>1. "select" \in Steps /\ "commit" \in Steps
    BY DEF Steps
  <2>2. pc' \in [Workers -> Steps] /\ req' \in [Workers -> Requests \cup {None}]
        /\ code' \in [Workers -> {0, 200, 401, 429, 500}]
    BY <2>1, GotoTyped DEF Hold
  <2>3. scope' \in [Workers -> Scopes]
    BY KeyFacts DEF Hold, HandlersOK
  <2>4. draft' \in [Workers -> [Scopes -> Row \cup {None}]]
    BY DEF Hold, HandlersOK
  <2>5. QED
    BY <2>2, <2>3, <2>4 DEF Hold, HandlersOK
<1>2. QED
  BY <1>1 DEF Hold, TablesOK, HistoryOK, history, counters, HandlersOK

\* Typing is preserved by every step of every thread.
LEMMA TypeStep == Inv /\ [Next]_vars => TablesOK' /\ HandlersOK' /\ HistoryOK'
<1> SUFFICES ASSUME Inv, [Next]_vars PROVE TablesOK' /\ HandlersOK' /\ HistoryOK'
  OBVIOUS
<1> DEFINE Goal == TablesOK' /\ HandlersOK' /\ HistoryOK'
<1> USE DEF Inv, TypeOK
<1>0. {"check", "verify", "select", "insert", "commit", "reset", "deleting", "answer"} \subseteq Steps
      /\ "idle" \in Steps
  BY DEF Steps
<1>1. ASSUME NEW w \in Workers, Begin(w) PROVE Goal
  <2>1. HandlersOK'
    BY <1>0, <1>1 DEF Begin, HandlersOK, transaction
  <2>2. QED
    BY <1>1, <2>1, BoundsAreNat DEF Begin, TablesOK, HistoryOK, transaction, history
<1>2. ASSUME NEW w \in Workers, NEW c \in {200, 401, 429, 500}, Reply(w, c),
             UNCHANGED <<now, rows, history, counters>>
      PROVE  Goal
  BY <1>2, ReplyTyped DEF TablesOK, HistoryOK, history, counters
<1>3. ASSUME NEW w \in Workers, NEW step \in Steps, Goto(w, step),
             UNCHANGED <<now, rows, transaction, history, counters>>
      PROVE  Goal
  BY <1>3, GotoTyped DEF TablesOK, HandlersOK, HistoryOK, transaction, history, counters
<1>4. ASSUME NEW w \in Workers, Check(w) PROVE Goal
  BY <1>0, <1>2, <1>3, <1>4 DEF Check
<1>5. ASSUME NEW w \in Workers, Verify(w) PROVE Goal
  <2>1. Goto(w, "reset") \/ Goto(w, "select")
    BY <1>5 DEF Verify
  <2>2. /\ pc' \in [Workers -> Steps] /\ req' \in [Workers -> Requests \cup {None}]
        /\ code' \in [Workers -> {0, 200, 401, 429, 500}]
    BY <1>0, <2>1, GotoTyped
  <2>3. since' \in [Workers -> 0..MaxTime]
    BY <1>5 DEF Verify, TablesOK, HandlersOK
  <2>4. QED
    BY <1>5, <2>2, <2>3 DEF Verify, TablesOK, HandlersOK, HistoryOK, history, counters
<1>6. ASSUME NEW w \in Workers, Select(w) \/ Insert(w) PROVE Goal
  <2>1. req[w] \in Requests /\ scope[w] \in Scopes /\ since[w] \in Nat
    BY <1>6, BoundsAreNat DEF Select, Insert, Shape, HandlersOK
  <2>2. rows[scope[w]] \in Row \cup {None}
    BY <2>1 DEF TablesOK
  <2>3. /\ Fresh(since[w]) \in Row
        /\ rows[scope[w]] # None => Updated(rows[scope[w]], since[w]) \in Row
    BY <2>1, <2>2, RowsWritten DEF Registered
  <2>4. \/ Goto(w, "insert") /\ UNCHANGED <<now, rows, transaction, history, counters>>
        \/ Reply(w, 500) /\ UNCHANGED <<now, rows, history, counters>>
        \/ rows[scope[w]] # None /\ Hold(w, Updated(rows[scope[w]], since[w]))
        \/ Hold(w, Fresh(since[w]))
    BY <1>6 DEF Select, Insert
  <2>5. QED
    BY <1>0, <1>2, <1>3, <2>1, <2>3, <2>4, HoldTyped
<1>7. ASSUME NEW w \in Workers, Commit(w) PROVE Goal
  <2>1. req[w] \in Requests /\ since[w] \in 0..MaxTime
    BY <1>7 DEF Commit, Shape, HandlersOK
  <2>2. HandlersOK' /\ lockedBy' \in [Scopes -> Workers \cup {None}]
    BY <1>7, ReplyTyped DEF Commit
  <2>3. rows' \in [Scopes -> Row \cup {None}]
    BY <1>7 DEF Commit, HandlersOK, TablesOK
  <2>4. failed' \in [Scopes -> Seq(0..MaxTime)]
    <3>1. \A s \in Seq(0..MaxTime) : Append(s, since[w]) \in Seq(0..MaxTime)
      BY <2>1
    <3>2. QED
      BY <1>7, <3>1 DEF Commit, HistoryOK
  <2>5. QED
    BY <1>7, <2>2, <2>3, <2>4 DEF Commit, TablesOK, HistoryOK, counters
<1>8. ASSUME NEW w \in Workers, ResetScan(w) PROVE Goal
  <2>1. targets' \in [Workers -> SUBSET Scopes]
    BY <1>8, KeyFacts DEF ResetScan, Shape, HandlersOK
  <2>2. QED
    BY <1>0, <1>8, <2>1, GotoTyped DEF ResetScan, TablesOK, HandlersOK, HistoryOK, history, counters
<1>9. ASSUME NEW w \in Workers, ResetLock(w) PROVE Goal
  BY <1>9 DEF ResetLock, TablesOK, HandlersOK, HistoryOK, history, counters
<1>10. ASSUME NEW w \in Workers, ResetCommit(w) PROVE Goal
  <2>1. \A S : <<>> \in Seq(S)
    OBVIOUS
  <2>2. TablesOK'
    BY <1>10 DEF ResetCommit, TablesOK
  <2>3. HandlersOK'
    BY <1>0, <1>10 DEF ResetCommit, HandlersOK
  <2>4. failed' \in [Scopes -> Seq(0..MaxTime)]
    BY <1>10, <2>1 DEF ResetCommit, HistoryOK
  <2>5. QED
    BY <1>10, <2>2, <2>3, <2>4 DEF ResetCommit, HistoryOK, counters
<1>11. ASSUME NEW w \in Workers, DeadlockDetected(w) PROVE Goal
  BY <1>2, <1>11 DEF DeadlockDetected
<1>12. ASSUME NEW w \in Workers, Answer(w) PROVE Goal
  BY <1>0, <1>12 DEF Answer, TablesOK, HandlersOK, HistoryOK, transaction, history, counters
<1>13. ASSUME NEW w \in Workers, StatementFails(w) PROVE Goal
  BY <1>13, ReplyTyped, BoundsAreNat DEF StatementFails, TablesOK, HistoryOK, history
<1>14. CASE Crash
  <2>1. HandlersOK'
    BY <1>0, <1>14, Defaults, BoundsAreNat DEF Crash, HandlersOK
  <2>2. QED
    BY <1>14, <2>1, BoundsAreNat DEF Crash, TablesOK, HistoryOK, history, NoDraft
<1>15. CASE Tick
  BY <1>15, BoundsAreNat DEF Tick, TablesOK, HandlersOK, HistoryOK, transaction, history, counters
<1>16. CASE UNCHANGED vars
  BY <1>16 DEF vars, TablesOK, HandlersOK, HistoryOK
<1>17. QED
  BY <1>1, <1>4, <1>5, <1>6, <1>7, <1>8, <1>9, <1>10, <1>11, <1>12, <1>13, <1>14, <1>15, <1>16
     DEF Next, Proceed, Quiescent

-----------------------------------------------------------------------------
ActionOf(w) == Begin(w) \/ Proceed(w) \/ StatementFails(w)

\* What the step of a thread leaves of the others: their handlers, their locks and
\* the rows they have locked; a row that a DELETE removes is no longer a target.
LEMMA OthersStay ==
    ASSUME Inv, NEW w \in Workers, ActionOf(w)
    PROVE  /\ \A v \in Workers \ {w} :
                 /\ pc'[v] = pc[v] /\ req'[v] = req[v] /\ since'[v] = since[v]
                 /\ scope'[v] = scope[v] /\ draft'[v] = draft[v]
                 /\ \A k \in Scopes : (lockedBy'[k] = v <=> lockedBy[k] = v)
                 /\ \A k \in targets'[v] : k \in targets[v] /\ (rows[k] = None \/ rows'[k] # None)
                 /\ \A k \in targets[v] \ targets'[v] : lockedBy[k] = w
           /\ \A k \in Scopes : rows'[k] = rows[k] \/ lockedBy[k] = w
           /\ now' = now
<1> DEFINE Goal ==
             /\ \A v \in Workers \ {w} :
                 /\ pc'[v] = pc[v] /\ req'[v] = req[v] /\ since'[v] = since[v]
                 /\ scope'[v] = scope[v] /\ draft'[v] = draft[v]
                 /\ \A k \in Scopes : (lockedBy'[k] = v <=> lockedBy[k] = v)
                 /\ \A k \in targets'[v] : k \in targets[v] /\ (rows[k] = None \/ rows'[k] # None)
                 /\ \A k \in targets[v] \ targets'[v] : lockedBy[k] = w
             /\ \A k \in Scopes : rows'[k] = rows[k] \/ lockedBy[k] = w
             /\ now' = now
<1> SUFFICES Goal
  OBVIOUS
<1> USE DEF Inv, TypeOK, TablesOK, HandlersOK
<1>1. ASSUME NEW c, Reply(w, c), UNCHANGED <<now, rows>> PROVE Goal
  BY <1>1, NoneIsNothing DEF Reply, EndTransaction
<1>2. ASSUME NEW step, Goto(w, step), UNCHANGED <<now, rows, transaction>> PROVE Goal
  BY <1>2 DEF Goto, transaction
<1>3. ASSUME NEW row, Hold(w, row), lockedBy[scope[w]] = None PROVE Goal
  BY <1>3, NoneIsNothing DEF Hold, Goto
<1>4. CASE Begin(w)
  BY <1>4 DEF Begin, transaction
<1>5. CASE Check(w)
  BY <1>1, <1>2, <1>5 DEF Check
<1>6. CASE Verify(w)
  BY <1>6 DEF Verify, Goto
<1>7. CASE Select(w)
  BY <1>2, <1>3, <1>7 DEF Select
<1>8. CASE Insert(w)
  BY <1>1, <1>3, <1>8 DEF Insert
<1>9. CASE Commit(w)
  <2>1. \A k \in Keys(req[w]) : lockedBy[k] = w
    BY <1>9, KeyFacts DEF Commit, Shape, Locks
  <2>2. \A k \in Scopes : rows'[k] = rows[k] \/ lockedBy[k] = w
    BY <1>9, <2>1 DEF Commit
  <2>3. \A k \in Scopes : rows[k] = None \/ rows'[k] # None
    BY <1>9 DEF Commit, Shape
  <2>4. \A v \in Workers \ {w} :
           /\ pc'[v] = pc[v] /\ req'[v] = req[v] /\ since'[v] = since[v]
           /\ scope'[v] = scope[v] /\ draft'[v] = draft[v] /\ targets'[v] = targets[v]
           /\ \A k \in Scopes : (lockedBy'[k] = v <=> lockedBy[k] = v)
    BY <1>9, NoneIsNothing DEF Commit, Reply, EndTransaction
  <2>5. now' = now
    BY <1>9 DEF Commit
  <2>6. QED
    BY <2>2, <2>3, <2>4, <2>5
<1>10. CASE ResetScan(w)
  BY <1>10 DEF ResetScan, Goto
<1>11. CASE ResetLock(w)
  BY <1>11, NoneIsNothing DEF ResetLock
<1>12. CASE ResetCommit(w)
  BY <1>12, NoneIsNothing DEF ResetCommit
<1>13. CASE DeadlockDetected(w)
  BY <1>1, <1>13 DEF DeadlockDetected
<1>14. CASE Answer(w)
  BY <1>14 DEF Answer, transaction
<1>15. CASE StatementFails(w)
  BY <1>1, <1>15 DEF StatementFails
<1>16. QED
  BY <1>4, <1>5, <1>6, <1>7, <1>8, <1>9, <1>10, <1>11, <1>12, <1>13, <1>14, <1>15
     DEF ActionOf, Proceed

\* So a thread that does not move keeps its shape and its locks.
LEMMA OthersKeep ==
    ASSUME Inv, NEW w \in Workers, ActionOf(w), NEW v \in Workers, v # w
    PROVE  Shape(v)' /\ Locks(v)'
<1>1. /\ pc'[v] = pc[v] /\ req'[v] = req[v] /\ since'[v] = since[v]
      /\ scope'[v] = scope[v] /\ draft'[v] = draft[v] /\ now' = now
      /\ \A k \in Scopes : (lockedBy'[k] = v <=> lockedBy[k] = v)
      /\ \A k \in targets'[v] : k \in targets[v] /\ (rows[k] = None \/ rows'[k] # None)
      /\ \A k \in Scopes : lockedBy[k] = v => rows'[k] = rows[k]
  BY OthersStay
<1>2. Shape(v) /\ Locks(v)
  BY DEF Inv
<1>3. Registering(v)' <=> Registering(v)
  BY <1>1 DEF Registering
<1>4. Shape(v)'
  BY <1>1, <1>2, <1>3 DEF Shape
<1>5. \A k \in targets[v] \ targets'[v] : lockedBy[k] # v
  BY OthersStay, NoneIsNothing
<1>6. Locks(v)'
  BY <1>1, <1>2, <1>3, <1>5 DEF Locks, Registered
<1>7. QED
  BY <1>4, <1>6

\* A thread without a transaction has written, found and locked nothing.
LEMMA Idle ==
    ASSUME Inv, NEW w \in Workers, ~Registering(w), pc[w] # "deleting"
    PROVE  /\ \A k \in Scopes : draft[w][k] = None /\ k \notin targets[w] /\ lockedBy[k] # w
           /\ scope[w] = Email
BY DEF Inv, Locks, Shape

\* The answer ends the transaction of its thread.
LEMMA ReplyKeeps ==
    ASSUME Inv, NEW w \in Workers, NEW c, Reply(w, c), req[w] \in Requests
    PROVE  Shape(w)' /\ Locks(w)'
<1>1. /\ pc'[w] = "answer" /\ req'[w] = req[w] /\ scope'[w] = Email
      /\ targets'[w] = {} /\ draft'[w] = NoDraft
      /\ \A k \in Scopes : lockedBy'[k] # w
  BY NoneIsNothing DEF Reply, EndTransaction, Inv, TypeOK, HandlersOK
<1>2. ~Registering(w)'
  BY <1>1 DEF Registering
<1>3. Shape(w)'
  BY <1>1, <1>2 DEF Shape
<1>4. Locks(w)'
  BY <1>1 DEF Locks, NoDraft
<1>5. QED
  BY <1>3, <1>4

\* The loop writes the row of its scope, the e-mail address before the address.
LEMMA HoldKeeps ==
    ASSUME Inv, NEW w \in Workers, pc[w] \in {"select", "insert"}, lockedBy[scope[w]] = None,
           Hold(w, Registered(rows[scope[w]], since[w]))
    PROVE  Shape(w)' /\ Locks(w)'
<1> DEFINE k == scope[w]
           row == Registered(rows[k], since[w])
<1> USE DEF Inv, TypeOK
<1>1. /\ Registering(w) /\ req[w] \in Requests /\ k \in Keys(req[w]) /\ k \in Scopes
      /\ since[w] <= now /\ since[w] \in Nat
      /\ \A j \in Scopes : draft[w][j] # None <=> (j = Email /\ k # Email)
  BY BoundsAreNat DEF Shape, Registering, HandlersOK
<1>2. row # None
  BY <1>1, RowsWritten DEF TablesOK
<1> HIDE DEF row
<1>3. /\ lockedBy' = [lockedBy EXCEPT ![k] = w]
      /\ draft' = [draft EXCEPT ![w][k] = row]
      /\ scope' = [scope EXCEPT ![w] = req[w].ip]
      /\ pc' = [pc EXCEPT ![w] = IF k = Email THEN "select" ELSE "commit"]
      /\ UNCHANGED <<now, rows, since, targets, req>>
  BY DEF Hold, Goto, row
<1>4. /\ pc'[w] = (IF k = Email THEN "select" ELSE "commit")
      /\ scope'[w] = req[w].ip
      /\ lockedBy'[k] = w /\ \A j \in Scopes : j # k => lockedBy'[j] = lockedBy[j]
      /\ draft'[w][k] = row /\ \A j \in Scopes : j # k => draft'[w][j] = draft[w][j]
  BY <1>1, <1>3 DEF HandlersOK, TablesOK
<1>5. req[w].ip # Email /\ Keys(req[w]) = {Email, req[w].ip}
  BY <1>1, KeyFacts
<1>6. Registering(w)'
  BY <1>4 DEF Registering
<1>7. Shape(w)'
  <2>1. req'[w] = req[w] /\ since'[w] = since[w] /\ now' = now
    BY <1>3
  <2>2. pc'[w] \in {"select", "insert"} =>
          \A j \in Scopes : draft'[w][j] # None <=> (j = Email /\ scope'[w] # Email)
    BY <1>1, <1>2, <1>4, <1>5
  <2>3. pc'[w] = "commit" => \A j \in Keys(req[w]) : draft'[w][j] # None
    BY <1>1, <1>2, <1>4, <1>5, KeyFacts
  <2>4. QED
    BY <1>1, <1>4, <1>5, <1>6, <2>1, <2>2, <2>3 DEF Shape
<1>8. Locks(w)'
  <2> SUFFICES ASSUME NEW j \in Scopes
               PROVE  /\ draft'[w][j] # None =>
                             /\ j \in Keys(req[w]) /\ lockedBy'[j] = w
                             /\ draft'[w][j] = Registered(rows[j], since[w])
                      /\ j \notin targets[w]
                      /\ lockedBy'[j] = w => draft'[w][j] # None
    BY <1>3, <1>6 DEF Locks, Registered
  <2>1. Locks(w) /\ pc[w] # "deleting"
    OBVIOUS
  <2>2. CASE j = k
    BY <1>1, <1>2, <1>4, <2>1, <2>2 DEF Locks, row
  <2>3. CASE j # k
    BY <1>4, <2>1, <2>3 DEF Locks
  <2>4. QED
    BY <2>2, <2>3
<1>9. QED
  BY <1>7, <1>8

\* The thread that moves keeps the protocol.
LEMMA MoverKeeps ==
    ASSUME Inv, NEW w \in Workers, ActionOf(w)
    PROVE  Shape(w)' /\ Locks(w)'
<1> USE DEF Inv, TypeOK
<1>0. Shape(w) /\ Locks(w) /\ (pc[w] # "idle" => req[w] \in Requests)
  BY DEF Shape
<1>1. ASSUME NEW step \in {"check", "verify", "reset"}, ~Registering(w), pc[w] # "deleting",
             pc' = [pc EXCEPT ![w] = step], req'[w] \in Requests,
             UNCHANGED <<rows, lockedBy, scope, draft, targets>>
      PROVE  Shape(w)' /\ Locks(w)'
  <2>1. pc'[w] = step /\ ~Registering(w)'
    BY <1>1 DEF HandlersOK, Registering
  <2>2. QED
    BY <1>1, <2>1, Idle DEF Shape, Locks
<1>2. CASE Begin(w)
  <2>1. pc[w] = "idle" /\ pc' = [pc EXCEPT ![w] = "check"] /\ req'[w] \in Requests
        /\ UNCHANGED <<rows, transaction>>
    BY <1>2 DEF Begin, HandlersOK
  <2>2. QED
    BY <1>1, <2>1 DEF transaction, Registering
<1>3. CASE Check(w)
  <2>1. pc[w] = "check" /\ ~Registering(w) /\ rows' = rows
    BY <1>3 DEF Check, Registering
  <2>2. \/ Reply(w, 429)
        \/ Goto(w, "verify") /\ UNCHANGED transaction
    BY <1>3 DEF Check
  <2>3. QED
    BY <1>0, <1>1, <2>1, <2>2, ReplyKeeps DEF Goto, transaction
<1>4. CASE Verify(w)
  <2>1. pc[w] = "verify" /\ ~Registering(w)
    BY <1>4 DEF Verify, Registering
  <2>2. CASE req[w].right
    BY <1>0, <1>1, <1>4, <2>1, <2>2 DEF Verify, Goto
  <2>3. CASE ~req[w].right
    <3>1. /\ pc'[w] = "select" /\ since'[w] = now /\ req'[w] = req[w] /\ scope'[w] = scope[w]
          /\ UNCHANGED <<now, rows, lockedBy, draft, targets>>
      BY <1>4, <2>3 DEF Verify, Goto, HandlersOK
    <3>2. scope[w] = Email /\ \A k \in Scopes : draft[w][k] = None /\ k \notin targets[w] /\ lockedBy[k] # w
      BY <2>1, Idle
    <3>3. now <= now
      BY BoundsAreNat DEF TablesOK
    <3>4. QED
      BY <1>0, <2>1, <3>1, <3>2, <3>3, KeyFacts DEF Shape, Locks, Registering
  <2>4. QED
    BY <2>2, <2>3
<1>5. CASE Select(w) \/ Insert(w)
  <2>1. pc[w] \in {"select", "insert"} /\ Registering(w) /\ req[w] \in Requests
    BY <1>0, <1>5 DEF Select, Insert, Registering
  <2>2. \/ Goto(w, "insert") /\ UNCHANGED <<now, rows, transaction, history, counters>>
        \/ Reply(w, 500)
        \/ lockedBy[scope[w]] = None /\ Hold(w, Registered(rows[scope[w]], since[w]))
    BY <1>5 DEF Select, Insert, Registered
  <2>3. CASE Goto(w, "insert") /\ UNCHANGED <<now, rows, transaction, history, counters>>
    <3>1. /\ pc'[w] = "insert" /\ req' = req
          /\ UNCHANGED <<now, rows, lockedBy, since, scope, draft, targets>>
      BY <2>3 DEF Goto, transaction, HandlersOK
    <3>2. QED
      BY <1>0, <2>1, <3>1 DEF Shape, Locks, Registering, Registered
  <2>4. QED
    BY <2>1, <2>2, <2>3, ReplyKeeps, HoldKeeps
<1>6. CASE Commit(w) \/ DeadlockDetected(w) \/ StatementFails(w)
  <2>1. \E c : Reply(w, c)
    BY <1>6 DEF Commit, DeadlockDetected, StatementFails
  <2>2. pc[w] # "idle"
    BY <1>6 DEF Commit, DeadlockDetected, WaitsFor, StatementFails
  <2>3. QED
    BY <1>0, <2>1, <2>2, ReplyKeeps
<1>7. CASE ResetScan(w)
  <2>1. pc[w] = "reset" /\ ~Registering(w) /\ req[w] \in Requests
    BY <1>0, <1>7 DEF ResetScan, Registering
  <2>2. /\ pc'[w] = "deleting" /\ req' = req
        /\ targets'[w] = {k \in Keys(req[w]) : rows[k] # None}
        /\ UNCHANGED <<rows, lockedBy, scope, draft>>
    BY <1>7 DEF ResetScan, Goto, HandlersOK
  <2>3. scope[w] = Email /\ \A k \in Scopes : draft[w][k] = None /\ lockedBy[k] # w
    BY <2>1, Idle
  <2>4. QED
    BY <2>1, <2>2, <2>3 DEF Shape, Locks, Registering
<1>8. CASE ResetLock(w)
  <2>1. PICK k \in targets[w] : lockedBy' = [lockedBy EXCEPT ![k] = w]
    BY <1>8 DEF ResetLock
  <2>2. \A j \in Scopes : lockedBy'[j] = w => j = k \/ lockedBy[j] = w
    BY <2>1 DEF TablesOK
  <2>3. /\ pc[w] = "deleting" /\ ~Registering(w)
        /\ UNCHANGED <<rows, pc, req, scope, draft, targets>>
    BY <1>8 DEF ResetLock, Registering
  <2>4. QED
    BY <1>0, <2>1, <2>2, <2>3 DEF Shape, Locks, Registering
<1>9. CASE ResetCommit(w)
  <2>1. pc[w] = "deleting" /\ ~Registering(w)
    BY <1>9 DEF ResetCommit, Registering
  <2>2. /\ pc'[w] = "answer" /\ UNCHANGED <<req, scope, draft>> /\ targets'[w] = {}
        /\ \A k \in Scopes : lockedBy'[k] # w
    BY <1>9, NoneIsNothing DEF ResetCommit, HandlersOK
  <2>3. QED
    BY <1>0, <2>1, <2>2 DEF Shape, Locks, Registering
<1>10. CASE Answer(w)
  <2>1. pc[w] = "answer" /\ ~Registering(w) /\ pc'[w] = "idle"
        /\ UNCHANGED <<rows, lockedBy, scope, draft, targets>>
    BY <1>10 DEF Answer, Registering, transaction, HandlersOK
  <2>2. QED
    BY <2>1, Idle DEF Shape, Locks, Registering
<1>11. QED
  BY <1>2, <1>3, <1>4, <1>5, <1>6, <1>7, <1>8, <1>9, <1>10 DEF ActionOf, Proceed

\* Typing and the row lock protocol are preserved by every step.
LEMMA InvStep == Inv /\ [Next]_vars => Inv'
<1> SUFFICES ASSUME Inv, [Next]_vars PROVE Inv'
  OBVIOUS
<1>1. \A w \in Workers : Shape(w)' /\ Locks(w)'
  <2>1. ASSUME NEW w \in Workers, ActionOf(w) PROVE \A v \in Workers : Shape(v)' /\ Locks(v)'
    BY <2>1, OthersKeep, MoverKeeps
  <2>2. CASE Crash
    <3>1. ASSUME NEW w \in Workers PROVE Shape(w)' /\ Locks(w)'
      BY <2>2, NoneIsNothing DEF Crash, Shape, Locks, Registering, NoDraft
    <3>2. QED
      BY <3>1
  <2>3. CASE Tick
    <3>1. UNCHANGED <<rows, lockedBy, since, scope, draft, targets, pc, req>> /\ now' = now + 1
      BY <2>3 DEF Tick, transaction
    <3>2. ASSUME NEW w \in Workers PROVE Shape(w)' /\ Locks(w)'
      <4>1. Shape(w) /\ Locks(w) /\ since[w] \in Nat /\ now \in Nat
        BY BoundsAreNat DEF Inv, TypeOK, HandlersOK, TablesOK
      <4>2. since[w] <= now => since[w] <= now + 1
        BY <4>1
      <4>3. QED
        BY <3>1, <4>1, <4>2 DEF Shape, Locks, Registering, Registered
    <3>3. QED
      BY <3>2
  <2>4. CASE UNCHANGED vars
    BY <2>4 DEF vars, Inv, Shape, Locks, Registering, Registered
  <2>5. QED
    BY <2>1, <2>2, <2>3, <2>4 DEF Next, Quiescent, ActionOf
<1>2. TypeOK'
  BY <1>1, TypeStep DEF TypeOK, Shape
<1>3. QED
  BY <1>1, <1>2 DEF Inv

\* In the initial state no thread has a request and no row is locked.
LEMMA InitInv == Init => Inv
<1> SUFFICES ASSUME Init PROVE Inv
  OBVIOUS
<1>1. \A S : <<>> \in Seq(S)
  OBVIOUS
<1>2. TablesOK
  BY Defaults, BoundsAreNat DEF Init, TablesOK, NoDraft
<1>3. HandlersOK
  BY Defaults, BoundsAreNat DEF Init, HandlersOK, Steps
<1>4. HistoryOK
  BY <1>1, BoundsAreNat DEF Init, HistoryOK
<1>5. TypeOK
  BY <1>2, <1>3, <1>4 DEF Init, TypeOK
<1>6. ASSUME NEW w \in Workers PROVE Shape(w) /\ Locks(w)
  BY NoneIsNothing DEF Init, Shape, Locks, Registering, NoDraft
<1>7. QED
  BY <1>5, <1>6 DEF Inv

\* Typing and the row lock protocol hold in every reachable state.
LEMMA Invariant == Spec => []Inv
BY InitInv, InvStep, PTL DEF Spec

\* Every reachable state is well typed; a commit has a row for both of its scopes.
THEOREM TypeCorrect == Spec => []TypeOK
<1>1. Inv => TypeOK
  BY DEF Inv
<1>2. QED
  BY <1>1, Invariant, PTL

\* A thread that commits a failure replaces both rows of its request by what the loop
\* made of the rows in the table, although it read them earlier.
LEMMA CommitFacts ==
    ASSUME Inv, NEW w \in Workers, Commit(w)
    PROVE  /\ req[w] \in Requests /\ since[w] \in Nat /\ since[w] <= now
           /\ \A k \in Scopes :
                 /\ rows'[k] = IF k \in Keys(req[w]) THEN Registered(rows[k], since[w]) ELSE rows[k]
                 /\ failed'[k] = IF k \in Keys(req[w]) THEN Append(failed[k], since[w]) ELSE failed[k]
<1>1. pc[w] = "commit" /\ Shape(w) /\ Locks(w) /\ since[w] \in Nat
  BY BoundsAreNat DEF Commit, Inv, TypeOK, HandlersOK
<1>2. req[w] \in Requests /\ since[w] <= now
  BY <1>1 DEF Shape, Registering
<1>3. \A k \in Scopes : k \in Keys(req[w]) => draft[w][k] = Registered(rows[k], since[w])
  BY <1>1 DEF Shape, Locks
<1>4. QED
  BY <1>1, <1>2, <1>3 DEF Commit

\* Only the two commits write the table and its history.
LEMMA TableWriters ==
    ASSUME [Next]_vars
    PROVE  \/ UNCHANGED <<rows, failed, late>>
           \/ \E w \in Workers : Commit(w) \/ ResetCommit(w)
BY DEF Next, Begin, Proceed, Check, Verify, Select, Insert, Hold, ResetScan, ResetLock,
       DeadlockDetected, Answer, StatementFails, Crash, Tick, Quiescent, vars, history

-----------------------------------------------------------------------------
\* The table as its readers may take it: one failure at a time is counted in both of
\* its rows as they are then, at a time not later than the clock, or some rows of one
\* request are deleted.
TableStep ==
    \E r \in Requests :
        \/ \E t \in 0..now :
              rows' = [k \in Scopes |-> IF k \in Keys(r) THEN Registered(rows[k], t) ELSE rows[k]]
        \/ \E gone \in SUBSET Keys(r) :
              rows' = [k \in Scopes |-> IF k \in gone THEN None ELSE rows[k]]

\* Transactions whose statements interleave change the table as if they ran one after
\* the other: no update is lost, although each of them read its rows earlier.
THEOREM RegistrationsAreSerial == Spec => [][TableStep]_rows
<1>1. Inv /\ [Next]_vars => [TableStep]_rows
  <2> SUFFICES ASSUME Inv, [Next]_vars, rows' # rows PROVE TableStep
    OBVIOUS
  <2>1. ASSUME NEW w \in Workers, Commit(w) PROVE TableStep
    <3>1. req[w] \in Requests /\ since[w] \in 0..now
      BY <2>1, CommitFacts, BoundsAreNat DEF Inv, TypeOK, TablesOK
    <3>2. rows' = [k \in Scopes |-> IF k \in Keys(req[w]) THEN Registered(rows[k], since[w]) ELSE rows[k]]
      <4>1. \A k \in Scopes :
               rows'[k] = IF k \in Keys(req[w]) THEN Registered(rows[k], since[w]) ELSE rows[k]
        BY <2>1, CommitFacts
      <4>2. rows' = [k \in Scopes |-> rows'[k]]
        BY <2>1 DEF Commit
      <4>3. QED
        BY <4>1, <4>2
    <3>3. QED
      BY <3>1, <3>2 DEF TableStep
  <2>2. ASSUME NEW w \in Workers, ResetCommit(w) PROVE TableStep
    <3>1. req[w] \in Requests /\ targets[w] \in SUBSET Keys(req[w])
      BY <2>2 DEF ResetCommit, Inv, Shape, Locks, TypeOK, HandlersOK
    <3>2. rows' = [k \in Scopes |-> IF k \in targets[w] THEN None ELSE rows[k]]
      BY <2>2 DEF ResetCommit
    <3>3. QED
      BY <3>1, <3>2 DEF TableStep
  <2>3. QED
    BY <2>1, <2>2, TableWriters
<1>2. QED
  BY <1>1, Invariant, PTL DEF Spec

-----------------------------------------------------------------------------
\* One failure more adds at most one to a window.
LEMMA OneMoreRecent ==
    ASSUME NEW s \in Seq(Nat), NEW t \in Nat, NEW f \in Nat
    PROVE  /\ Cardinality(Recent(s, f)) \in Nat
           /\ Cardinality(Recent(Append(s, t), f)) <= Cardinality(Recent(s, f)) + 1
           /\ Len(Append(s, t)) = Len(s) + 1 /\ Len(s) \in Nat
           /\ DOMAIN Append(s, t) = 1..(Len(s) + 1) /\ DOMAIN s = 1..Len(s)
           /\ Append(s, t)[Len(s) + 1] = t
           /\ \A i \in 1..Len(s) : Append(s, t)[i] = s[i]
<1>1. /\ Len(s) \in Nat /\ DOMAIN s = 1..Len(s) /\ Len(Append(s, t)) = Len(s) + 1
      /\ DOMAIN Append(s, t) = 1..(Len(s) + 1) /\ Append(s, t)[Len(s) + 1] = t
      /\ \A i \in 1..Len(s) : Append(s, t)[i] = s[i]
  OBVIOUS
<1>2. IsFiniteSet(Recent(s, f))
  <2>1. IsFiniteSet(1..Len(s))
    BY <1>1, FS_Interval
  <2>2. Recent(s, f) \subseteq 1..Len(s)
    BY <1>1 DEF Recent
  <2>3. QED
    BY <2>1, <2>2, FS_Subset
<1>3. /\ Cardinality(Recent(s, f)) \in Nat
      /\ Cardinality(Recent(s, f) \cup {Len(s) + 1}) <= Cardinality(Recent(s, f)) + 1
      /\ IsFiniteSet(Recent(s, f) \cup {Len(s) + 1})
  <2>1. /\ Cardinality(Recent(s, f)) \in Nat
        /\ IsFiniteSet(Recent(s, f) \cup {Len(s) + 1})
        /\ Cardinality(Recent(s, f) \cup {Len(s) + 1}) =
              IF Len(s) + 1 \in Recent(s, f) THEN Cardinality(Recent(s, f))
                                            ELSE Cardinality(Recent(s, f)) + 1
    BY <1>2, FS_CardinalityType, FS_AddElement
  <2>2. QED
    BY <2>1
<1>4. Recent(Append(s, t), f) \subseteq Recent(s, f) \cup {Len(s) + 1}
  BY <1>1 DEF Recent
<1>5. Cardinality(Recent(Append(s, t), f)) <= Cardinality(Recent(s, f) \cup {Len(s) + 1})
      /\ Cardinality(Recent(Append(s, t), f)) \in Nat
      /\ Cardinality(Recent(s, f) \cup {Len(s) + 1}) \in Nat
  BY <1>3, <1>4, FS_Subset, FS_CardinalityType
<1>6. QED
  BY <1>1, <1>3, <1>5

\* A failure at t, whatever clock it read, leaves a row that counts it.
LEMMA CountsOneMore ==
    ASSUME NEW row \in Row \cup {None}, NEW s \in Seq(Nat), NEW t \in Nat, Counts(row, s)
    PROVE  Counts(Registered(row, t), Append(s, t))
<1> DEFINE s1 == Append(s, t)
<1>0. /\ Len(s) \in Nat /\ Len(s1) = Len(s) + 1 /\ DOMAIN s1 = 1..(Len(s) + 1)
      /\ DOMAIN s = 1..Len(s) /\ s1[Len(s) + 1] = t /\ \A i \in 1..Len(s) : s1[i] = s[i] /\ s[i] \in Nat
  <2>1. \A i \in 1..Len(s) : s[i] \in Nat
    OBVIOUS
  <2>2. QED
    BY <2>1, OneMoreRecent
<1>a. \A i \in DOMAIN s1 : (i \in DOMAIN s /\ s1[i] = s[i]) \/ (i = Len(s) + 1 /\ s1[i] = t)
  BY <1>0
<1>b. \A f \in Nat : /\ Cardinality(Recent(s, f)) \in Nat
                     /\ Cardinality(Recent(s1, f)) <= Cardinality(Recent(s, f)) + 1
                     /\ Cardinality(Recent(s1, f)) \in Nat
  <2> TAKE f \in Nat
  <2>1. s1 \in Seq(Nat)
    OBVIOUS
  <2>2. QED
    BY <2>1, OneMoreRecent
<1>c. \A f \in Nat : (\A i \in DOMAIN s : s[i] < f) => Cardinality(Recent(s, f)) = 0
  <2> TAKE f \in Nat
  <2> HAVE \A i \in DOMAIN s : s[i] < f
  <2>1. Recent(s, f) = {}
    BY <1>0 DEF Recent
  <2>2. QED
    BY <2>1, FS_EmptySet
<1> HIDE DEF s1
<1>1. CASE row = None
  <2>1. s = <<>> /\ Registered(row, t) = Fresh(t) /\ Len(s) = 0 /\ DOMAIN s = {}
    BY <1>1, <1>0 DEF Counts, Registered
  <2>2. Cardinality(Recent(s1, t)) <= 1
    BY <1>b, <1>c, <2>1
  <2>3. Fresh(t) # None /\ Fresh(t).count = 1 /\ Fresh(t).first = t /\ Fresh(t).blockedUntil = 0
    BY <1>1, <2>1, RowsWritten DEF Fresh
  <2>4. \A i \in DOMAIN s1 : s1[i] <= t + Window
    BY <1>a, <2>1, Limits
  <2>5. QED
    <3>1. Cardinality(Recent(s1, t)) \in Nat /\ Len(s1) = 1
      BY <1>0, <1>b, <2>1
    <3>2. Counts(Fresh(t), s1)
      BY <2>2, <2>3, <2>4, <3>1 DEF Counts
    <3>3. QED
      BY <2>1, <3>2 DEF s1
<1>2. CASE row # None
  <2> DEFINE new == Registered(row, t)
  <2>1. /\ row.count \in Nat /\ row.first \in Nat /\ row.blockedUntil \in Nat
        /\ new = Updated(row, t) /\ new # None
    BY <1>2, RowsWritten DEF Row, Registered
  <2>2. /\ row.count >= Cardinality(Recent(s, row.first)) \/ row.count >= MaxFailures
        /\ row.count <= Len(s)
        /\ row.blockedUntil > 0 => row.count >= MaxFailures
        /\ \A i \in DOMAIN s : s[i] <= row.first + Window \/ s[i] < row.blockedUntil
    BY <1>2 DEF Counts
  <2>a. Cardinality(Recent(s1, row.first)) <= Cardinality(Recent(s, row.first)) + 1
        /\ Cardinality(Recent(s, row.first)) \in Nat /\ Cardinality(Recent(s1, row.first)) \in Nat
    BY <1>b, <2>1
  <2>3. CASE row.blockedUntil > t
    <3>1. new = row
      BY <2>1, <2>3 DEF Updated
    <3>2. row.count >= MaxFailures
      BY <2>1, <2>2, <2>3
    <3>3. \A i \in DOMAIN s1 : s1[i] <= row.first + Window \/ s1[i] < row.blockedUntil
      BY <1>a, <2>2, <2>3
    <3>4. row.count <= Len(s1)
      BY <1>0, <2>1, <2>2
    <3>5. QED
      BY <1>2, <3>1, <3>2, <3>3, <3>4 DEF Counts, s1
  <2>4. CASE ~(row.blockedUntil > t) /\ row.first + Window < t
    <3>1. new = [count |-> 1, first |-> t, blockedUntil |-> 0]
      BY <2>1, <2>4, Limits DEF Updated, Counted
    <3>2. ASSUME NEW i \in DOMAIN s PROVE s[i] < t
      <4>1. s[i] \in Nat /\ row.first + Window \in Nat
        BY <1>0, <2>1, Limits
      <4>2. QED
        BY <2>1, <2>2, <2>4, <4>1
    <3>3. Cardinality(Recent(s1, t)) <= 1
      <4>1. Cardinality(Recent(s, t)) = 0
        BY <1>c, <3>2
      <4>2. QED
        BY <1>b, <4>1
    <3>4. \A i \in DOMAIN s1 : s1[i] <= t + Window
      BY <1>0, <1>a, <3>2, Limits
    <3>5. new.count = 1 /\ new.first = t /\ new.blockedUntil = 0
      BY <3>1
    <3>6. 1 <= Len(s1)
      BY <1>0
    <3> HIDE DEF new
    <3>7. Counts(new, s1)
      BY <1>b, <2>1, <3>3, <3>4, <3>5, <3>6 DEF Counts
    <3>8. QED
      BY <3>7 DEF new, s1
  <2>5. CASE ~(row.blockedUntil > t) /\ ~(row.first + Window < t)
    <3>1. /\ new.count = row.count + 1 /\ new.first = row.first
          /\ new.blockedUntil = IF row.count + 1 >= MaxFailures THEN t + Block ELSE row.blockedUntil
      BY <2>1, <2>5 DEF Updated, Counted
    <3> HIDE DEF new
    <3>2. new.blockedUntil >= row.blockedUntil /\ new.blockedUntil \in Nat
      BY <2>1, <2>5, <3>1, Limits
    <3>3. \A i \in DOMAIN s1 : s1[i] <= row.first + Window \/ s1[i] < new.blockedUntil
      <4>1. ASSUME NEW i \in DOMAIN s1 PROVE s1[i] <= row.first + Window \/ s1[i] < new.blockedUntil
        <5>1. CASE i \in DOMAIN s /\ s1[i] = s[i]
          <6>1. s[i] \in Nat
            BY <1>0, <5>1
          <6>2. QED
            BY <2>1, <2>2, <3>2, <5>1, <6>1
        <5>2. CASE s1[i] = t
          BY <2>1, <2>5, <5>2, Limits
        <5>3. QED
          BY <1>a, <5>1, <5>2
      <4>2. QED
        BY <4>1
    <3>4. new.count >= Cardinality(Recent(s1, new.first)) \/ new.count >= MaxFailures
      BY <2>1, <2>2, <2>a, <3>1, Limits
    <3>5. new.count <= Len(s1)
      BY <1>0, <2>1, <2>2, <3>1
    <3>6. new.blockedUntil > 0 => new.count >= MaxFailures
      BY <2>1, <2>2, <3>1, Limits
    <3>7. Counts(new, s1)
      BY <2>1, <3>1, <3>3, <3>4, <3>5, <3>6 DEF Counts
    <3>8. QED
      BY <3>7 DEF new, s1
  <2>6. QED
    BY <2>3, <2>4, <2>5
<1>3. QED
  BY <1>1, <1>2

\* Every step keeps the rows in agreement with the failures answered.
LEMMA CountStep == Inv /\ CountInv /\ [Next]_vars => CountInv'
<1> SUFFICES ASSUME Inv, CountInv, [Next]_vars PROVE CountInv'
  OBVIOUS
<1>1. CASE UNCHANGED <<rows, failed, late>>
  BY <1>1 DEF CountInv
<1>2. ASSUME NEW w \in Workers, Commit(w) PROVE CountInv'
  <2> SUFFICES ASSUME NEW k \in Scopes PROVE Counts(rows'[k], failed'[k])
    BY DEF CountInv
  <2>1. /\ since[w] \in Nat
        /\ rows'[k] = IF k \in Keys(req[w]) THEN Registered(rows[k], since[w]) ELSE rows[k]
        /\ failed'[k] = IF k \in Keys(req[w]) THEN Append(failed[k], since[w]) ELSE failed[k]
    BY <1>2, CommitFacts
  <2>2. Counts(rows[k], failed[k]) /\ rows[k] \in Row \cup {None} /\ failed[k] \in Seq(0..MaxTime)
    BY DEF CountInv, Inv, TypeOK, TablesOK, HistoryOK
  <2>3. failed[k] \in Seq(Nat)
    BY <2>2, BoundsAreNat
  <2>4. QED
    BY <2>1, <2>2, <2>3, CountsOneMore
<1>3. ASSUME NEW w \in Workers, ResetCommit(w) PROVE CountInv'
  BY <1>3 DEF ResetCommit, CountInv, Counts
<1>4. QED
  BY <1>1, <1>2, <1>3, TableWriters

\* No failure is lost and none is invented, however transactions interleave.
THEOREM FailuresAreCounted == Spec => []CountsFailures
<1>1. Init => CountInv
  BY DEF Init, CountInv, Counts, NoDraft
<1>2. CountInv => CountsFailures
  BY DEF CountInv, Counts, CountsFailures, InWindow, Recent
<1>3. QED
  BY <1>1, <1>2, CountStep, Invariant, PTL DEF Spec

\* A block in force is kept by every step that keeps its row.
THEOREM BlocksAreKept == Spec => BlocksHold
<1>1. Inv /\ [Next]_vars => [BlockKept]_rows
  <2> SUFFICES ASSUME Inv, [Next]_vars, rows' # rows,
                      NEW k \in Scopes, BlockedAt(rows[k], now), rows'[k] # None
               PROVE  rows'[k].blockedUntil >= rows[k].blockedUntil
    BY DEF BlockKept
  <2>1. rows[k] # None /\ rows[k].blockedUntil \in Nat /\ rows[k].blockedUntil > now /\ now \in Nat
    BY BoundsAreNat DEF BlockedAt, Inv, TypeOK, TablesOK, Row
  <2>2. ASSUME NEW w \in Workers, Commit(w) PROVE rows'[k] = rows[k]
    <3>1. since[w] \in Nat /\ since[w] <= now /\ rows'[k] \in {rows[k], Registered(rows[k], since[w])}
      BY <2>2, CommitFacts
    <3>2. Registered(rows[k], since[w]) = rows[k]
      BY <2>1, <3>1 DEF Registered, Updated
    <3>3. QED
      BY <3>1, <3>2
  <2>3. ASSUME NEW w \in Workers, ResetCommit(w) PROVE rows'[k] = rows[k]
    BY <2>3 DEF ResetCommit
  <2>4. rows'[k] = rows[k]
    BY <2>2, <2>3, TableWriters
  <2>5. QED
    BY <2>1, <2>4
<1>2. QED
  BY <1>1, Invariant, PTL DEF Spec, BlocksHold

-----------------------------------------------------------------------------
\* What a step does to the late failures: it adds no thread to those that may be late,
\* or takes the one that was, or begins to count again.
LateStays == late' = late /\ LateThreads' \subseteq LateThreads
LateCounted == late' = late + 1 /\ \E w \in LateThreads : LateThreads' \subseteq LateThreads \ {w}
LateForgotten == late' = 0 /\ \E w \in Workers : w \notin LateThreads'

\* A thread that looks after the block is refused, and one that fails after it has been
\* counted: no thread becomes late.
LEMMA LateCases == Inv /\ [Next]_vars => LateStays \/ LateCounted \/ LateForgotten
<1> SUFFICES ASSUME Inv, [Next]_vars PROVE LateStays \/ LateCounted \/ LateForgotten
  OBVIOUS
<1> USE DEF Inv, TypeOK, TablesOK, HandlersOK
<1>0. Email \in Scopes
  BY Defaults
<1>1. ASSUME NEW w \in Workers, ActionOf(w), UNCHANGED <<rows, late>>, MayBeLate(w)' => MayBeLate(w)
      PROVE  LateStays
  <2>1. ASSUME NEW v \in Workers, v # w, MayBeLate(v)' PROVE MayBeLate(v)
    <3>1. pc'[v] = pc[v] /\ since'[v] = since[v] /\ now' = now
      BY <1>1, <2>1, OthersStay
    <3>2. QED
      BY <1>1, <2>1, <3>1 DEF MayBeLate, Registering
  <2>2. QED
    BY <1>1, <2>1 DEF LateStays, LateThreads
<1>2. ASSUME NEW w \in Workers,
             pc'[w] \in {"idle", "check", "reset", "deleting", "answer"}
      PROVE  ~MayBeLate(w)'
  BY <1>2 DEF MayBeLate, Registering
<1>3. ASSUME NEW w \in Workers, NEW c, Reply(w, c) PROVE pc'[w] = "answer"
  BY <1>3 DEF Reply
<1>4. ASSUME NEW w \in Workers, Begin(w) \/ ResetScan(w) \/ ResetLock(w) \/ DeadlockDetected(w)
                               \/ Answer(w) \/ StatementFails(w)
      PROVE  LateStays
  <2>1. UNCHANGED <<rows, late>> /\ ActionOf(w)
    BY <1>4 DEF Begin, ResetScan, ResetLock, DeadlockDetected, Answer, StatementFails, history,
                ActionOf, Proceed
  <2>2. pc'[w] \in {"check", "deleting", "answer", "idle"}
    BY <1>3, <1>4 DEF Begin, ResetScan, ResetLock, DeadlockDetected, Answer, StatementFails, Goto
  <2>3. QED
    BY <1>1, <1>2, <2>1, <2>2
<1>5. ASSUME NEW w \in Workers, Check(w) PROVE LateStays
  <2>1. UNCHANGED <<now, rows, late>> /\ ActionOf(w)
    BY <1>5 DEF Check, history, ActionOf, Proceed
  <2>2. CASE \E k \in Keys(req[w]) : BlockedAt(rows[k], now)
    BY <1>1, <1>2, <1>3, <1>5, <2>1, <2>2 DEF Check
  <2>3. CASE ~\E k \in Keys(req[w]) : BlockedAt(rows[k], now)
    <3>1. pc'[w] = "verify" /\ ~BlockedAt(rows[Email], now)
      BY <1>5, <2>3 DEF Check, Goto, Keys
    <3>2. ~MayBeLate(w)'
      BY <2>1, <3>1 DEF MayBeLate, Registering
    <3>3. QED
      BY <1>1, <2>1, <3>2
  <2>4. QED
    BY <2>2, <2>3
<1>6. ASSUME NEW w \in Workers, Verify(w) PROVE LateStays
  <2>1. UNCHANGED <<now, rows, late>> /\ ActionOf(w) /\ pc[w] = "verify"
    BY <1>6 DEF Verify, history, ActionOf, Proceed
  <2>2. pc'[w] = "reset" \/ (pc'[w] = "select" /\ since'[w] = now)
    BY <1>6 DEF Verify, Goto
  <2>3. MayBeLate(w)' => MayBeLate(w)
    BY <2>1, <2>2 DEF MayBeLate, Registering
  <2>4. QED
    BY <1>1, <2>1, <2>3
<1>7. ASSUME NEW w \in Workers, Select(w) \/ Insert(w) PROVE LateStays
  <2>1. UNCHANGED <<rows, late>> /\ ActionOf(w) /\ Registering(w)
    BY <1>7 DEF Select, Insert, Hold, history, ActionOf, Proceed, Registering
  <2>2. pc'[w] = "answer" \/ UNCHANGED since
    BY <1>3, <1>7 DEF Select, Insert, Hold, transaction
  <2>3. MayBeLate(w)' => MayBeLate(w)
    <3>1. pc'[w] # "verify"
      BY <1>3, <1>7 DEF Select, Insert, Hold, Goto
    <3>2. QED
      BY <1>2, <2>1, <2>2, <3>1 DEF MayBeLate
  <2>4. QED
    BY <1>1, <2>1, <2>3
<1>8. ASSUME NEW w \in Workers, Commit(w) PROVE LateCounted \/ LateForgotten
  <2>1. pc[w] = "commit" /\ pc'[w] = "answer" /\ ActionOf(w)
        /\ late' = IF BlockedAt(rows[Email], since[w]) THEN late + 1 ELSE 0
    BY <1>3, <1>8 DEF Commit, ActionOf, Proceed
  <2>2. w \notin LateThreads'
    BY <1>2, <2>1 DEF LateThreads
  <2>3. CASE ~BlockedAt(rows[Email], since[w])
    BY <2>1, <2>2, <2>3 DEF LateForgotten
  <2>4. CASE BlockedAt(rows[Email], since[w])
    <3>1. w \in LateThreads
      BY <2>1, <2>4 DEF LateThreads, MayBeLate, Registering
    <3>2. rows'[Email] = rows[Email]
      <4>1. rows'[Email] \in {rows[Email], Registered(rows[Email], since[w])}
        BY <1>0, <1>8, CommitFacts
      <4>2. QED
        BY <2>4, <4>1 DEF BlockedAt, Registered, Updated
    <3>3. ASSUME NEW v \in Workers, v # w, MayBeLate(v)' PROVE MayBeLate(v)
      <4>1. pc'[v] = pc[v] /\ since'[v] = since[v] /\ now' = now
        BY <2>1, <3>3, OthersStay
      <4>2. QED
        BY <3>2, <3>3, <4>1 DEF MayBeLate, Registering
    <3>4. LateThreads' \subseteq LateThreads \ {w}
      BY <2>2, <3>3 DEF LateThreads
    <3>5. QED
      BY <2>1, <2>4, <3>1, <3>4 DEF LateCounted
  <2>5. QED
    BY <2>3, <2>4
<1>9. ASSUME NEW w \in Workers, ResetCommit(w) PROVE LateStays \/ LateForgotten
  <2>1. pc'[w] = "answer" /\ ActionOf(w) /\ late' = IF Email \in targets[w] THEN 0 ELSE late
    BY <1>9 DEF ResetCommit, ActionOf, Proceed
  <2>2. w \notin LateThreads'
    BY <1>2, <2>1 DEF LateThreads
  <2>3. CASE Email \in targets[w]
    BY <2>1, <2>2, <2>3 DEF LateForgotten
  <2>4. CASE Email \notin targets[w]
    <3>1. rows'[Email] = rows[Email]
      BY <1>0, <1>9, <2>4 DEF ResetCommit
    <3>2. ASSUME NEW v \in Workers, v # w, MayBeLate(v)' PROVE MayBeLate(v)
      <4>1. pc'[v] = pc[v] /\ since'[v] = since[v] /\ now' = now
        BY <2>1, <3>2, OthersStay
      <4>2. QED
        BY <3>1, <3>2, <4>1 DEF MayBeLate, Registering
    <3>3. QED
      BY <2>1, <2>2, <2>4, <3>2 DEF LateStays, LateThreads
  <2>5. QED
    BY <2>3, <2>4
<1>10. CASE Tick
  <2>1. UNCHANGED <<rows, pc, since, late>> /\ now' = now + 1 /\ now \in Nat
    BY <1>10, BoundsAreNat DEF Tick, transaction, history
  <2>2. BlockedAt(rows[Email], now + 1) => BlockedAt(rows[Email], now)
    <3>1. rows[Email] # None => rows[Email].blockedUntil \in Nat
      BY <1>0 DEF Row
    <3>2. QED
      BY <2>1, <3>1 DEF BlockedAt
  <2>3. ASSUME NEW v \in Workers, MayBeLate(v)' PROVE MayBeLate(v)
    BY <2>1, <2>2, <2>3 DEF MayBeLate, Registering
  <2>4. QED
    BY <2>1, <2>3 DEF LateStays, LateThreads
<1>11. CASE Crash
  <2>1. late' = late /\ \A v \in Workers : pc'[v] = "idle"
    BY <1>11 DEF Crash, history
  <2>2. QED
    BY <1>2, <2>1 DEF LateStays, LateThreads
<1>12. CASE UNCHANGED vars
  BY <1>12 DEF vars, LateStays, LateThreads, MayBeLate, Registering
<1>13. QED
  BY <1>4, <1>5, <1>6, <1>7, <1>8, <1>9, <1>10, <1>11, <1>12 DEF Next, Proceed, Quiescent

\* So the late failures, and those still to come, are fewer than the threads.
LEMMA LateStep == Inv /\ LateInv /\ [Next]_vars => LateInv'
<1> SUFFICES ASSUME Inv, LateInv, [Next]_vars PROVE LateInv'
  OBVIOUS
<1>1. late \in Nat /\ LateThreads \subseteq Workers /\ LateThreads' \subseteq Workers
  BY DEF Inv, TypeOK, HistoryOK, LateThreads
<1>2. PICK before, after : before = LateThreads /\ after = LateThreads'
  OBVIOUS
<1>3. /\ IsFiniteSet(before) /\ IsFiniteSet(after) /\ IsFiniteSet(Workers)
      /\ Cardinality(before) \in Nat /\ Cardinality(after) \in Nat /\ Cardinality(Workers) \in Nat
  BY <1>1, <1>2, Threads, FS_Subset, FS_CardinalityType
<1>4. late + Cardinality(before) < Cardinality(Workers)
  BY <1>2 DEF LateInv
<1>5. CASE LateStays
  <2>1. late' = late /\ Cardinality(after) <= Cardinality(before)
    BY <1>2, <1>3, <1>5, FS_Subset DEF LateStays
  <2>2. QED
    BY <1>1, <1>2, <1>3, <1>4, <2>1 DEF LateInv
<1>6. CASE LateCounted
  <2>1. PICK w \in before : after \subseteq before \ {w}
    BY <1>2, <1>6 DEF LateCounted
  <2>2. IsFiniteSet(before \ {w}) /\ Cardinality(before \ {w}) = Cardinality(before) - 1
    BY <1>3, <2>1, FS_RemoveElement
  <2>3. Cardinality(after) <= Cardinality(before) - 1 /\ late' = late + 1
    BY <1>6, <2>1, <2>2, FS_Subset DEF LateCounted
  <2>4. QED
    BY <1>1, <1>2, <1>3, <1>4, <2>3 DEF LateInv
<1>7. CASE LateForgotten
  <2>1. PICK w \in Workers : w \notin after
    BY <1>2, <1>7 DEF LateForgotten
  <2>2. IsFiniteSet(Workers \ {w}) /\ Cardinality(Workers \ {w}) = Cardinality(Workers) - 1
    BY <1>3, <2>1, FS_RemoveElement
  <2>3. after \subseteq Workers \ {w}
    BY <1>1, <1>2, <2>1
  <2>4. Cardinality(after) <= Cardinality(Workers) - 1 /\ late' = 0
    BY <1>7, <2>2, <2>3, FS_Subset DEF LateForgotten
  <2>5. QED
    BY <1>2, <1>3, <2>4 DEF LateInv
<1>8. QED
  BY <1>5, <1>6, <1>7, LateCases

\* At most one failure for each other thread meets a block that it did not see.
THEOREM LateFailuresAreFew == Spec => []LateFailuresBounded
<1>1. Init => LateInv
  <2> SUFFICES ASSUME Init PROVE LateInv
    OBVIOUS
  <2>1. LateThreads = {} /\ late = 0
    BY DEF Init, LateThreads, MayBeLate, Registering
  <2>2. Cardinality({}) = 0 /\ Cardinality(Workers) \in Nat /\ Cardinality(Workers) # 0
    BY Threads, FS_EmptySet, FS_CardinalityType
  <2>3. QED
    BY <2>1, <2>2 DEF LateInv
<1>2. Inv /\ LateInv => LateFailuresBounded
  <2> SUFFICES ASSUME Inv, LateInv PROVE late < Cardinality(Workers)
    BY DEF LateFailuresBounded
  <2>1. LateThreads \subseteq Workers /\ late \in Nat
    BY DEF LateThreads, Inv, TypeOK, HistoryOK
  <2>2. Cardinality(LateThreads) \in Nat /\ Cardinality(Workers) \in Nat
    BY <2>1, Threads, FS_Subset, FS_CardinalityType
  <2>3. QED
    BY <2>1, <2>2 DEF LateInv
<1>3. QED
  BY <1>1, <1>2, LateStep, Invariant, PTL DEF Spec

-----------------------------------------------------------------------------
\* A thread that waits while it holds a row, but not that of the e-mail address, is a
\* DELETE that found both; it waits for whoever holds the e-mail address.
LEMMA WaitsForEmail ==
    ASSUME Inv, NEW v \in Workers, NEW k \in Scopes, lockedBy[k] = v, lockedBy[Email] # v,
           NEW x \in WaitsFor(v)
    PROVE  lockedBy[Email] = x
<1>1. Shape(v) /\ Locks(v) /\ k # Email
  BY DEF Inv
<1>2. pc[v] \in {"select", "insert", "deleting"}
  BY DEF WaitsFor
<1>3. draft[v][k] = None
  BY <1>1, <1>2 DEF Shape, Locks, Registering
<1>4. k \in targets[v] /\ pc[v] = "deleting" /\ k \in Keys(req[v])
  BY <1>1, <1>3 DEF Locks
<1>5. PICK j \in targets[v] : x = lockedBy[j] /\ x # v
  BY <1>4 DEF WaitsFor
<1>6. j \in Keys(req[v])
  BY <1>1, <1>5 DEF Locks, Inv, TypeOK, HandlersOK
<1>7. j = Email
  BY <1>1, <1>4, <1>5, <1>6 DEF Keys
<1>8. QED
  BY <1>5, <1>7

\* Whoever is waited for holds a row, and is another thread.
LEMMA WaitedForHolds ==
    ASSUME Inv, NEW v \in Workers, NEW x \in WaitsFor(v)
    PROVE  x # v /\ \E k \in Scopes : lockedBy[k] = x
BY DEF WaitsFor, Inv, TypeOK, HandlersOK

\* PostgreSQL looks for circles of any length, DeadlockDetected for pairs: every set of
\* threads that wait for each other, however large, has a pair that it finds.
THEOREM DeadlocksArePairs == Spec => []CirclesArePairs
<1>1. ASSUME Inv PROVE CirclesArePairs
  <2> SUFFICES ASSUME NEW S \in SUBSET Workers, NEW w \in S,
                      \A u \in S : WaitsFor(u) \cap S # {}
               PROVE  \E u, v \in S : v \in WaitsFor(u) /\ u \in WaitsFor(v)
    BY DEF CirclesArePairs
  <2>1. PICK v \in S : v \in WaitsFor(w)
    OBVIOUS
  <2>2. PICK x \in S : x \in WaitsFor(v)
    OBVIOUS
  <2>3. PICK y \in S : y \in WaitsFor(x)
    OBVIOUS
  <2>4. PICK z \in S : z \in WaitsFor(y)
    OBVIOUS
  <2>5. CASE lockedBy[Email] = v
    <3>1. lockedBy[Email] # x /\ \E k \in Scopes : lockedBy[k] = x
      BY <1>1, <2>2, <2>5, WaitedForHolds
    <3>2. y = v
      BY <1>1, <2>3, <2>5, <3>1, WaitsForEmail
    <3>3. QED
      BY <2>2, <2>3, <3>2
  <2>6. CASE lockedBy[Email] # v
    <3>1. lockedBy[Email] = x
      BY <1>1, <2>1, <2>2, <2>6, WaitedForHolds, WaitsForEmail
    <3>2. lockedBy[Email] # y /\ \E k \in Scopes : lockedBy[k] = y
      BY <1>1, <2>3, <3>1, WaitedForHolds
    <3>3. z = x
      BY <1>1, <2>4, <3>1, <3>2, WaitsForEmail
    <3>4. QED
      BY <2>3, <2>4, <3>3
  <2>7. QED
    BY <2>5, <2>6
<1>2. QED
  BY <1>1, Invariant, PTL
=============================================================================
