--------------------------- MODULE AccountsProofs ---------------------------
(***************************************************************************)
(* Proofs about Accounts for every set of addresses, threads and seeded     *)
(* users, every page size and all bounds: typing, what was told about an    *)
(* account stays true, the reader of the audit log skips nothing, and the   *)
(* log has one row of each registration and of each seeded user.            *)
(***************************************************************************)
EXTENDS Accounts, AuditLogProofs

\* A worker is at a step of the endpoint its request names, with that
\* endpoint's codes; typing alone does not relate the two.
HandlerShape ==
    /\ clock \in Nat /\ crashes \in Nat
    /\ req = [w \in Workers |-> req[w]] /\ draft = [w \in Workers |-> draft[w]]
    /\ entitled \in [Workers -> BOOLEAN] /\ failed \in [Workers -> BOOLEAN]
    /\ issued = [i \in Seeds |-> issued[i]]
    /\ \A w \in Workers :
        /\ pc[w] \in {"register", "create"} => req[w].op = "register"
        /\ pc[w] = "login" => req[w].op = "login"
        /\ pc[w] \in {"audit", "answer"} /\ code[w] \in {201, 400} => req[w].op = "register"
        /\ pc[w] \in {"audit", "answer"} /\ code[w] = 503 => req[w].op = "register"
        /\ pc[w] \in {"audit", "answer"} /\ code[w] = 401 => req[w].op = "login"
        /\ pc[w] # "idle" /\ req[w].op = "register" =>
              req[w].email \in Email /\ req[w].password \in Passwords
        /\ pc[w] # "idle" /\ req[w].op = "login" => req[w].email \in Email

BaseInv == TypeOK /\ HandlerShape

-----------------------------------------------------------------------------
\* Addresses, accounts and seeded users are what they are declared to be.
LEMMA Shapes ==
    /\ Seeds = 1..Len(SeedUsers) /\ Len(SeedUsers) \in Nat \ {0}
    /\ \A e \in Email : Normal(e) \in Email /\ Normal(Normal(e)) = Normal(e)
    /\ \A i \in Seeds : SeedEmail(i) \in Email /\ Normal(SeedEmail(i)) = SeedEmail(i)
    /\ \A i, j \in Seeds : SeedEmail(i) = SeedEmail(j) => i = j
    /\ \A p \in Secrets, r \in Roles : Account(p, r) \in Row
    /\ \A i \in Seeds : SeedUsers[i].role \in Roles /\ SeedUsers[i].password \in Secrets
    /\ \A n \in Nat, i \in Seeds : Generated(n, i) \in Secrets
    /\ Passwords \subseteq Secrets
<1>1. Seeds = 1..Len(SeedUsers) /\ Len(SeedUsers) > 0
  BY SeedsAreUsers DEF Seeds
<1>2. \A e \in Email : Normal(e) \in Email /\ Normal(Normal(e)) = Normal(e)
  BY DEF Email, Normal, Lower
<1>3. \A i \in Seeds : SeedUsers[i].name \in Names /\ SeedUsers[i].role \in Roles
  BY SeedsAreUsers DEF Seeds
<1>4. \A i \in Seeds : SeedEmail(i) \in Email /\ Normal(SeedEmail(i)) = SeedEmail(i)
  BY <1>3 DEF SeedEmail, Email, Lower, Normal
<1>5. ASSUME NEW i \in Seeds, NEW j \in Seeds, SeedEmail(i) = SeedEmail(j) PROVE i = j
  <2>1. SeedUsers[i].name = SeedUsers[j].name
    BY <1>5 DEF SeedEmail, Lower
  <2>2. QED
    BY <2>1, SeedsAreUsers DEF Seeds
<1>6. \A p \in Secrets, r \in Roles : Account(p, r) \in Row
  BY DEF Account, Row, Hash
<1>7. QED
  BY <1>1, <1>2, <1>3, <1>4, <1>5, <1>6 DEF Secrets, Generated

-----------------------------------------------------------------------------
LEMMA BaseInit == Init => BaseInv
BY Shapes DEF Init, AuditInit, BaseInv, TypeOK, HandlerShape

\* A request is registered, a login or another one; its address is an address.
LEMMA RequestShapes ==
    ASSUME NEW r \in Requests
    PROVE  /\ r.op \in {"register", "login", "other"}
           /\ r.op = "register" => r.email \in Email /\ r.password \in Passwords
           /\ r.op = "login" => r.email \in Email
BY AddressesTyped DEF Requests

\* The row of log_action has the stamp after the clock.
LEMMA AuditRowStamp ==
    ASSUME NEW a, NEW u, NEW f, NEW d
    PROVE  AuditRow(a, u, f, d).stamp = clock + 1
BY DEF AuditRow

\* A handler that calls log_action has its row, whose stamp was just taken.
LEMMA ThenLogShape ==
    ASSUME BaseInv, NEW w \in Workers, NEW c, NEW a, NEW u, NEW f, NEW d,
           ThenLog(w, c, a, u, f, d), log' = log
    PROVE  /\ pc' = [pc EXCEPT ![w] = "audit"] /\ code' = [code EXCEPT ![w] = c]
           /\ clock' \in Nat /\ clock' = clock + 1
           /\ draft' = [v \in Workers |-> draft'[v]]
           /\ draft'[w].stamp = clock + 1 /\ \A v \in Workers : v # w => draft'[v] = draft[v]
           /\ \A v \in Workers : pc'[v] = "audit" => draft'[v].stamp \in 1..clock'
           /\ \A r \in log' : r.stamp \in 1..clock'
<1>1. draft' = [draft EXCEPT ![w] = AuditRow(a, u, f, d)] /\ draft = [v \in Workers |-> draft[v]]
  BY DEF ThenLog, BaseInv, HandlerShape
<1>2. draft'[w].stamp = clock + 1 /\ \A v \in Workers : v # w => draft'[v] = draft[v]
  BY <1>1, AuditRowStamp
<1>3. clock \in Nat /\ clock' = clock + 1 /\ pc' = [pc EXCEPT ![w] = "audit"]
      /\ code' = [code EXCEPT ![w] = c] /\ DOMAIN pc = Workers
  BY DEF ThenLog, BaseInv, HandlerShape, TypeOK
<1>4. \A v \in Workers : pc[v] = "audit" => draft[v].stamp \in 1..clock
  BY DEF BaseInv, TypeOK
<1>5. \A v \in Workers : pc'[v] = "audit" => draft'[v].stamp \in 1..clock'
  BY <1>2, <1>3, <1>4
<1>6. \A r \in log' : r.stamp \in 1..clock'
  BY <1>3 DEF BaseInv, TypeOK
<1>7. QED
  BY <1>1, <1>2, <1>3, <1>5, <1>6

LEMMA BaseStep == BaseInv /\ [Next]_vars => BaseInv'
<1> SUFFICES ASSUME BaseInv, [Next]_vars PROVE BaseInv'
  OBVIOUS
<1> USE DEF BaseInv
<1>1. ASSUME NEW w \in Workers, Begin(w) PROVE BaseInv'
  <2>1. PICK r \in Requests :
            /\ req' = [req EXCEPT ![w] = r]
            /\ entitled' = [entitled EXCEPT ![w] =
                  /\ r.op = "login"
                  /\ WasTold(Normal(r.email), r.password) /\ users[Normal(r.email)].active]
            /\ IF r.op = "other"
               THEN ThenLog(w, 200, "OTHER", None, r.from, r.details)
               ELSE Goto(w, r.op)
    BY <1>1 DEF Begin
  <2>2. r.op \in {"register", "login", "other"}
        /\ (r.op = "register" => r.email \in Email /\ r.password \in Passwords)
        /\ (r.op = "login" => r.email \in Email)
    BY RequestShapes
  <2>3. phase = "serving" /\ pc[w] = "idle"
        /\ UNCHANGED <<log, reader, users, seeding, failed, history, crashes, faults>>
    BY <1>1 DEF Begin
  <2>4. CASE r.op = "other"
    <3>1. ThenLog(w, 200, "OTHER", None, r.from, r.details)
      BY <2>1, <2>4
    <3>2. TypeOK'
      BY <2>3, <3>1, ThenLogShape DEF TypeOK, seeding
    <3>3. HandlerShape'
      BY <2>1, <2>2, <2>3, <2>4, <3>1, ThenLogShape DEF TypeOK, HandlerShape, seeding
    <3>4. QED
      BY <3>2, <3>3
  <2>5. CASE r.op # "other"
    <3>1. Goto(w, r.op)
      BY <2>1, <2>5
    <3>2. TypeOK'
      BY <2>2, <2>3, <2>5, <3>1 DEF Goto, TypeOK, seeding
    <3>3. HandlerShape'
      BY <2>1, <2>2, <2>3, <2>5, <3>1 DEF Goto, TypeOK, HandlerShape, seeding
    <3>4. QED
      BY <3>2, <3>3
  <2>6. QED
    BY <2>4, <2>5
<1>2. ASSUME NEW w \in Workers, RegisterCheck(w) PROVE BaseInv'
  BY <1>2 DEF RegisterCheck, Reply, Goto, TypeOK, HandlerShape, seeding, counters
<1>3. ASSUME NEW w \in Workers, RegisterCreate(w) PROVE BaseInv'
  <2> DEFINE e == Normal(req[w].email)
  <2>1. /\ pc[w] = "create" /\ phase = "serving" /\ req[w].op = "register"
        /\ e \in Email /\ Account(req[w].password, "CLIENT") \in Row
    BY <1>3, Shapes DEF RegisterCreate, TypeOK, HandlerShape, Roles
  <2>2. CASE Known(e) /\ Reply(w, 503) /\ UNCHANGED users
    BY <1>3, <2>1, <2>2 DEF RegisterCreate, Reply, TypeOK, HandlerShape, seeding, counters
  <2>3. CASE /\ users' = [users EXCEPT ![e] = Account(req[w].password, "CLIENT")]
             /\ ThenLog(w, 201, "USER_REGISTER", e, req[w].from, NoDetails)
    <3> HIDE DEF e
    <3>1. users' \in [Email -> Row \cup {None}]
      BY <2>1, <2>3 DEF TypeOK
    <3>2. UNCHANGED <<log, phase, at, issued, req, entitled, failed, crashes>>
      BY <1>3 DEF RegisterCreate, seeding, counters
    <3>3. TypeOK'
      BY <2>1, <2>3, <3>1, <3>2, ThenLogShape DEF TypeOK
    <3>4. HandlerShape'
      BY <2>1, <2>3, <3>2, ThenLogShape DEF TypeOK, HandlerShape
    <3>5. QED
      BY <3>3, <3>4
  <2>4. QED
    BY <1>3, <2>2, <2>3 DEF RegisterCreate
<1>4. ASSUME NEW w \in Workers, LoginBlocked(w) PROVE BaseInv'
  <2>1. /\ ThenLog(w, 429, "LOGIN_BLOCKED", None, req[w].from, NoDetails)
        /\ pc[w] = "login" /\ UNCHANGED <<log, users, phase, at, issued, req, entitled, failed, crashes>>
    BY <1>4 DEF LoginBlocked, seeding, counters
  <2>2. TypeOK'
    BY <2>1, ThenLogShape DEF TypeOK
  <2>3. HandlerShape'
    BY <2>1, ThenLogShape DEF TypeOK, HandlerShape
  <2>4. QED
    BY <2>2, <2>3
<1>5. ASSUME NEW w \in Workers, LoginVerify(w) PROVE BaseInv'
  <2>1. PICK user \in Email \cup {None} :
            \/ ThenLog(w, 200, "LOGIN_SUCCESS", user, req[w].from, NoDetails)
            \/ ThenLog(w, 401, "LOGIN_FAILED", user, req[w].from, NoDetails)
    BY <1>5, Shapes DEF LoginVerify, HandlerShape
  <2>2. pc[w] = "login" /\ UNCHANGED <<log, users, phase, at, issued, req, entitled, failed, crashes>>
    BY <1>5 DEF LoginVerify, seeding, counters
  <2>3. PICK c \in {200, 401}, a \in {"LOGIN_SUCCESS", "LOGIN_FAILED"} :
            ThenLog(w, c, a, user, req[w].from, NoDetails)
    BY <2>1
  <2>4. TypeOK'
    BY <2>2, <2>3, ThenLogShape DEF TypeOK
  <2>5. HandlerShape'
    BY <2>2, <2>3, ThenLogShape DEF TypeOK, HandlerShape
  <2>6. QED
    BY <2>4, <2>5
<1>6. ASSUME NEW w \in Workers, StatementFails(w) PROVE BaseInv'
  BY <1>6 DEF StatementFails, Reply, TypeOK, HandlerShape, seeding
<1>7. ASSUME NEW w \in Workers, AuditWrite(w) PROVE BaseInv'
  BY <1>7 DEF AuditWrite, TypeOK, HandlerShape, seeding, counters
<1>8. ASSUME NEW w \in Workers, AuditSwallowed(w) PROVE BaseInv'
  BY <1>8 DEF AuditSwallowed, TypeOK, HandlerShape, seeding
<1>9. ASSUME NEW w \in Workers, Answer(w) PROVE BaseInv'
  <2>1. /\ pc' = [pc EXCEPT ![w] = "idle"] /\ req' = [req EXCEPT ![w] = None]
        /\ code' = [code EXCEPT ![w] = 0] /\ draft' = [draft EXCEPT ![w] = None]
        /\ entitled' = [entitled EXCEPT ![w] = FALSE] /\ failed' = [failed EXCEPT ![w] = FALSE]
        /\ UNCHANGED <<log, clock, users, phase, at, issued, crashes>>
    BY <1>9 DEF Answer, seeding, counters, auditVars
  <2>2. TypeOK'
    BY <2>1 DEF TypeOK, HandlerShape
  <2>3. HandlerShape'
    <3>1. /\ pc'[w] = "idle"
          /\ \A v \in Workers : v # w => pc'[v] = pc[v] /\ req'[v] = req[v] /\ code'[v] = code[v]
      BY <2>1 DEF TypeOK, HandlerShape
    <3>2. /\ req' = [v \in Workers |-> req'[v]] /\ draft' = [v \in Workers |-> draft'[v]]
          /\ entitled' \in [Workers -> BOOLEAN] /\ failed' \in [Workers -> BOOLEAN]
      BY <2>1 DEF HandlerShape
    <3>3. QED
      BY <2>1, <3>1, <3>2 DEF HandlerShape
  <2>4. QED
    BY <2>2, <2>3
<1>10. CASE SeedUser
  <2>1. PICK password \in Secrets :
            /\ users' = [users EXCEPT ![SeedEmail(at)] = Account(password, SeedUsers[at].role)]
            /\ issued' = [issued EXCEPT ![at] = password]
    BY <1>10, Shapes DEF SeedUser, TypeOK, HandlerShape
  <2>2. users' \in [Email -> Row \cup {None}]
    BY <2>1, Shapes DEF TypeOK
  <2>3. at' \in Seeds /\ phase' \in {"users", "ready"}
    BY <1>10, Shapes DEF SeedUser, Advance, TypeOK
  <2>4. \A w \in Workers : pc[w] = "idle"
    BY <1>10 DEF SeedUser, TypeOK
  <2>5. QED
    BY <1>10, <2>1, <2>2, <2>3, <2>4 DEF SeedUser, TypeOK, HandlerShape, handler, history, counters, auditVars
<1>11. ASSUME NEW a, NEW u, SeedLog(a, u)
       PROVE  clock' \in Nat /\ (\A r \in log' : r.stamp \in 1..clock')
  BY <1>11, AuditRowStamp DEF SeedLog, TypeOK, HandlerShape
<1>12. CASE SeedReady
  <2>1. at' \in Seeds /\ phase' \in {"ready", "verified"}
    BY <1>12, Shapes DEF SeedReady, Advance, TypeOK
  <2>2. \A w \in Workers : pc[w] = "idle"
    BY <1>12 DEF SeedReady, TypeOK
  <2>3. clock' \in Nat /\ (\A r \in log' : r.stamp \in 1..clock')
    BY <1>11, <1>12 DEF SeedReady
  <2>4. QED
    BY <1>12, <2>1, <2>2, <2>3 DEF SeedReady, TypeOK, HandlerShape, handler
<1>13. CASE SeedVerified
  <2>1. \A w \in Workers : pc[w] = "idle"
    BY <1>13 DEF SeedVerified, TypeOK
  <2>2. clock' \in Nat /\ (\A r \in log' : r.stamp \in 1..clock')
    BY <1>11, <1>13 DEF SeedVerified
  <2>3. QED
    BY <1>13, <2>1, <2>2 DEF SeedVerified, TypeOK, HandlerShape, handler
<1>14. CASE Restart
  BY <1>14, Shapes DEF Restart, TypeOK, HandlerShape, history, auditVars
<1>15. ASSUME NEW e \in Barred, Deactivate(e) PROVE BaseInv'
  <2>1. e \in Email /\ users[e] \in Row
    BY <1>15, AddressesTyped DEF Deactivate, Known, TypeOK
  <2>2. users' \in [Email -> Row \cup {None}]
    BY <1>15, <2>1 DEF Deactivate, TypeOK, Row
  <2>3. entitled' \in [Workers -> BOOLEAN]
    BY <1>15 DEF Deactivate
  <2>4. QED
    BY <1>15, <2>2, <2>3 DEF Deactivate, TypeOK, HandlerShape, seeding, history, counters, auditVars
<1>16. CASE AdminReads
  BY <1>16 DEF AdminReads, ReadPage, TypeOK, HandlerShape, accountVars
<1>17. CASE UNCHANGED vars
  BY <1>17 DEF vars, TypeOK, HandlerShape
<1>18. QED
  BY <1>1, <1>2, <1>3, <1>4, <1>5, <1>6, <1>7, <1>8, <1>9, <1>10, <1>12, <1>13, <1>14,
     <1>15, <1>16, <1>17 DEF Next, Handle, Idle

\* Every reachable state is well typed, with every handler at a step of its own.
LEMMA BaseInvariant == Spec => []BaseInv
BY BaseInit, BaseStep, PTL DEF Spec

\* Every reachable state of registration, login check, seed.py and the audit log
\* is well typed; handlers run only while the server does.
THEOREM TypeCorrect == Spec => []TypeOK
<1>1. BaseInv => TypeOK
  BY DEF BaseInv
<1>2. QED
  BY BaseInvariant, <1>1, PTL

-----------------------------------------------------------------------------
\* What AccountsStand rests on.  An account has the hash and the role that its
\* owner was told of, a seeded user those of this start; a registration that has
\* its row is the only one of its address, and no seeded user's.
Registered(e, password) ==
    Known(e) /\ users[e].hash = Hash(password) /\ users[e].role = "CLIENT"
Seeded(i) ==
    /\ Known(SeedEmail(i))
    /\ users[SeedEmail(i)].hash = Hash(issued[i]) /\ users[SeedEmail(i)].role = SeedUsers[i].role
Created(w) == pc[w] \in {"audit", "answer"} /\ code[w] = 201
NoSeed(e) == \A i \in Seeds : e # SeedEmail(i)

SpellingInv == \A e \in Email : Known(e) => Normal(e) = e
SeedInv == \A i \in Seeds : phase # "users" \/ i < at => Seeded(i)
CreatedInv ==
    \A w \in Workers : Created(w) =>
        /\ Registered(Normal(req[w].email), req[w].password) /\ NoSeed(Normal(req[w].email))
        /\ \A t \in told : t.email # Normal(req[w].email)
        /\ \A v \in Workers : Created(v) /\ Normal(req[v].email) = Normal(req[w].email) => v = w
ToldInv ==
    \A t \in told :
        /\ t.email \in Email /\ Registered(t.email, t.password) /\ NoSeed(t.email)
        /\ \A u \in told : u.email = t.email => u = t

StandInv == SpellingInv /\ SeedInv /\ CreatedInv /\ ToldInv

LEMMA StandsThen == BaseInv /\ StandInv => AccountsStand
<1> SUFFICES ASSUME BaseInv, StandInv PROVE AccountsStand
  OBVIOUS
<1>1. \A t \in told : /\ Known(t.email)
                      /\ users[t.email].hash = Hash(t.password) /\ users[t.email].role = "CLIENT"
                      /\ \A u \in told : u.email = t.email => u = t
  BY DEF StandInv, ToldInv, Registered
<1>2. \A e, f \in Email : Known(e) /\ Known(f) /\ e.name = f.name => e = f
  BY DEF StandInv, SpellingInv, Normal
<1>3. phase = "serving" => \A i \in Seeds : Seeded(i)
  BY DEF StandInv, SeedInv
<1>4. QED
  BY <1>1, <1>2, <1>3 DEF AccountsStand, Seeded

LEMMA StandInit == Init => StandInv
<1> SUFFICES ASSUME Init PROVE StandInv
  OBVIOUS
<1>1. SpellingInv
  BY DEF Init, SpellingInv, Known
<1>2. SeedInv
  BY Shapes DEF Init, SeedInv
<1>3. CreatedInv /\ ToldInv
  BY DEF Init, CreatedInv, ToldInv, Created
<1>4. QED
  BY <1>1, <1>2, <1>3 DEF StandInv

\* A step that leaves the accounts alone and creates none.
Quiet ==
    /\ UNCHANGED <<users, phase, at, issued, told>>
    /\ \A w \in Workers : Created(w)' => Created(w) /\ req'[w] = req[w]

LEMMA QuietKeeps == ASSUME StandInv, Quiet PROVE StandInv'
<1>1. SpellingInv' /\ ToldInv'
  BY DEF StandInv, Quiet, SpellingInv, ToldInv, Registered, Known, NoSeed
<1>2. SeedInv'
  BY DEF StandInv, Quiet, SeedInv, Seeded, Known
<1>3. CreatedInv'
  <2>1. SUFFICES ASSUME NEW w \in Workers, Created(w)'
                 PROVE  (/\ Registered(Normal(req[w].email), req[w].password) /\ NoSeed(Normal(req[w].email))
                         /\ \A t \in told : t.email # Normal(req[w].email)
                         /\ \A v \in Workers : Created(v) /\ Normal(req[v].email) = Normal(req[w].email) => v = w)'
    BY DEF CreatedInv
  <2>2. Created(w) /\ req'[w] = req[w] /\ users' = users /\ told' = told
    BY <2>1 DEF Quiet
  <2>3. \A v \in Workers : Created(v)' => Created(v) /\ req'[v] = req[v]
    BY DEF Quiet
  <2>4. QED
    BY <2>2, <2>3 DEF StandInv, CreatedInv, Registered, Known, NoSeed
<1>4. QED
  BY <1>1, <1>2, <1>3 DEF StandInv

\* An account that is written for an unknown address, as register does.
LEMMA CreateKeeps ==
    ASSUME BaseInv, StandInv, NEW w \in Workers, RegisterCreate(w)
    PROVE  StandInv'
<1>0. PICK e \in Email : e = Normal(req[w].email)
  BY Shapes DEF RegisterCreate, BaseInv, HandlerShape
<1>1. /\ pc[w] = "create" /\ phase = "serving" /\ req[w].op = "register"
      /\ e \in Email /\ Normal(e) = e /\ Account(req[w].password, "CLIENT") \in Row
      /\ UNCHANGED <<phase, at, issued, req, told>>
  BY <1>0, Shapes DEF RegisterCreate, BaseInv, TypeOK, HandlerShape, Roles, seeding, history
<1>2. CASE Reply(w, 503) /\ UNCHANGED users
  <2>1. Quiet
    BY <1>1, <1>2 DEF Quiet, Reply, Created, BaseInv, TypeOK
  <2>2. QED
    BY <2>1, QuietKeeps
<1>3. CASE /\ ~Known(e)
           /\ users' = [users EXCEPT ![e] = Account(req[w].password, "CLIENT")]
           /\ ThenLog(w, 201, "USER_REGISTER", e, req[w].from, NoDetails)
  <2>1. /\ pc' = [pc EXCEPT ![w] = "audit"] /\ code' = [code EXCEPT ![w] = 201]
        /\ DOMAIN pc = Workers /\ DOMAIN code = Workers /\ DOMAIN users = Email
    BY <1>3 DEF ThenLog, BaseInv, TypeOK
  <2>2. /\ ~Created(w) /\ Created(w)'
        /\ \A v \in Workers : v # w => (Created(v)' <=> Created(v))
    BY <1>1, <2>1 DEF Created
  <2>3. /\ \A f \in Email : f # e => users'[f] = users[f]
        /\ users'[e] = Account(req[w].password, "CLIENT") /\ users'[e] # None
    BY <1>1, <1>3, <2>1, NoneIsNoRow
  <2>4. Registered(e, req[w].password)'
    BY <2>3, <1>1 DEF Registered, Known, Account
  <2>5. NoSeed(e)
    BY <1>1, <1>3 DEF NoSeed, StandInv, SeedInv, Seeded
  <2>6. \A t \in told : t.email # e /\ t.email \in Email
    BY <1>3 DEF StandInv, ToldInv, Registered
  <2>7. \A v \in Workers : Created(v) => Normal(req[v].email) # e /\ Normal(req[v].email) \in Email
    BY <1>3, Shapes DEF StandInv, CreatedInv, Registered, Created, BaseInv, HandlerShape
  <2>8. SpellingInv'
    BY <1>1, <2>3 DEF StandInv, SpellingInv, Known
  <2>9. SeedInv'
    <3>1. \A i \in Seeds : Seeded(i) /\ SeedEmail(i) # e /\ SeedEmail(i) \in Email
      BY <1>1, <2>5, Shapes DEF StandInv, SeedInv, NoSeed
    <3>2. QED
      BY <1>1, <2>3, <3>1 DEF SeedInv, Seeded, Known
  <2>10. ToldInv'
    BY <1>1, <2>3, <2>6 DEF StandInv, ToldInv, Registered, Known, NoSeed
  <2>11. CreatedInv'
    <3>1. SUFFICES ASSUME NEW v \in Workers, Created(v)'
                   PROVE  (/\ Registered(Normal(req[v].email), req[v].password) /\ NoSeed(Normal(req[v].email))
                           /\ \A t \in told : t.email # Normal(req[v].email)
                           /\ \A x \in Workers : Created(x) /\ Normal(req[x].email) = Normal(req[v].email) => x = v)'
      BY DEF CreatedInv
    <3>2. CASE v = w
      <4>1. Normal(req[v].email) = e
        BY <1>0, <3>2
      <4>2. \A x \in Workers : Created(x)' /\ Normal(req[x].email) = e => x = v
        BY <2>2, <2>7, <3>2
      <4>3. QED
        <5>1. Normal(req[v].email)' = e /\ req'[v].password = req[w].password /\ told' = told
              /\ \A x \in Workers : req'[x] = req[x]
          BY <1>1, <3>2, <4>1
        <5>2. Registered(e, req[v].password)' /\ NoSeed(e)'
          BY <2>4, <2>5, <3>2, <5>1 DEF NoSeed, Registered, Known
        <5>3. \A x \in Workers : Created(x)' /\ Normal(req[x].email)' = e => x = v
          BY <4>2, <5>1
        <5>4. QED
          BY <2>6, <5>1, <5>2, <5>3
    <3>3. CASE v # w
      <4>1. Created(v) /\ Normal(req[v].email) # e /\ Normal(req[v].email) \in Email
        BY <2>2, <2>7, <3>1, <3>3
      <4>2. Normal(req[w].email) = e
        BY <1>0
      <4>3. QED
        BY <1>0, <1>1, <2>2, <2>3, <3>3, <4>1, <4>2 DEF StandInv, CreatedInv, Registered, Known, NoSeed
    <3>4. QED
      BY <3>2, <3>3
  <2>12. QED
    BY <2>8, <2>9, <2>10, <2>11 DEF StandInv
<1>4. QED
  BY <1>0, <1>2, <1>3 DEF RegisterCreate

\* A registration that is answered passes from CreatedInv to ToldInv.
LEMMA AnswerStands ==
    ASSUME BaseInv, StandInv, NEW w \in Workers, Answer(w)
    PROVE  StandInv'
<1>1. /\ pc[w] = "answer" /\ UNCHANGED <<users, phase, at, issued>>
      /\ pc' = [pc EXCEPT ![w] = "idle"] /\ code' = [code EXCEPT ![w] = 0]
      /\ req' = [req EXCEPT ![w] = None]
      /\ DOMAIN pc = Workers /\ DOMAIN code = Workers /\ DOMAIN req = Workers
  BY DEF Answer, seeding, BaseInv, TypeOK, HandlerShape
<1>2. /\ ~Created(w)'
      /\ \A v \in Workers : v # w => (Created(v)' <=> Created(v)) /\ req'[v] = req[v]
  BY <1>1 DEF Created
<1>3. CASE code[w] # 201
  <2>1. told' = told
    BY <1>3 DEF Answer
  <2>2. Quiet
    BY <1>1, <1>2, <2>1 DEF Quiet
  <2>3. QED
    BY <2>2, QuietKeeps
<1>4. CASE code[w] = 201
  <2> DEFINE e == Normal(req[w].email)
             n == [worker |-> w, email |-> e, password |-> req[w].password]
  <2>1. told' = told \cup {n}
    BY <1>4 DEF Answer
  <2>2. Created(w) /\ e \in Email
    BY <1>1, <1>4, Shapes DEF Created, BaseInv, HandlerShape
  <2>3. /\ Registered(e, req[w].password) /\ NoSeed(e)
        /\ \A t \in told : t.email # e
        /\ \A v \in Workers : Created(v) /\ Normal(req[v].email) = e => v = w
    BY <2>2 DEF StandInv, CreatedInv
  <2>4. n.email = e /\ n.password = req[w].password
    OBVIOUS
  <2> HIDE DEF e, n
  <2>5. ToldInv'
    BY <1>1, <2>1, <2>2, <2>3, <2>4 DEF StandInv, ToldInv, Registered, Known, NoSeed
  <2>6. CreatedInv'
    BY <1>1, <1>2, <2>1, <2>3, <2>4 DEF StandInv, CreatedInv, Registered, Known, NoSeed
  <2>7. SpellingInv' /\ SeedInv'
    BY <1>1 DEF StandInv, SpellingInv, SeedInv, Seeded, Known
  <2>8. QED
    BY <2>5, <2>6, <2>7 DEF StandInv
<1>5. QED
  BY <1>3, <1>4

\* The script writes seeded users only, before the server runs.
LEMMA SeedUserStands ==
    ASSUME BaseInv, StandInv, SeedUser
    PROVE  StandInv'
<1>1. PICK password \in Secrets :
          /\ users' = [users EXCEPT ![SeedEmail(at)] = Account(password, SeedUsers[at].role)]
          /\ issued' = [issued EXCEPT ![at] = password]
  BY Shapes DEF SeedUser, BaseInv, TypeOK, HandlerShape
<1>2. /\ phase = "users" /\ at \in Seeds /\ UNCHANGED <<told, pc, code>>
      /\ \A w \in Workers : ~Created(w)
      /\ DOMAIN users = Email /\ DOMAIN issued = Seeds
  BY DEF SeedUser, BaseInv, TypeOK, HandlerShape, history, handler, Created
<1>3. /\ SeedEmail(at) \in Email /\ Normal(SeedEmail(at)) = SeedEmail(at)
      /\ users'[SeedEmail(at)] = Account(password, SeedUsers[at].role)
      /\ users'[SeedEmail(at)] # None /\ issued'[at] = password
      /\ \A f \in Email : f # SeedEmail(at) => users'[f] = users[f]
      /\ \A i \in Seeds : i # at => issued'[i] = issued[i] /\ SeedEmail(i) # SeedEmail(at)
  BY <1>1, <1>2, Shapes, NoneIsNoRow
<1>4. SpellingInv'
  BY <1>3 DEF StandInv, SpellingInv, Known
<1>5. ToldInv'
  BY <1>2, <1>3 DEF StandInv, ToldInv, Registered, Known, NoSeed
<1>6. CreatedInv'
  BY <1>2 DEF CreatedInv, Created
<1>7. SeedInv'
  <2>1. \A i \in Seeds : i < at => Seeded(i)
    BY <1>2 DEF StandInv, SeedInv
  <2>2. \A i \in Seeds : i < at => Seeded(i)'
    BY <1>3, <2>1, Shapes DEF Seeded, Known
  <2>3. \A i \in Seeds : i = at => Seeded(i)'
    BY <1>3 DEF Seeded, Known, Account
  <2>4. \A i \in Seeds : phase' # "users" \/ i < at' => i < at \/ i = at
    BY <1>2, Shapes DEF SeedUser, Advance
  <2>5. QED
    BY <2>2, <2>3, <2>4 DEF SeedInv
<1>8. QED
  BY <1>4, <1>5, <1>6, <1>7 DEF StandInv

\* An operator changes who is active, and nothing that was told.
LEMMA DeactivateStands ==
    ASSUME BaseInv, StandInv, NEW e \in Barred, Deactivate(e)
    PROVE  StandInv'
<1>1. /\ e \in Email /\ users[e] \in Row /\ DOMAIN users = Email
      /\ users' = [users EXCEPT ![e].active = FALSE]
      /\ UNCHANGED <<phase, at, issued, pc, req, code, told>>
  BY AddressesTyped DEF Deactivate, Known, BaseInv, TypeOK, seeding, history
<1>2. /\ users'[e] \in Row /\ users'[e].hash = users[e].hash /\ users'[e].role = users[e].role
      /\ \A f \in Email : f # e => users'[f] = users[f]
  BY <1>1 DEF Row
<1>3. \A f \in Email : /\ Known(f)' <=> Known(f)
                       /\ users'[f].hash = users[f].hash /\ users'[f].role = users[f].role
  BY <1>1, <1>2, NoneIsNoRow DEF Known
<1>4. SpellingInv'
  BY <1>3 DEF StandInv, SpellingInv
<1>5. SeedInv'
  BY <1>1, <1>3, Shapes DEF StandInv, SeedInv, Seeded
<1>6. ToldInv'
  BY <1>1, <1>3 DEF StandInv, ToldInv, Registered, NoSeed
<1>7. CreatedInv'
  <2>1. \A w \in Workers : Created(w) => Normal(req[w].email) \in Email
    BY Shapes DEF Created, BaseInv, HandlerShape
  <2>2. QED
    BY <1>1, <1>3, <2>1 DEF StandInv, CreatedInv, Created, Registered, NoSeed
<1>8. QED
  BY <1>4, <1>5, <1>6, <1>7 DEF StandInv

LEMMA StandStep == BaseInv /\ StandInv /\ [Next]_vars => StandInv'
<1> SUFFICES ASSUME BaseInv, StandInv, [Next]_vars PROVE StandInv'
  OBVIOUS
<1>1. ASSUME NEW w \in Workers, Begin(w) PROVE StandInv'
  <2>1. PICK r \in Requests :
            /\ req' = [req EXCEPT ![w] = r]
            /\ IF r.op = "other"
               THEN ThenLog(w, 200, "OTHER", None, r.from, r.details)
               ELSE Goto(w, r.op)
    BY <1>1 DEF Begin
  <2>2. /\ pc[w] = "idle" /\ UNCHANGED <<users, phase, at, issued, told>>
        /\ DOMAIN pc = Workers /\ DOMAIN code = Workers /\ DOMAIN req = Workers
    BY <1>1 DEF Begin, seeding, history, BaseInv, TypeOK, HandlerShape
  <2>3. ~Created(w)'
    BY <2>1, <2>2, RequestShapes DEF ThenLog, Goto, Created
  <2>4. \A v \in Workers : v # w => (Created(v)' => Created(v)) /\ req'[v] = req[v]
    BY <2>1, <2>2 DEF ThenLog, Goto, Created
  <2>5. Quiet
    BY <2>2, <2>3, <2>4 DEF Quiet
  <2>6. QED
    BY <2>5, QuietKeeps
<1>2. ASSUME NEW w \in Workers,
             \/ RegisterCheck(w) \/ LoginBlocked(w) \/ LoginVerify(w) \/ StatementFails(w)
             \/ AuditWrite(w) \/ AuditSwallowed(w)
      PROVE  StandInv'
  <2>1. /\ UNCHANGED <<users, phase, at, issued, req, told>>
        /\ DOMAIN pc = Workers /\ DOMAIN code = Workers
    BY <1>2 DEF RegisterCheck, LoginBlocked, LoginVerify, StatementFails, AuditWrite, AuditSwallowed,
                seeding, history, BaseInv, TypeOK
  <2>2. \A v \in Workers : Created(v)' => Created(v)
    <3>1. CASE RegisterCheck(w) \/ StatementFails(w)
      BY <2>1, <3>1 DEF RegisterCheck, StatementFails, Reply, Goto, Created
    <3>2. CASE LoginBlocked(w) \/ LoginVerify(w)
      BY <2>1, <3>2 DEF LoginBlocked, LoginVerify, ThenLog, Created
    <3>3. CASE AuditWrite(w) \/ AuditSwallowed(w)
      BY <2>1, <3>3 DEF AuditWrite, AuditSwallowed, Created
    <3>4. QED
      BY <1>2, <3>1, <3>2, <3>3
  <2>3. Quiet
    BY <2>1, <2>2 DEF Quiet
  <2>4. QED
    BY <2>3, QuietKeeps
<1>3. CASE SeedReady \/ SeedVerified
  <2>1. /\ phase \in {"ready", "verified"} /\ phase' # "users"
        /\ UNCHANGED <<users, issued, pc, req, code, told>>
    BY <1>3 DEF SeedReady, SeedVerified, Advance, handler
  <2>2. SeedInv'
    BY <2>1 DEF StandInv, SeedInv, Seeded, Known
  <2>3. SpellingInv' /\ CreatedInv' /\ ToldInv'
    BY <2>1 DEF StandInv, SpellingInv, CreatedInv, ToldInv, Created, Registered, Known, NoSeed
  <2>4. QED
    BY <2>2, <2>3 DEF StandInv
<1>4. CASE Restart
  <2>1. at' = 1 /\ phase' = "users" /\ UNCHANGED <<users, told>> /\ pc' = [w \in Workers |-> "idle"]
    BY <1>4 DEF Restart, history
  <2>2. SeedInv'
    BY <2>1, Shapes DEF SeedInv
  <2>3. SpellingInv' /\ CreatedInv' /\ ToldInv'
    BY <2>1 DEF StandInv, SpellingInv, CreatedInv, ToldInv, Created, Registered, Known, NoSeed
  <2>4. QED
    BY <2>2, <2>3 DEF StandInv
<1>5. CASE AdminReads \/ UNCHANGED vars
  <2>1. Quiet
    BY <1>5 DEF AdminReads, accountVars, vars, Quiet, Created
  <2>2. QED
    BY <2>1, QuietKeeps
<1>6. QED
  BY <1>1, <1>2, <1>3, <1>4, <1>5, CreateKeeps, AnswerStands, SeedUserStands, DeactivateStands
     DEF Next, Handle, Idle

LEMMA StandInvariant == Spec => [](BaseInv /\ StandInv)
<1>1. Init => BaseInv /\ StandInv
  BY BaseInit, StandInit
<1>2. BaseInv /\ StandInv /\ [Next]_vars => (BaseInv /\ StandInv)'
  BY BaseStep, StandStep
<1>3. QED
  BY <1>1, <1>2, PTL DEF Spec

\* What a registration answered 201 has told stays true, over every restart and
\* race: one account of that address, with that password; and the server only
\* runs with the seeded users that this start has printed (register, seed.py).
THEOREM RegistrationsStand == Spec => []AccountsStand
BY StandInvariant, StandsThen, PTL

-----------------------------------------------------------------------------
\* What a handler is about to say.  Between a look-up and the answer a refusal
\* stays true, and an owner who is about to log in still has the password of an
\* active account.
SaysTrue(w) ==
    /\ pc[w] \in {"audit", "answer"} =>
          /\ code[w] \in {400, 503} => Known(Normal(req[w].email)) \/ failed[w]
          /\ code[w] = 401 => ~entitled[w]
          /\ code[w] = 200 /\ req[w].op = "login" =>
                /\ Known(Normal(req[w].email))
                /\ Verify(req[w].password, users[Normal(req[w].email)].hash)
    /\ entitled[w] =>
          /\ pc[w] # "idle" /\ req[w].op = "login"
          /\ Known(Normal(req[w].email)) /\ users[Normal(req[w].email)].active
          /\ Verify(req[w].password, users[Normal(req[w].email)].hash)
ReplyInv == \A w \in Workers : SaysTrue(w)

\* A step of another: accounts that are there keep their hashes.
Bystander(w) ==
    /\ pc'[w] = pc[w] /\ req'[w] = req[w] /\ code'[w] = code[w] /\ failed'[w] = failed[w]
    /\ \A e \in Email : Known(e) => Known(e)' /\ users'[e].hash = users[e].hash
    /\ entitled'[w] => entitled[w] /\ users'[Normal(req[w].email)].active

LEMMA BystanderSaysTrue ==
    ASSUME BaseInv, NEW w \in Workers, SaysTrue(w), Bystander(w)
    PROVE  SaysTrue(w)'
<1>1. pc[w] # "idle" /\ req[w].op \in {"register", "login"} => Normal(req[w].email) \in Email
  BY Shapes DEF BaseInv, HandlerShape
<1>2. pc[w] \in {"audit", "answer"} /\ code[w] \in {400, 503} => req[w].op = "register"
  BY DEF BaseInv, HandlerShape
<1>3. QED
  BY <1>1, <1>2 DEF SaysTrue, Bystander

LEMMA IdleSaysTrue ==
    ASSUME BaseInv, ReplyInv, \A w \in Workers : pc[w] = "idle", UNCHANGED <<pc, entitled>>
    PROVE  ReplyInv'
BY DEF ReplyInv, SaysTrue

\* A step of one worker that leaves the accounts alone.
LEMMA OwnStep ==
    ASSUME BaseInv, ReplyInv, NEW w \in Workers, SaysTrue(w)', users' = users,
           \A v \in Workers : v # w =>
              /\ pc'[v] = pc[v] /\ req'[v] = req[v] /\ code'[v] = code[v]
              /\ failed'[v] = failed[v] /\ entitled'[v] = entitled[v]
    PROVE  ReplyInv'
<1> SUFFICES ASSUME NEW v \in Workers, v # w PROVE SaysTrue(v)'
  BY DEF ReplyInv
<1>1. SaysTrue(v)
  BY DEF ReplyInv
<1>2. entitled[v] => users'[Normal(req[v].email)].active
  BY <1>1 DEF SaysTrue
<1>3. Bystander(v)
  BY <1>2 DEF Bystander, Known
<1>4. QED
  BY <1>1, <1>3, BystanderSaysTrue

LEMMA BeginSaysTrue ==
    ASSUME BaseInv, StandInv, ReplyInv, NEW w \in Workers, Begin(w)
    PROVE  ReplyInv'
<1>1. PICK r \in Requests :
          /\ req' = [req EXCEPT ![w] = r]
          /\ entitled' = [entitled EXCEPT ![w] =
                /\ r.op = "login"
                /\ WasTold(Normal(r.email), r.password) /\ users[Normal(r.email)].active]
          /\ IF r.op = "other"
             THEN ThenLog(w, 200, "OTHER", None, r.from, r.details)
             ELSE Goto(w, r.op)
  BY DEF Begin
<1>2. /\ phase = "serving" /\ UNCHANGED <<users, failed>>
      /\ DOMAIN pc = Workers /\ DOMAIN code = Workers /\ DOMAIN req = Workers /\ DOMAIN entitled = Workers
  BY DEF Begin, BaseInv, TypeOK, HandlerShape
<1>3. r.op \in {"register", "login", "other"} /\ (r.op = "login" => Normal(r.email) \in Email)
  BY RequestShapes, Shapes
<1>4. entitled'[w] => /\ r.op = "login" /\ WasTold(Normal(r.email), r.password)
                      /\ users[Normal(r.email)].active
  BY <1>1, <1>2
<1>5. WasTold(Normal(r.email), r.password) =>
        /\ Known(Normal(r.email)) /\ Verify(r.password, users[Normal(r.email)].hash)
  BY <1>2 DEF WasTold, StandInv, ToldInv, SeedInv, Registered, Seeded, Verify
<1>6. req'[w] = r
  BY <1>1, <1>2
<1>7. /\ r.op = "other" => pc'[w] = "audit" /\ code'[w] = 200
      /\ r.op # "other" => pc'[w] = r.op
  BY <1>1, <1>2 DEF ThenLog, Goto
<1>8. SaysTrue(w)'
  BY <1>2, <1>3, <1>4, <1>5, <1>6, <1>7 DEF SaysTrue, Known
<1>9. \A v \in Workers : v # w =>
        /\ pc'[v] = pc[v] /\ req'[v] = req[v] /\ code'[v] = code[v]
        /\ failed'[v] = failed[v] /\ entitled'[v] = entitled[v]
  BY <1>1, <1>2 DEF ThenLog, Goto
<1>10. QED
  BY <1>2, <1>8, <1>9, OwnStep

LEMMA CreateSaysTrue ==
    ASSUME BaseInv, StandInv, ReplyInv, NEW w \in Workers, RegisterCreate(w)
    PROVE  ReplyInv'
<1>0. PICK e \in Email : e = Normal(req[w].email)
  BY Shapes DEF RegisterCreate, BaseInv, HandlerShape
<1>1. /\ pc[w] = "create" /\ req[w].op = "register" /\ Account(req[w].password, "CLIENT") \in Row
      /\ UNCHANGED <<req, entitled, failed>>
      /\ DOMAIN pc = Workers /\ DOMAIN code = Workers /\ DOMAIN users = Email
      /\ ~entitled[w]
  BY Shapes DEF RegisterCreate, BaseInv, TypeOK, HandlerShape, Roles, ReplyInv, SaysTrue
<1>2. \A v \in Workers : v # w => pc'[v] = pc[v] /\ code'[v] = code[v]
  BY <1>1 DEF RegisterCreate, Reply, ThenLog
<1>3. CASE Known(e) /\ Reply(w, 503) /\ UNCHANGED users
  <2>1. SaysTrue(w)'
    BY <1>0, <1>1, <1>3 DEF SaysTrue, Reply, Known
  <2>2. QED
    BY <1>1, <1>2, <1>3, <2>1, OwnStep
<1>4. CASE /\ ~Known(e)
           /\ users' = [users EXCEPT ![e] = Account(req[w].password, "CLIENT")]
           /\ ThenLog(w, 201, "USER_REGISTER", e, req[w].from, NoDetails)
  <2>1. SaysTrue(w)'
    BY <1>1, <1>4 DEF SaysTrue, ThenLog
  <2>2. \A f \in Email : Known(f) => Known(f)' /\ users'[f] = users[f]
    BY <1>1, <1>4 DEF Known
  <2>3. ASSUME NEW v \in Workers, v # w PROVE SaysTrue(v)'
    <3>1. SaysTrue(v)
      BY DEF ReplyInv
    <3>2. entitled[v] => /\ Known(Normal(req[v].email)) /\ Normal(req[v].email) \in Email
                         /\ users[Normal(req[v].email)].active
      BY <3>1, Shapes DEF SaysTrue, BaseInv, HandlerShape
    <3>3. Bystander(v)
      BY <1>1, <1>2, <2>2, <2>3, <3>2 DEF Bystander
    <3>4. QED
      BY <3>1, <3>3, BystanderSaysTrue
  <2>4. QED
    BY <2>1, <2>3 DEF ReplyInv
<1>5. QED
  BY <1>0, <1>3, <1>4 DEF RegisterCreate

LEMMA ReplyStep == BaseInv /\ StandInv /\ ReplyInv /\ [Next]_vars => ReplyInv'
<1> SUFFICES ASSUME BaseInv, StandInv, ReplyInv, [Next]_vars PROVE ReplyInv'
  OBVIOUS
<1>0. /\ DOMAIN pc = Workers /\ DOMAIN code = Workers /\ DOMAIN req = Workers
      /\ DOMAIN entitled = Workers /\ DOMAIN failed = Workers
  BY DEF BaseInv, TypeOK, HandlerShape
<1>1. ASSUME NEW w \in Workers,
             \/ RegisterCheck(w) \/ LoginBlocked(w) \/ StatementFails(w)
             \/ AuditWrite(w) \/ AuditSwallowed(w) \/ Answer(w)
      PROVE  ReplyInv'
  <2>1. users' = users
    BY <1>1 DEF RegisterCheck, LoginBlocked, StatementFails, AuditWrite, AuditSwallowed, Answer
  <2>2. \A v \in Workers : v # w =>
          /\ pc'[v] = pc[v] /\ req'[v] = req[v] /\ code'[v] = code[v]
          /\ failed'[v] = failed[v] /\ entitled'[v] = entitled[v]
    BY <1>0, <1>1 DEF RegisterCheck, LoginBlocked, StatementFails, AuditWrite, AuditSwallowed,
                      Answer, Reply, Goto, ThenLog
  <2>3. SaysTrue(w)
    BY DEF ReplyInv
  <2>4. SaysTrue(w)'
    <3>1. CASE RegisterCheck(w)
      BY <1>0, <2>1, <2>3, <3>1 DEF RegisterCheck, Reply, Goto, SaysTrue, Known, BaseInv, HandlerShape
    <3>2. CASE LoginBlocked(w)
      BY <1>0, <2>1, <2>3, <3>2 DEF LoginBlocked, ThenLog, SaysTrue, Known
    <3>3. CASE StatementFails(w)
      BY <1>0, <2>1, <2>3, <3>3 DEF StatementFails, Reply, SaysTrue, Known
    <3>4. CASE AuditWrite(w) \/ AuditSwallowed(w)
      BY <1>0, <2>1, <2>3, <3>4 DEF AuditWrite, AuditSwallowed, SaysTrue, Known
    <3>5. CASE Answer(w)
      BY <1>0, <3>5 DEF Answer, SaysTrue
    <3>6. QED
      BY <1>1, <3>1, <3>2, <3>3, <3>4, <3>5
  <2>5. QED
    BY <2>1, <2>2, <2>4, OwnStep
<1>2. ASSUME NEW w \in Workers, LoginVerify(w) PROVE ReplyInv'
  <2> DEFINE e == Normal(req[w].email)
             found == Known(e) /\ users[e].active
  <2>1. /\ pc[w] = "login" /\ req[w].op = "login" /\ UNCHANGED <<users, req, entitled, failed>>
    BY <1>2 DEF LoginVerify, BaseInv, HandlerShape
  <2>2. \A v \in Workers : v # w => pc'[v] = pc[v] /\ code'[v] = code[v]
    BY <1>0, <1>2 DEF LoginVerify, ThenLog
  <2>3. pc'[w] = "audit" /\ code'[w] \in {200, 401}
    BY <1>0, <1>2 DEF LoginVerify, ThenLog
  <2>4. code'[w] = 200 <=> found /\ Verify(req[w].password, users[e].hash)
    BY <1>0, <1>2 DEF LoginVerify, ThenLog
  <2>5. entitled[w] => found /\ Verify(req[w].password, users[e].hash)
    BY DEF ReplyInv, SaysTrue
  <2>6. SaysTrue(w)'
    BY <2>1, <2>3, <2>4, <2>5 DEF SaysTrue, Known
  <2>7. QED
    BY <2>1, <2>2, <2>6, OwnStep
<1>3. CASE SeedUser \/ SeedReady \/ SeedVerified
  <2>1. (\A w \in Workers : pc[w] = "idle") /\ UNCHANGED <<pc, entitled>>
    BY <1>3 DEF SeedUser, SeedReady, SeedVerified, handler, BaseInv, TypeOK
  <2>2. QED
    BY <2>1, IdleSaysTrue
<1>4. CASE Restart
  BY <1>4 DEF Restart, ReplyInv, SaysTrue
<1>5. ASSUME NEW e \in Barred, Deactivate(e) PROVE ReplyInv'
  <2>1. /\ e \in Email /\ users[e] \in Row /\ DOMAIN users = Email
        /\ users' = [users EXCEPT ![e].active = FALSE]
        /\ entitled' = [w \in Workers |-> entitled[w] /\ Normal(req[w].email) # e]
        /\ UNCHANGED <<pc, req, code, failed>>
    BY <1>5, AddressesTyped DEF Deactivate, Known, BaseInv, TypeOK
  <2>2. /\ users'[e] \in Row /\ users'[e].hash = users[e].hash
        /\ \A f \in Email : f # e => users'[f] = users[f]
    BY <2>1 DEF Row
  <2>3. \A f \in Email : Known(f) => Known(f)' /\ users'[f].hash = users[f].hash
    BY <2>1, <2>2, NoneIsNoRow DEF Known
  <2>4. ASSUME NEW v \in Workers PROVE SaysTrue(v)'
    <3>1. SaysTrue(v)
      BY DEF ReplyInv
    <3>2. entitled'[v] => /\ entitled[v] /\ Normal(req[v].email) # e /\ Normal(req[v].email) \in Email
                          /\ users[Normal(req[v].email)].active
      BY <2>1, <3>1, Shapes DEF SaysTrue, BaseInv, HandlerShape
    <3>3. Bystander(v)
      BY <2>1, <2>2, <2>3, <3>2 DEF Bystander
    <3>4. QED
      BY <3>1, <3>3, BystanderSaysTrue
  <2>5. QED
    BY <2>4 DEF ReplyInv
<1>6. CASE AdminReads \/ UNCHANGED vars
  BY <1>6 DEF AdminReads, accountVars, vars, ReplyInv, SaysTrue, Known
<1>7. QED
  BY <1>1, <1>2, <1>3, <1>4, <1>5, <1>6, BeginSaysTrue, CreateSaysTrue DEF Next, Handle, Idle

\* A registration is refused only because of an account that is there or of the
\* database; a login is accepted only with the password of its account, and never
\* refused to an active owner who was told that password (register, login).
THEOREM RefusalsAreTrue == Spec => []AnswersTrue
<1>1. Init => ReplyInv
  BY DEF Init, ReplyInv, SaysTrue
<1>2. (BaseInv /\ StandInv) /\ ReplyInv /\ [Next]_vars => ReplyInv'
  BY ReplyStep
<1>3. ReplyInv => AnswersTrue
  BY DEF ReplyInv, SaysTrue, AnswersTrue
<1>4. QED
  BY <1>1, <1>2, <1>3, StandInvariant, PTL DEF Spec

-----------------------------------------------------------------------------
\* Every row has a time stamp of its own, also those that are not yet written.
StampInv ==
    /\ \A w \in Workers : pc[w] = "audit" => \A r \in log : r.stamp # draft[w].stamp
    /\ \A v, w \in Workers :
          pc[v] = "audit" /\ pc[w] = "audit" /\ draft[v].stamp = draft[w].stamp => v = w

LogInv == StampInv /\ ReaderInv

LEMMA ReaderInit == Init => LogInv
<1> SUFFICES ASSUME Init PROVE LogInv
  OBVIOUS
<1>1. log = {} /\ page = 0 /\ seen = {} /\ target = {} /\ repeats = 0 /\ pc = [w \in Workers |-> "idle"]
  BY DEF Init, AuditInit
<1>2. QED
  BY <1>1, FS_EmptySet DEF LogInv, StampInv, ReaderInv, LogOK, NothingSkipped

\* The reader relies on nothing but the log and what it has got.
LEMMA ReaderStutters ==
    ASSUME ReaderInv, UNCHANGED <<log, reader>>
    PROVE  ReaderInv'
BY DEF reader, ReaderInv, LogOK, Sunk, NothingSkipped, Rank, Newer

\* A row with a stamp that no other has is appended.
LEMMA NewStampAppends ==
    ASSUME ReaderInv, NEW x, log' = log \cup {x}, x.stamp \in Nat,
           \A r \in log : r.stamp # x.stamp
    PROVE  Appends(x)
<1>1. IsFiniteSet(log')
  BY FS_AddElement DEF ReaderInv, LogOK
<1>2. QED
  BY <1>1 DEF Appends, ReaderInv, LogOK

\* A step that writes no row, and takes a stamp for one worker at most.
LEMMA NoWriteKeeps ==
    ASSUME LogInv, UNCHANGED <<log, reader>>,
           \A v \in Workers : pc'[v] = "audit" => pc[v] = "audit" /\ draft'[v] = draft[v]
    PROVE  LogInv'
<1>1. ReaderInv'
  BY ReaderStutters DEF LogInv
<1>2. StampInv'
  BY DEF LogInv, StampInv
<1>3. QED
  BY <1>1, <1>2 DEF LogInv

LEMMA DraftKeeps ==
    ASSUME BaseInv, LogInv, UNCHANGED <<log, reader>>, NEW w \in Workers,
           NEW c, NEW a, NEW u, NEW f, NEW d, ThenLog(w, c, a, u, f, d)
    PROVE  LogInv'
<1>1. ReaderInv'
  BY ReaderStutters DEF LogInv
<1>2. /\ draft'[w].stamp = clock + 1
      /\ \A v \in Workers : v # w => draft'[v] = draft[v] /\ pc'[v] = pc[v]
  BY ThenLogShape DEF BaseInv, TypeOK
<1>3. /\ \A r \in log : r.stamp \in 1..clock
      /\ \A v \in Workers : pc[v] = "audit" => draft[v].stamp \in 1..clock
      /\ clock \in Nat
  BY DEF BaseInv, TypeOK, HandlerShape
<1>4. \A v \in Workers : pc'[v] = "audit" => \A r \in log' : r.stamp # draft'[v].stamp
  BY <1>2, <1>3 DEF LogInv, StampInv
<1>5. \A v, x \in Workers :
        pc'[v] = "audit" /\ pc'[x] = "audit" /\ draft'[v].stamp = draft'[x].stamp => v = x
  BY <1>2, <1>3 DEF LogInv, StampInv
<1>6. QED
  BY <1>1, <1>4, <1>5 DEF LogInv, StampInv

\* The audit rows of seed.py, while no handler runs.
LEMMA SeedLogKeeps ==
    ASSUME BaseInv, LogInv, NEW a, NEW u, SeedLog(a, u), UNCHANGED reader,
           \A w \in Workers : pc'[w] = "idle"
    PROVE  LogInv'
<1>1. StampInv'
  BY DEF StampInv
<1>2. CASE log' = log
  BY <1>1, <1>2, ReaderStutters DEF LogInv
<1>3. CASE log' = log \cup {AuditRow(a, u, None, NoDetails)}
  <2>1. /\ AuditRow(a, u, None, NoDetails).stamp = clock + 1 /\ clock \in Nat
        /\ \A r \in log : r.stamp \in 1..clock
    BY AuditRowStamp DEF BaseInv, TypeOK, HandlerShape
  <2>2. Appends(AuditRow(a, u, None, NoDetails))
    BY <1>3, <2>1, NewStampAppends DEF LogInv
  <2>3. QED
    BY <1>1, <2>2, AppendKeeps DEF LogInv
<1>4. QED
  BY <1>2, <1>3 DEF SeedLog

LEMMA LogStep == BaseInv /\ LogInv /\ [Next]_vars => LogInv'
<1> SUFFICES ASSUME BaseInv, LogInv, [Next]_vars PROVE LogInv'
  OBVIOUS
<1>0. DOMAIN pc = Workers /\ DOMAIN draft = Workers
  BY DEF BaseInv, TypeOK, HandlerShape
<1>1. ASSUME NEW w \in Workers, Begin(w) PROVE LogInv'
  <2>1. PICK r \in Requests :
            IF r.op = "other"
            THEN ThenLog(w, 200, "OTHER", None, r.from, r.details)
            ELSE Goto(w, r.op)
    BY <1>1 DEF Begin
  <2>2. UNCHANGED <<log, reader>>
    BY <1>1 DEF Begin
  <2>3. CASE r.op = "other"
    BY <2>1, <2>2, <2>3, DraftKeeps
  <2>4. CASE r.op # "other"
    <3>1. r.op # "audit" /\ Goto(w, r.op)
      BY <2>1, <2>4, RequestShapes
    <3>2. \A v \in Workers : pc'[v] = "audit" => pc[v] = "audit" /\ draft'[v] = draft[v]
      BY <1>0, <3>1 DEF Goto
    <3>3. QED
      BY <2>2, <3>2, NoWriteKeeps
  <2>5. QED
    BY <2>3, <2>4
<1>2. ASSUME NEW w \in Workers, RegisterCreate(w) PROVE LogInv'
  <2>1. UNCHANGED <<log, reader>>
    BY <1>2 DEF RegisterCreate
  <2>2. CASE Reply(w, 503)
    <3>1. \A v \in Workers : pc'[v] = "audit" => pc[v] = "audit" /\ draft'[v] = draft[v]
      BY <1>0, <2>2 DEF Reply
    <3>2. QED
      BY <2>1, <3>1, NoWriteKeeps
  <2>3. CASE ThenLog(w, 201, "USER_REGISTER", Normal(req[w].email), req[w].from, NoDetails)
    BY <2>1, <2>3, DraftKeeps
  <2>4. QED
    BY <1>2, <2>2, <2>3 DEF RegisterCreate
<1>3. ASSUME NEW w \in Workers, LoginBlocked(w) \/ LoginVerify(w) PROVE LogInv'
  <2>1. PICK c, a, u : ThenLog(w, c, a, u, req[w].from, NoDetails)
    BY <1>3 DEF LoginBlocked, LoginVerify
  <2>2. UNCHANGED <<log, reader>>
    BY <1>3 DEF LoginBlocked, LoginVerify
  <2>3. QED
    BY <2>1, <2>2, DraftKeeps
<1>4. ASSUME NEW w \in Workers,
             RegisterCheck(w) \/ StatementFails(w) \/ AuditSwallowed(w) \/ Answer(w)
      PROVE  LogInv'
  <2>1. UNCHANGED <<log, reader>>
    BY <1>4 DEF RegisterCheck, StatementFails, AuditSwallowed, Answer, auditVars, reader
  <2>2. \A v \in Workers : pc'[v] = "audit" => pc[v] = "audit" /\ draft'[v] = draft[v]
    BY <1>0, <1>4 DEF RegisterCheck, StatementFails, AuditSwallowed, Answer, Reply, Goto
  <2>3. QED
    BY <2>1, <2>2, NoWriteKeeps
<1>5. ASSUME NEW w \in Workers, AuditWrite(w) PROVE LogInv'
  <2>1. /\ pc[w] = "audit" /\ log' = log \cup {draft[w]} /\ UNCHANGED <<reader, draft>>
        /\ pc' = [pc EXCEPT ![w] = "answer"]
    BY <1>5 DEF AuditWrite
  <2>2. draft[w].stamp \in Nat /\ \A r \in log : r.stamp # draft[w].stamp
    BY <2>1 DEF BaseInv, TypeOK, LogInv, StampInv
  <2>3. ReaderInv'
    BY <2>1, <2>2, NewStampAppends, AppendKeeps DEF LogInv
  <2>4. StampInv'
    <3>1. \A v \in Workers : pc'[v] = "audit" => v # w /\ pc[v] = "audit" /\ draft'[v] = draft[v]
      BY <1>0, <2>1
    <3>2. QED
      BY <2>1, <3>1 DEF LogInv, StampInv
  <2>5. QED
    BY <2>3, <2>4 DEF LogInv
<1>6. CASE SeedReady \/ SeedVerified
  <2>1. /\ UNCHANGED reader /\ \A w \in Workers : pc'[w] = "idle"
        /\ \E a, u : SeedLog(a, u)
    BY <1>6 DEF SeedReady, SeedVerified, handler, BaseInv, TypeOK
  <2>2. QED
    BY <2>1, SeedLogKeeps
<1>7. ASSUME SeedUser \/ Restart \/ (\E e \in Barred : Deactivate(e)) \/ UNCHANGED vars PROVE LogInv'
  <2>1. UNCHANGED <<log, reader>>
    BY <1>7 DEF SeedUser, Restart, Deactivate, vars, auditVars, reader
  <2>2. \A v \in Workers : pc'[v] = "audit" => pc[v] = "audit" /\ draft'[v] = draft[v]
    BY <1>7 DEF SeedUser, Restart, Deactivate, vars, handler
  <2>3. QED
    BY <2>1, <2>2, NoWriteKeeps
<1>8. CASE AdminReads
  <2>1. ReadPage /\ UNCHANGED <<log, pc, draft>>
    BY <1>8 DEF AdminReads, ReadPage, accountVars
  <2>2. ReaderInv'
    BY <2>1, ReadKeeps DEF LogInv
  <2>3. StampInv'
    BY <2>1 DEF LogInv, StampInv
  <2>4. QED
    BY <2>2, <2>3 DEF LogInv
<1>9. QED
  BY <1>1, <1>2, <1>3, <1>4, <1>5, <1>6, <1>7, <1>8 DEF Next, Handle, Idle

LEMMA LogInvariant == Spec => [](BaseInv /\ LogInv)
<1>1. Init => BaseInv /\ LogInv
  BY BaseInit, ReaderInit
<1>2. BaseInv /\ LogInv /\ [Next]_vars => (BaseInv /\ LogInv)'
  BY BaseStep, LogStep
<1>3. QED
  BY <1>1, <1>2, PTL DEF Spec

\* Whatever is written between two pages, and in whatever order it appears, the
\* reader gets every row that was there when it began (list_audit_logs).
THEOREM ReaderSkipsNothing == Spec => []NothingSkipped
<1>1. LogInv => NothingSkipped
  BY DEF LogInv, ReaderInv
<1>2. QED
  BY LogInvariant, <1>1, PTL

\* It gets a row again only for a row that was written meanwhile.
THEOREM RepeatsAreWrites == Spec => []RepeatsExplained
<1>1. LogInv => RepeatsExplained
  <2> SUFFICES ASSUME LogInv, page > 0 PROVE repeats + Cardinality(target) <= Cardinality(log)
    BY DEF RepeatsExplained
  <2>1. /\ repeats + Cardinality(Sunk(page * PageSize)) + Cardinality(target) <= Cardinality(log)
        /\ repeats \in Nat /\ IsFiniteSet(log)
        /\ target \in SUBSET log /\ Sunk(page * PageSize) \in SUBSET log
    BY DEF LogInv, ReaderInv, LogOK, Sunk
  <2>2. /\ Cardinality(target) \in Nat /\ Cardinality(log) \in Nat
        /\ Cardinality(Sunk(page * PageSize)) \in Nat
    BY <2>1, FS_Subset, FS_CardinalityType
  <2>3. QED
    BY <2>1, <2>2
<1>2. QED
  BY LogInvariant, <1>1, PTL
-----------------------------------------------------------------------------
\* What AuditedOnce rests on.  A registration between its row in users and the
\* audit row that it leaves:
Pending(w) == pc[w] = "audit" /\ draft[w].action = "USER_REGISTER"

SeedActions == {"SEED_USER_READY", "SEED_ADMIN_VERIFIED"}

\* Of an address there is one row of a registration, or one handler that is about
\* to write it; the rows of the script come from no handler.
Once ==
    /\ \A r, q \in log : r.action = q.action /\ r.user = q.user
          /\ r.action \in {"USER_REGISTER"} \cup SeedActions => r = q
    /\ \A w \in Workers : pc[w] = "audit" => draft[w].action \notin SeedActions
    /\ \A w \in Workers : Pending(w) =>
          /\ Rows("USER_REGISTER", draft[w].user) = {}
          /\ \A v \in Workers : Pending(v) /\ draft[v].user = draft[w].user => v = w

\* The row of a registration, written or not, is of a client's account.
ClientAccount(e) == e \in Email /\ Known(e) /\ NoSeed(e) /\ users[e].role = "CLIENT"
OfClient(r) == r.action = "USER_REGISTER" => ClientAccount(r.user)

\* Its details come out of _sanitize_value, its address out of get_client_ip.
Cleaned(r) ==
    /\ r.ip \in Addresses \cup {None}
    /\ \E d \in Details \cup {NoDetails} : r.details = Clean[d]

RowsInv ==
    /\ \A r \in log : OfClient(r) /\ Cleaned(r)
    /\ \A w \in Workers : pc[w] = "audit" => OfClient(draft[w]) /\ Cleaned(draft[w])

\* The row of a registration is written before it is answered, those of the
\* seeded users before the server runs; unless an INSERT failed.
Written(action, user) == Rows(action, user) # {} \/ <<action, user>> \in unlogged

CreatedLogged ==
    \A w \in Workers : Created(w) =>
        /\ pc[w] = "audit" =>
              draft[w].action = "USER_REGISTER" /\ draft[w].user = Normal(req[w].email)
        /\ pc[w] = "answer" => Written("USER_REGISTER", Normal(req[w].email))
ToldLogged == \A t \in told : Written("USER_REGISTER", t.email)
SeedLogged ==
    \A i \in Seeds : phase \in {"verified", "serving"} \/ (phase = "ready" /\ i < at) =>
        Written("SEED_USER_READY", SeedEmail(i))

\* Requests have the headers of some client.
HeadersInv == \A w \in Workers : pc[w] # "idle" => req[w].from \in Origins

AuditInv == HeadersInv /\ Once /\ RowsInv /\ CreatedLogged /\ ToldLogged /\ SeedLogged

\* Rows are never lost, and neither is the fact that one could not be written.
LEMMA WrittenStays ==
    ASSUME [Next]_vars, NEW a, NEW u, Written(a, u)
    PROVE  Written(a, u)'
<1>1. log \subseteq log' /\ unlogged \subseteq unlogged'
  <2>1. ASSUME NEW w \in Workers, Begin(w) PROVE UNCHANGED <<log, unlogged>>
    BY <2>1 DEF Begin, history
  <2>2. ASSUME NEW w \in Workers, Handle(w)
        PROVE  log \subseteq log' /\ UNCHANGED unlogged
    BY <2>2 DEF Handle, RegisterCheck, RegisterCreate, LoginBlocked, LoginVerify, AuditWrite,
                Answer, history, auditVars
  <2>3. ASSUME NEW w \in Workers, StatementFails(w) \/ AuditSwallowed(w)
        PROVE  unlogged \subseteq unlogged' /\ UNCHANGED log
    BY <2>3 DEF StatementFails, AuditSwallowed, history
  <2>4. CASE SeedReady \/ SeedVerified
    BY <2>4 DEF SeedReady, SeedVerified, SeedLog
  <2>5. CASE SeedUser \/ Restart \/ (\E e \in Barred : Deactivate(e)) \/ AdminReads \/ UNCHANGED vars
    BY <2>5 DEF SeedUser, Restart, Deactivate, AdminReads, ReadPage, vars, accountVars, auditVars, history
  <2>6. QED
    BY <2>1, <2>2, <2>3, <2>4, <2>5 DEF Next, Idle
<1>2. QED
  BY <1>1 DEF Written, Rows

\* No step takes a client's account away or changes its role.
LEMMA ClientStays ==
    ASSUME BaseInv, [Next]_vars, NEW e, ClientAccount(e)
    PROVE  ClientAccount(e)'
<1>1. CASE users' = users
  BY <1>1 DEF ClientAccount, Known, NoSeed
<1>2. ASSUME NEW f, f # e, NEW x, users' = [users EXCEPT ![f] = x] PROVE ClientAccount(e)'
  BY <1>2 DEF ClientAccount, Known, NoSeed, BaseInv, TypeOK
<1>3. ASSUME NEW w \in Workers, RegisterCreate(w) PROVE ClientAccount(e)'
  BY <1>1, <1>2, <1>3 DEF RegisterCreate, ClientAccount
<1>4. CASE SeedUser
  <2>1. SeedEmail(at) # e
    BY DEF ClientAccount, NoSeed, BaseInv, TypeOK
  <2>2. QED
    BY <1>2, <1>4, <2>1 DEF SeedUser
<1>5. ASSUME NEW f \in Barred, Deactivate(f) PROVE ClientAccount(e)'
  <2>1. /\ users' = [users EXCEPT ![f].active = FALSE] /\ DOMAIN users = Email
        /\ users[e] \in Row
    BY <1>5 DEF Deactivate, ClientAccount, Known, BaseInv, TypeOK
  <2>2. users'[e].role = users[e].role /\ users'[e] \in Row
    BY <2>1 DEF ClientAccount, Row
  <2>3. QED
    BY <2>2, NoneIsNoRow DEF ClientAccount, Known, NoSeed
<1>6. ASSUME NEW w \in Workers,
             \/ Begin(w) \/ RegisterCheck(w) \/ LoginBlocked(w) \/ LoginVerify(w) \/ AuditWrite(w)
             \/ Answer(w) \/ StatementFails(w) \/ AuditSwallowed(w)
      PROVE  users' = users
  BY <1>6 DEF Begin, RegisterCheck, LoginBlocked, LoginVerify, AuditWrite, Answer, StatementFails,
              AuditSwallowed
<1>7. CASE SeedReady \/ SeedVerified \/ Restart \/ AdminReads \/ UNCHANGED vars
  BY <1>1, <1>7 DEF SeedReady, SeedVerified, Restart, AdminReads, accountVars, vars
<1>8. QED
  BY <1>1, <1>3, <1>4, <1>5, <1>6, <1>7 DEF Next, Handle, Idle

-----------------------------------------------------------------------------
\* The row that log_action is about to insert.
LEMMA DraftIsClean ==
    ASSUME NEW a, NEW u, NEW f \in Origins \cup {None}, NEW d \in Details \cup {NoDetails}
    PROVE  /\ AuditRow(a, u, f, d).action = a /\ AuditRow(a, u, f, d).user = u
           /\ Cleaned(AuditRow(a, u, f, d))
BY ForwardedIsAList, ClientIpIsAddress DEF AuditRow, Cleaned

\* A step that adds no row and drafts none.
LEMMA NoRowKeeps ==
    ASSUME BaseInv, Once, RowsInv, [Next]_vars, log' = log,
           \A v \in Workers : pc'[v] = "audit" => pc[v] = "audit" /\ draft'[v] = draft[v]
    PROVE  Once' /\ RowsInv'
<1>1. Once'
  BY DEF Once, Pending, Rows
<1>2. \A r : OfClient(r) => OfClient(r)'
  BY ClientStays DEF OfClient
<1>3. RowsInv'
  BY <1>2 DEF RowsInv, Cleaned
<1>4. QED
  BY <1>1, <1>3

\* A handler calls log_action; a registration does so as the only one of its address.
LEMMA DraftKeepsRows ==
    ASSUME BaseInv, Once, RowsInv, [Next]_vars, log' = log, NEW w \in Workers,
           NEW c, NEW a, NEW u, NEW f \in Origins \cup {None}, NEW d \in Details \cup {NoDetails},
           ThenLog(w, c, a, u, f, d), a \notin SeedActions,
           a = "USER_REGISTER" =>
               /\ ClientAccount(u)' /\ Rows(a, u) = {}
               /\ \A v \in Workers : Pending(v) => draft[v].user # u
    PROVE  Once' /\ RowsInv'
<1>1. PICK x : /\ x = AuditRow(a, u, f, d)
               /\ draft' = [draft EXCEPT ![w] = x] /\ pc' = [pc EXCEPT ![w] = "audit"]
  BY DEF ThenLog
<1>2. /\ x.action = a /\ x.user = u /\ Cleaned(x)
      /\ pc'[w] = "audit" /\ draft'[w] = x
      /\ \A v \in Workers : v # w => pc'[v] = pc[v] /\ draft'[v] = draft[v]
  BY <1>1, DraftIsClean DEF BaseInv, TypeOK, HandlerShape
<1>3. Once'
  <2>1. \A v \in Workers : pc'[v] = "audit" => draft'[v].action \notin SeedActions
    BY <1>2 DEF Once
  <2>2. ASSUME NEW v \in Workers, Pending(v)'
        PROVE  /\ Rows("USER_REGISTER", draft'[v].user) = {}
               /\ \A z \in Workers : Pending(z)' /\ draft'[z].user = draft'[v].user => z = v
    <3>1. \A z \in Workers : z # w => (Pending(z)' <=> Pending(z)) /\ draft'[z] = draft[z]
      BY <1>2 DEF Pending
    <3>2. Pending(w)' => a = "USER_REGISTER" /\ draft'[w].user = u
      BY <1>2 DEF Pending
    <3>3. QED
      BY <2>2, <3>1, <3>2 DEF Once
  <2>3. QED
    BY <2>1, <2>2 DEF Once, Rows
<1>4. RowsInv'
  <2>1. \A r : OfClient(r) => OfClient(r)'
    BY ClientStays DEF OfClient
  <2>2. OfClient(x)'
    BY <1>2 DEF OfClient
  <2>3. QED
    BY <1>2, <2>1, <2>2 DEF RowsInv, Cleaned
<1>5. QED
  BY <1>3, <1>4

\* The INSERT of a row that was drafted.
LEMMA WriteKeepsRows ==
    ASSUME BaseInv, Once, RowsInv, [Next]_vars, NEW w \in Workers, AuditWrite(w)
    PROVE  Once' /\ RowsInv'
<1>1. /\ pc[w] = "audit" /\ log' = log \cup {draft[w]} /\ draft' = draft
      /\ \A v \in Workers : pc'[v] = "audit" => v # w /\ pc[v] = "audit"
  BY DEF AuditWrite, BaseInv, TypeOK
<1>2. PICK x : x = draft[w]
  OBVIOUS
<1>3. /\ x.action \notin SeedActions
      /\ \A r \in log : r.action = x.action /\ r.user = x.user => x.action # "USER_REGISTER"
  BY <1>1, <1>2 DEF Once, Pending, Rows
<1>4. Once'
  <2>1. \A r, q \in log' : r.action = q.action /\ r.user = q.user
          /\ r.action \in {"USER_REGISTER"} \cup SeedActions => r = q
    BY <1>1, <1>2, <1>3 DEF Once
  <2>2. \A v \in Workers : pc'[v] = "audit" => draft'[v].action \notin SeedActions
    BY <1>1 DEF Once
  <2>3. ASSUME NEW v \in Workers, Pending(v)'
        PROVE  /\ Rows("USER_REGISTER", draft[v].user)' = {}
               /\ \A z \in Workers : Pending(z)' /\ draft'[z].user = draft'[v].user => z = v
    <3>1. \A z \in Workers : Pending(z)' => z # w /\ Pending(z) /\ draft'[z] = draft[z]
      BY <1>1 DEF Pending
    <3>2. x.action = "USER_REGISTER" => x.user # draft[v].user
      BY <1>1, <1>2, <2>3, <3>1 DEF Once, Pending
    <3>3. Rows("USER_REGISTER", draft[v].user) = {}
      BY <2>3, <3>1 DEF Once
    <3>4. Rows("USER_REGISTER", draft[v].user)' = {}
      BY <1>1, <1>2, <3>2, <3>3 DEF Rows
    <3>5. QED
      BY <2>3, <3>1, <3>4 DEF Once
  <2>4. QED
    BY <2>1, <2>2, <2>3 DEF Once
<1>5. RowsInv'
  <2>1. \A r : OfClient(r) => OfClient(r)'
    BY ClientStays DEF OfClient
  <2>2. QED
    BY <1>1, <2>1 DEF RowsInv, Cleaned
<1>6. QED
  BY <1>4, <1>5

\* The rows of the script, while no handler runs.
LEMMA SeedLogKeepsRows ==
    ASSUME BaseInv, Once, RowsInv, [Next]_vars, NEW a \in SeedActions, NEW u, SeedLog(a, u),
           \A v \in Workers : pc'[v] = "idle"
    PROVE  Once' /\ RowsInv'
<1>1. CASE log' = log
  BY <1>1, NoRowKeeps
<1>2. CASE Rows(a, u) = {} /\ log' = log \cup {AuditRow(a, u, None, NoDetails)}
  <2>1. PICK x : x = AuditRow(a, u, None, NoDetails)
    OBVIOUS
  <2>2. x.action = a /\ x.user = u /\ Cleaned(x)
    BY <2>1, DraftIsClean
  <2>3. Once'
    BY <1>2, <2>1, <2>2 DEF Once, Pending, Rows
  <2>4. \A r : OfClient(r) => OfClient(r)'
    BY ClientStays DEF OfClient
  <2>5. OfClient(x)'
    BY <2>2 DEF OfClient, SeedActions
  <2>6. RowsInv'
    BY <1>2, <2>1, <2>2, <2>4, <2>5 DEF RowsInv, Cleaned
  <2>7. QED
    BY <2>3, <2>6
<1>3. QED
  BY <1>1, <1>2 DEF SeedLog

\* register found no account of the address, so no row and no handler names it.
LEMMA CreateKeepsRows ==
    ASSUME BaseInv, StandInv, HeadersInv, Once, RowsInv, [Next]_vars,
           NEW w \in Workers, RegisterCreate(w)
    PROVE  Once' /\ RowsInv'
<1>1. PICK e \in Email, f \in Origins : e = Normal(req[w].email) /\ f = req[w].from
  BY Shapes DEF RegisterCreate, HeadersInv, BaseInv, HandlerShape
<1>2. log' = log /\ DOMAIN pc = Workers /\ DOMAIN users = Email /\ phase = "serving" /\ pc[w] = "create"
  BY DEF RegisterCreate, BaseInv, TypeOK
<1>3. CASE Reply(w, 503)
  <2>1. \A v \in Workers : pc'[v] = "audit" => pc[v] = "audit" /\ draft'[v] = draft[v]
    BY <1>2, <1>3 DEF Reply
  <2>2. QED
    BY <1>2, <2>1, NoRowKeeps
<1>4. CASE /\ ~Known(e) /\ users' = [users EXCEPT ![e] = Account(req[w].password, "CLIENT")]
           /\ ThenLog(w, 201, "USER_REGISTER", e, f, NoDetails)
  <2>1. Account(req[w].password, "CLIENT") \in Row /\ Account(req[w].password, "CLIENT").role = "CLIENT"
    BY <1>2, Shapes DEF Account, Roles, BaseInv, HandlerShape, RegisterCreate
  <2>2. NoSeed(e)
    BY <1>2, <1>4 DEF NoSeed, StandInv, SeedInv, Seeded
  <2>3. ClientAccount(e)'
    BY <1>2, <1>4, <2>1, <2>2, NoneIsNoRow DEF ClientAccount, Known, NoSeed
  <2>4. Rows("USER_REGISTER", e) = {}
    BY <1>4 DEF Rows, RowsInv, OfClient, ClientAccount
  <2>5. \A v \in Workers : Pending(v) => draft[v].user # e
    BY <1>4 DEF Pending, RowsInv, OfClient, ClientAccount
  <2>6. QED
    BY <1>2, <1>4, <2>3, <2>4, <2>5, DraftKeepsRows DEF SeedActions
<1>5. QED
  BY <1>1, <1>3, <1>4 DEF RegisterCreate

LEMMA RowsStep ==
    ASSUME BaseInv, StandInv, HeadersInv, Once, RowsInv, [Next]_vars
    PROVE  Once' /\ RowsInv'
<1>0. DOMAIN pc = Workers /\ DOMAIN draft = Workers
  BY DEF BaseInv, TypeOK, HandlerShape
<1>1. ASSUME NEW w \in Workers, Begin(w) PROVE Once' /\ RowsInv'
  <2>1. PICK r \in Requests :
            IF r.op = "other"
            THEN ThenLog(w, 200, "OTHER", None, r.from, r.details)
            ELSE Goto(w, r.op)
    BY <1>1 DEF Begin
  <2>2. log' = log
    BY <1>1 DEF Begin
  <2>3. CASE r.op = "other"
    <3>1. r.from \in Origins /\ r.details \in Details
      BY <2>3 DEF Requests
    <3>2. QED
      BY <2>1, <2>2, <2>3, <3>1, DraftKeepsRows DEF SeedActions
  <2>4. CASE r.op # "other"
    <3>1. r.op # "audit" /\ Goto(w, r.op)
      BY <2>1, <2>4, RequestShapes
    <3>2. \A v \in Workers : pc'[v] = "audit" => pc[v] = "audit" /\ draft'[v] = draft[v]
      BY <1>0, <3>1 DEF Goto
    <3>3. QED
      BY <2>2, <3>2, NoRowKeeps
  <2>5. QED
    BY <2>3, <2>4
<1>2. ASSUME NEW w \in Workers, LoginBlocked(w) \/ LoginVerify(w) PROVE Once' /\ RowsInv'
  <2>1. PICK f \in Origins : f = req[w].from
    BY <1>2 DEF LoginBlocked, LoginVerify, HeadersInv
  <2>2. PICK c \in {200, 401, 429}, a \in {"LOGIN_BLOCKED", "LOGIN_SUCCESS", "LOGIN_FAILED"},
             u \in Email \cup {None} : ThenLog(w, c, a, u, f, NoDetails)
    <3>1. CASE LoginBlocked(w)
      BY <2>1, <3>1 DEF LoginBlocked
    <3>2. CASE LoginVerify(w)
      BY <2>1, <3>2, Shapes DEF LoginVerify, BaseInv, HandlerShape
    <3>3. QED
      BY <1>2, <3>1, <3>2
  <2>3. log' = log
    BY <1>2 DEF LoginBlocked, LoginVerify
  <2>4. QED
    BY <2>2, <2>3, DraftKeepsRows DEF SeedActions
<1>3. ASSUME NEW w \in Workers,
             RegisterCheck(w) \/ StatementFails(w) \/ AuditSwallowed(w) \/ Answer(w)
      PROVE  Once' /\ RowsInv'
  <2>1. log' = log
    BY <1>3 DEF RegisterCheck, StatementFails, AuditSwallowed, Answer, auditVars
  <2>2. \A v \in Workers : pc'[v] = "audit" => pc[v] = "audit" /\ draft'[v] = draft[v]
    BY <1>0, <1>3 DEF RegisterCheck, StatementFails, AuditSwallowed, Answer, Reply, Goto
  <2>3. QED
    BY <2>1, <2>2, NoRowKeeps
<1>4. CASE SeedReady \/ SeedVerified
  <2>1. /\ \A w \in Workers : pc'[w] = "idle"
        /\ \E a \in SeedActions, u \in Email : SeedLog(a, u)
    BY <1>4, Shapes DEF SeedReady, SeedVerified, SeedActions, handler, BaseInv, TypeOK
  <2>2. QED
    BY <2>1, SeedLogKeepsRows
<1>5. ASSUME SeedUser \/ Restart \/ (\E e \in Barred : Deactivate(e)) \/ AdminReads \/ UNCHANGED vars
      PROVE  Once' /\ RowsInv'
  <2>1. log' = log
    BY <1>5 DEF SeedUser, Restart, Deactivate, AdminReads, ReadPage, vars, auditVars
  <2>2. \A v \in Workers : pc'[v] = "audit" => pc[v] = "audit" /\ draft'[v] = draft[v]
    BY <1>5 DEF SeedUser, Restart, Deactivate, AdminReads, accountVars, vars, handler
  <2>3. QED
    BY <2>1, <2>2, NoRowKeeps
<1>6. QED
  BY <1>1, <1>2, <1>3, <1>4, <1>5, CreateKeepsRows, WriteKeepsRows DEF Next, Handle, Idle

-----------------------------------------------------------------------------
LEMMA HeadersStep ==
    ASSUME BaseInv, HeadersInv, [Next]_vars
    PROVE  HeadersInv'
<1>0. DOMAIN pc = Workers /\ DOMAIN req = Workers
  BY DEF BaseInv, TypeOK, HandlerShape
<1>1. ASSUME NEW w \in Workers, Begin(w) PROVE HeadersInv'
  <2>1. PICK r \in Requests : req' = [req EXCEPT ![w] = r]
    BY <1>1 DEF Begin
  <2>2. r.from \in Origins
    BY DEF Requests
  <2>3. \A v \in Workers : v # w => pc'[v] = pc[v]
    BY <1>0, <1>1 DEF Begin, ThenLog, Goto
  <2>4. QED
    BY <1>0, <2>1, <2>2, <2>3 DEF HeadersInv
<1>2. ASSUME NEW w \in Workers, Handle(w) \/ StatementFails(w) \/ AuditSwallowed(w)
      PROVE  HeadersInv'
  <2>1. \A v \in Workers : pc'[v] # "idle" => pc[v] # "idle" /\ req'[v] = req[v]
    <3>1. CASE Answer(w)
      BY <1>0, <3>1 DEF Answer
    <3>2. CASE RegisterCheck(w) \/ RegisterCreate(w) \/ LoginBlocked(w) \/ LoginVerify(w)
      BY <1>0, <3>2 DEF RegisterCheck, RegisterCreate, LoginBlocked, LoginVerify, Reply, Goto, ThenLog
    <3>3. CASE AuditWrite(w) \/ StatementFails(w) \/ AuditSwallowed(w)
      BY <1>0, <3>3 DEF AuditWrite, StatementFails, AuditSwallowed, Reply
    <3>4. QED
      BY <1>2, <3>1, <3>2, <3>3 DEF Handle
  <2>2. QED
    BY <2>1 DEF HeadersInv
<1>3. CASE Restart
  BY <1>3 DEF Restart, HeadersInv
<1>4. ASSUME \/ SeedUser \/ SeedReady \/ SeedVerified \/ (\E e \in Barred : Deactivate(e))
             \/ AdminReads \/ UNCHANGED vars
      PROVE  HeadersInv'
  <2>1. UNCHANGED <<pc, req>>
    BY <1>4 DEF SeedUser, SeedReady, SeedVerified, Deactivate, AdminReads, accountVars, vars, handler
  <2>2. QED
    BY <2>1 DEF HeadersInv
<1>5. QED
  BY <1>1, <1>2, <1>3, <1>4 DEF Next, Idle

\* A registration that is to be answered 201 keeps its draft until it is written.
CreatedRow(w) ==
    Created(w) =>
        /\ pc[w] = "audit" =>
              draft[w].action = "USER_REGISTER" /\ draft[w].user = Normal(req[w].email)
        /\ pc[w] = "answer" => Written("USER_REGISTER", Normal(req[w].email))

LEMMA WaitingRow ==
    ASSUME [Next]_vars, NEW v, CreatedRow(v),
           pc'[v] = pc[v], code'[v] = code[v], draft'[v] = draft[v], req'[v] = req[v]
    PROVE  CreatedRow(v)'
<1>1. PICK e : e = Normal(req[v].email)
  OBVIOUS
<1>2. Normal(req[v].email)' = e
  BY <1>1
<1>3. Written("USER_REGISTER", e) => Written("USER_REGISTER", e)'
  BY WrittenStays
<1>4. Written("USER_REGISTER", Normal(req[v].email))' <=> Written("USER_REGISTER", e)'
  BY <1>2 DEF Written, Rows
<1>5. QED
  BY <1>1, <1>2, <1>3, <1>4 DEF CreatedRow, Created

LEMMA OwnRow ==
    ASSUME BaseInv, [Next]_vars, NEW w \in Workers, CreatedRow(w),
           Begin(w) \/ Handle(w) \/ StatementFails(w) \/ AuditSwallowed(w)
    PROVE  CreatedRow(w)'
<1>0. DOMAIN pc = Workers /\ DOMAIN code = Workers /\ DOMAIN draft = Workers /\ DOMAIN req = Workers
  BY DEF BaseInv, TypeOK, HandlerShape
<1>1. CASE Begin(w)
  <2>1. PICK r \in Requests :
            IF r.op = "other"
            THEN ThenLog(w, 200, "OTHER", None, r.from, r.details)
            ELSE Goto(w, r.op)
    BY <1>1 DEF Begin
  <2>2. r.op \in {"register", "login", "other"}
    BY RequestShapes
  <2>3. ~Created(w)'
    BY <1>0, <2>1, <2>2 DEF ThenLog, Goto, Created
  <2>4. QED
    BY <2>3 DEF CreatedRow
<1>2. CASE RegisterCreate(w)
  <2>1. CASE Reply(w, 503)
    BY <1>0, <2>1 DEF Reply, Created, CreatedRow
  <2>2. CASE ThenLog(w, 201, "USER_REGISTER", Normal(req[w].email), req[w].from, NoDetails)
    <3>1. /\ pc'[w] = "audit" /\ draft'[w].action = "USER_REGISTER"
          /\ draft'[w].user = Normal(req[w].email)
      BY <1>0, <2>2 DEF ThenLog, AuditRow
    <3>2. req' = req
      BY <1>2 DEF RegisterCreate
    <3>3. QED
      BY <3>1, <3>2 DEF CreatedRow
  <2>3. QED
    BY <1>2, <2>1, <2>2 DEF RegisterCreate
<1>3. CASE RegisterCheck(w) \/ LoginBlocked(w) \/ LoginVerify(w) \/ StatementFails(w) \/ Answer(w)
  <2>1. ~Created(w)'
    BY <1>0, <1>3 DEF RegisterCheck, LoginBlocked, LoginVerify, StatementFails, Answer, Reply, Goto,
                      ThenLog, Created
  <2>2. QED
    BY <2>1 DEF CreatedRow
<1>4. CASE AuditWrite(w) \/ AuditSwallowed(w)
  <2>1. /\ pc[w] = "audit" /\ pc'[w] = "answer" /\ UNCHANGED <<req, code, draft>>
        /\ draft[w] \in log' \/ <<draft[w].action, draft[w].user>> \in unlogged'
    BY <1>0, <1>4 DEF AuditWrite, AuditSwallowed
  <2>2. Created(w)' => Created(w)
    BY <2>1 DEF Created
  <2>3. PICK e : e = Normal(req[w].email)
    OBVIOUS
  <2>4. Created(w) => Written("USER_REGISTER", e)'
    BY <2>1, <2>3 DEF CreatedRow, Written, Rows
  <2>5. Normal(req[w].email)' = e
    BY <2>1, <2>3
  <2>6. QED
    BY <2>1, <2>2, <2>4, <2>5 DEF CreatedRow
<1>5. QED
  BY <1>1, <1>2, <1>3, <1>4 DEF Handle

LEMMA CreatedLoggedStep ==
    ASSUME BaseInv, CreatedLogged, [Next]_vars
    PROVE  CreatedLogged'
<1>0. DOMAIN pc = Workers /\ DOMAIN code = Workers /\ DOMAIN draft = Workers /\ DOMAIN req = Workers
  BY DEF BaseInv, TypeOK, HandlerShape
<1>1. \A v \in Workers : CreatedRow(v)
  BY DEF CreatedLogged, CreatedRow
<1>2. SUFFICES \A v \in Workers : CreatedRow(v)'
  BY DEF CreatedLogged, CreatedRow
<1>3. ASSUME NEW w \in Workers, Begin(w) \/ Handle(w) \/ StatementFails(w) \/ AuditSwallowed(w)
      PROVE  \A v \in Workers : CreatedRow(v)'
  <2>1. \A v \in Workers : v # w =>
          pc'[v] = pc[v] /\ code'[v] = code[v] /\ draft'[v] = draft[v] /\ req'[v] = req[v]
    <3>1. CASE Begin(w)
      BY <1>0, <3>1 DEF Begin, ThenLog, Goto
    <3>2. CASE RegisterCheck(w) \/ RegisterCreate(w) \/ LoginBlocked(w) \/ LoginVerify(w)
      BY <1>0, <3>2 DEF RegisterCheck, RegisterCreate, LoginBlocked, LoginVerify, Reply, Goto, ThenLog
    <3>3. CASE AuditWrite(w) \/ StatementFails(w) \/ AuditSwallowed(w) \/ Answer(w)
      BY <1>0, <3>3 DEF AuditWrite, StatementFails, AuditSwallowed, Answer, Reply
    <3>4. QED
      BY <1>3, <3>1, <3>2, <3>3 DEF Handle
  <2>2. QED
    BY <1>1, <1>3, <2>1, OwnRow, WaitingRow
<1>4. CASE Restart
  BY <1>4 DEF Restart, CreatedRow, Created
<1>5. ASSUME \/ SeedUser \/ SeedReady \/ SeedVerified \/ (\E e \in Barred : Deactivate(e))
             \/ AdminReads \/ UNCHANGED vars
      PROVE  \A v \in Workers : CreatedRow(v)'
  <2>1. UNCHANGED <<pc, req, code, draft>>
    BY <1>5 DEF SeedUser, SeedReady, SeedVerified, Deactivate, AdminReads, accountVars, vars, handler
  <2>2. QED
    BY <1>1, <2>1, WaitingRow
<1>6. QED
  BY <1>3, <1>4, <1>5 DEF Next, Idle

LEMMA ToldLoggedStep ==
    ASSUME BaseInv, CreatedLogged, ToldLogged, [Next]_vars
    PROVE  ToldLogged'
<1>1. \A t \in told : Written("USER_REGISTER", t.email)'
  BY WrittenStays DEF ToldLogged
<1>2. ASSUME NEW w \in Workers, Answer(w) PROVE ToldLogged'
  <2>1. PICK e : e = Normal(req[w].email)
    OBVIOUS
  <2>2. \A t \in told' : t \in told \/ (code[w] = 201 /\ t.email = e)
    BY <1>2, <2>1 DEF Answer
  <2>3. code[w] = 201 => Written("USER_REGISTER", e)
    BY <1>2, <2>1 DEF Answer, CreatedLogged, Created
  <2>4. code[w] = 201 => Written("USER_REGISTER", e)'
    BY <2>3, WrittenStays
  <2>5. QED
    BY <1>1, <2>2, <2>4 DEF ToldLogged
<1>3. ASSUME NEW w \in Workers,
             \/ Begin(w) \/ RegisterCheck(w) \/ RegisterCreate(w) \/ LoginBlocked(w) \/ LoginVerify(w)
             \/ AuditWrite(w) \/ StatementFails(w) \/ AuditSwallowed(w)
      PROVE  told' = told
  BY <1>3 DEF Begin, RegisterCheck, RegisterCreate, LoginBlocked, LoginVerify, AuditWrite,
              StatementFails, AuditSwallowed, history
<1>4. ASSUME \/ SeedUser \/ SeedReady \/ SeedVerified \/ Restart \/ (\E e \in Barred : Deactivate(e))
             \/ AdminReads \/ UNCHANGED vars
      PROVE  told' = told
  BY <1>4 DEF SeedUser, SeedReady, SeedVerified, Restart, Deactivate, AdminReads, accountVars, vars, history
<1>5. told' = told => ToldLogged'
  BY <1>1 DEF ToldLogged
<1>6. QED
  BY <1>2, <1>3, <1>4, <1>5 DEF Next, Handle, Idle

LEMMA SeedLoggedStep ==
    ASSUME BaseInv, SeedLogged, [Next]_vars
    PROVE  SeedLogged'
<1>1. ASSUME NEW i \in Seeds, Written("SEED_USER_READY", SeedEmail(i))
      PROVE  Written("SEED_USER_READY", SeedEmail(i))'
  BY <1>1, WrittenStays
<1>2. CASE UNCHANGED <<phase, at>>
  BY <1>1, <1>2 DEF SeedLogged
<1>3. CASE SeedUser
  <2>1. phase' = "users" \/ (phase' = "ready" /\ at' = 1)
    BY <1>3 DEF SeedUser, Advance
  <2>2. QED
    BY <2>1, Shapes DEF SeedLogged
<1>4. CASE SeedReady
  <2>1. PICK n \in Seeds : n = at
    BY DEF BaseInv, TypeOK
  <2>2. PICK e : e = SeedEmail(n)
    OBVIOUS
  <2>3. SeedLog("SEED_USER_READY", e)
    BY <1>4, <2>1, <2>2 DEF SeedReady
  <2>4. Written("SEED_USER_READY", e) \/ Written("SEED_USER_READY", e)'
    <3>1. PICK x : x = AuditRow("SEED_USER_READY", e, None, NoDetails)
      OBVIOUS
    <3>2. x.action = "SEED_USER_READY" /\ x.user = e
      BY <3>1, DraftIsClean
    <3>3. CASE Rows("SEED_USER_READY", e) # {}
      BY <3>3 DEF Written
    <3>4. CASE x \in log' \/ <<"SEED_USER_READY", e>> \in unlogged'
      BY <3>2, <3>4 DEF Written, Rows
    <3>5. QED
      BY <2>3, <3>1, <3>3, <3>4 DEF SeedLog
  <2>5. Written("SEED_USER_READY", e)'
    BY <2>4, WrittenStays
  <2>6. \A i \in Seeds : phase' = "verified" \/ i < at' => i = n \/ i < at
    BY <1>4, <2>1, Shapes DEF SeedReady, Advance
  <2>7. phase = "ready" /\ phase' \in {"ready", "verified"}
    BY <1>4 DEF SeedReady, Advance
  <2>8. QED
    BY <1>1, <2>2, <2>5, <2>6, <2>7 DEF SeedLogged
<1>5. CASE SeedVerified
  BY <1>1, <1>5 DEF SeedVerified, SeedLogged
<1>6. CASE Restart
  BY <1>6 DEF Restart, SeedLogged
<1>7. ASSUME NEW w \in Workers, Begin(w) \/ Handle(w) \/ StatementFails(w) \/ AuditSwallowed(w)
      PROVE  UNCHANGED <<phase, at>>
  BY <1>7 DEF Begin, Handle, RegisterCheck, RegisterCreate, LoginBlocked, LoginVerify, AuditWrite,
              Answer, StatementFails, AuditSwallowed, seeding
<1>8. ASSUME (\E e \in Barred : Deactivate(e)) \/ AdminReads \/ UNCHANGED vars
      PROVE  UNCHANGED <<phase, at>>
  BY <1>8 DEF Deactivate, AdminReads, accountVars, vars, seeding
<1>9. QED
  BY <1>2, <1>3, <1>4, <1>5, <1>6, <1>7, <1>8 DEF Next, Idle

LEMMA AuditInvariant == Spec => [](BaseInv /\ AuditInv)
<1>1. Init => AuditInv
  <2> SUFFICES ASSUME Init PROVE AuditInv
    OBVIOUS
  <2>1. /\ log = {} /\ told = {} /\ phase = "users" /\ \A w \in Workers : pc[w] = "idle"
    BY DEF Init, AuditInit
  <2>2. QED
    BY <2>1 DEF AuditInv, HeadersInv, Once, RowsInv, CreatedLogged, ToldLogged, SeedLogged, Pending, Created
<1>2. (BaseInv /\ StandInv) /\ AuditInv /\ [Next]_vars => AuditInv'
  BY RowsStep, HeadersStep, CreatedLoggedStep, ToldLoggedStep, SeedLoggedStep DEF AuditInv
<1>3. QED
  BY <1>1, <1>2, StandInvariant, PTL DEF Spec

\* Restarts of the container write no second row of a seeded user, threads none of
\* a registration; a registration answered 201 and the users of a server that runs
\* have theirs, unless its INSERT failed; and rows name clients and valid addresses
\* (register, seed.py, log_action, get_client_ip).
THEOREM RowsAreWrittenOnce == Spec => []LoggedOnce
<1>1. AuditInv => LoggedOnce
  <2> SUFFICES ASSUME AuditInv PROVE LoggedOnce
    OBVIOUS
  <2>1. \A r, q \in log : r.action = q.action /\ r.user = q.user
          /\ r.action \in {"USER_REGISTER", "SEED_USER_READY", "SEED_ADMIN_VERIFIED"} => r = q
    BY DEF AuditInv, Once, SeedActions
  <2>2. \A t \in told : Written("USER_REGISTER", t.email)
    BY DEF AuditInv, ToldLogged
  <2>3. phase = "serving" => \A i \in Seeds : Written("SEED_USER_READY", SeedEmail(i))
    BY DEF AuditInv, SeedLogged
  <2>4. \A r \in log : /\ r.ip \in Addresses \cup {None}
                       /\ r.action = "USER_REGISTER" => Known(r.user) /\ users[r.user].role = "CLIENT"
    BY DEF AuditInv, RowsInv, OfClient, ClientAccount, Cleaned
  <2>5. QED
    BY <2>1, <2>2, <2>3, <2>4 DEF LoggedOnce, Written
<1>2. QED
  BY <1>1, AuditInvariant, PTL

\* _sanitize_value leaves no text of a sensitive key in the details of any handler.
Sanitized == \A d \in Details \cup {NoDetails} : "secret" \notin TextsIn[Clean[d]]

\* Rows hold details only as _sanitize_value made them, so where it leaves no text of a
\* sensitive key no row ever holds one; and each event has its one row (log_action).
THEOREM NoSecretIsLogged == ASSUME Sanitized PROVE Spec => []AuditedOnce
<1>1. AuditInv /\ LoggedOnce => AuditedOnce
  BY DEF Sanitized, AuditInv, RowsInv, Cleaned, AuditedOnce
<1>2. QED
  BY <1>1, AuditInvariant, RowsAreWrittenOnce, PTL
=============================================================================
