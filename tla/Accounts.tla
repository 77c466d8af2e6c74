------------------------------ MODULE Accounts ------------------------------
(***************************************************************************)
(* The table users: registration and the account check of the login        *)
(* endpoint on concurrent threads, the users that seed.py writes on every   *)
(* start of the container, and the operator who deactivates accounts; with  *)
(* the audit rows that all of them write (AuditLog).                        *)
(*                                                                         *)
(* A step is one statement with the Python code up to the next: the time    *)
(* stamp of an audit row is taken at the end of the step before its INSERT. *)
(* Accounts are never deleted, so an address names its row.  The counters   *)
(* of failed logins are LoginThrottle's, tokens are those of Tokens.        *)
(***************************************************************************)
EXTENDS AuditLog

CONSTANTS Workers,
          Names, Passwords,           \* mailboxes; passwords of at most 72 bytes
          Dummy,                      \* the password of dummy_password_hash
          SeedUsers,                  \* users_data: name, role, password of the environment or None
          Typed,                      \* addresses that requests contain
          Origins, Details,           \* headers of requests; details of other handlers
          Barred,                     \* addresses that an operator may deactivate
          MaxRequests,                \* bound: requests
          MaxCrashes, MaxFaults       \* bounds: starts after the first, failed statements

Roles == {"CLIENT", "MANAGER", "ADMIN"}

\* An address as typed, and as normalize_email leaves it.
Email == [name : Names, spelling : {"lower", "other"}]

ASSUME SeedsAreUsers ==
    /\ DOMAIN SeedUsers = 1..Len(SeedUsers) /\ Len(SeedUsers) > 0
    /\ \A i \in DOMAIN SeedUsers :
          /\ SeedUsers[i].name \in Names
          /\ SeedUsers[i].role \in Roles
          /\ \A j \in DOMAIN SeedUsers : SeedUsers[i].name = SeedUsers[j].name => i = j
ASSUME AddressesTyped == Typed \subseteq Email /\ Barred \subseteq Email
ASSUME ForwardedIsAList == \A from \in Origins : DOMAIN from.forwarded \subseteq Nat
ASSUME BoundsAreNat ==
    /\ MaxRequests \in Nat /\ MaxCrashes \in Nat /\ MaxFaults \in Nat

Seeds == DOMAIN SeedUsers

Lower(name) == [name |-> name, spelling |-> "lower"]

Normal(e) == Lower(e.name)
SeedEmail(i) == Lower(SeedUsers[i].name)

\* hash_password and verify_password, up to the salt.
Hash(password) == [bcrypt |-> password]
Verify(password, hash) == Hash(password) = hash
\* generate_password: another one on each start.
Generated(start, i) == [start |-> start, index |-> i]

Secrets == Passwords \cup {SeedUsers[i].password : i \in Seeds} \cup [start : Nat, index : Seeds]
Row == [hash : [bcrypt : Secrets], role : Roles, active : BOOLEAN]
ASSUME NoneIsNoRow == None \notin Row

Account(password, role) == [hash |-> Hash(password), role |-> role, active |-> TRUE]

NoDetails == [map |-> [k \in {} |-> None]]

VARIABLES
    users,     \* table users: e-mail (unique) -> row
    phase,     \* "users", "ready", "verified": parts of seed.py; then "serving"
    at,        \* index of the loop
    issued,    \* issued_passwords, printed when the script ends
    pc, req, code,
    draft,     \* the audit row that log_action is about to insert
    entitled,  \* history: when it began, a login had the password of an active account
    failed,    \* history: a statement of the request failed
    told,      \* history: registrations answered 201
    unlogged,  \* history: action and user of audit rows that could not be written
    accepted, crashes, faults

seeding == <<phase, at, issued>>
handler == <<pc, req, code, draft, entitled, failed>>
history == <<told, unlogged>>
counters == <<accepted, crashes, faults>>
accountVars == <<users, phase, at, issued, pc, req, code, draft, entitled, failed,
                 told, unlogged, accepted, crashes, faults>>
vars == <<log, clock, page, target, seen, repeats, done,
          users, phase, at, issued, pc, req, code, draft, entitled, failed,
          told, unlogged, accepted, crashes, faults>>

Known(e) == users[e] # None

\* The passwords that their owners were told, by an answer or by the script.
WasTold(e, password) ==
    \/ \E t \in told : t.email = e /\ t.password = password
    \/ \E i \in Seeds : SeedEmail(i) = e /\ issued[i] = password

Requests ==
    [op : {"register"}, email : Typed, password : Passwords, from : Origins]
    \cup [op : {"login"}, email : Typed,
          password : Passwords \cup {Dummy} \cup {issued[i] : i \in Seeds}, from : Origins]
    \cup [op : {"other"}, details : Details, from : Origins]

-----------------------------------------------------------------------------
Init ==
    /\ AuditInit
    /\ users = [e \in Email |-> None]
    /\ phase = "users" /\ at = 1 /\ issued = [i \in Seeds |-> None]
    /\ pc = [w \in Workers |-> "idle"]
    /\ req = [w \in Workers |-> None]
    /\ code = [w \in Workers |-> 0]
    /\ draft = [w \in Workers |-> None]
    /\ entitled = [w \in Workers |-> FALSE]
    /\ failed = [w \in Workers |-> FALSE]
    /\ told = {} /\ unlogged = {}
    /\ accepted = 0 /\ crashes = 0 /\ faults = 0

Goto(w, step) == pc' = [pc EXCEPT ![w] = step] /\ UNCHANGED <<code, draft, clock>>

\* The handler answers c without an audit row.
Reply(w, c) ==
    /\ pc' = [pc EXCEPT ![w] = "answer"]
    /\ code' = [code EXCEPT ![w] = c]
    /\ UNCHANGED <<draft, clock>>

\* The handler calls log_action, and will answer c when that returns.
ThenLog(w, c, action, user, from, details) ==
    /\ pc' = [pc EXCEPT ![w] = "audit"]
    /\ code' = [code EXCEPT ![w] = c]
    /\ draft' = [draft EXCEPT ![w] = AuditRow(action, user, from, details)]
    /\ clock' = clock + 1

\* Variant: the server is started beside the script, not after it.
BeginEarly(w) ==
    /\ pc[w] = "idle"
    /\ accepted < MaxRequests /\ accepted' = accepted + 1
    /\ \E r \in {q \in Requests : q.op = "register"} : req' = [req EXCEPT ![w] = r]
    /\ Goto(w, "register")
    /\ UNCHANGED <<log, reader, users, seeding, entitled, failed, history, crashes, faults>>

\* A request arrives; every other endpoint is the audit row that it writes.
Begin(w) ==
    /\ phase = "serving" /\ pc[w] = "idle"
    /\ accepted < MaxRequests /\ accepted' = accepted + 1
    /\ \E r \in Requests :
          /\ req' = [req EXCEPT ![w] = r]
          /\ entitled' = [entitled EXCEPT ![w] =
                /\ r.op = "login"
                /\ WasTold(Normal(r.email), r.password) /\ users[Normal(r.email)].active]
          /\ IF r.op = "other"
             THEN ThenLog(w, 200, "OTHER", None, r.from, r.details)
             ELSE Goto(w, r.op)
    /\ UNCHANGED <<log, reader, users, seeding, failed, history, crashes, faults>>

\* register: the address is looked up ...
RegisterCheck(w) ==
    /\ pc[w] = "register"
    /\ IF Known(Normal(req[w].email)) THEN Reply(w, 400) ELSE Goto(w, "create")
    /\ UNCHANGED <<log, reader, users, seeding, req, entitled, failed, history, counters>>

\* Variant: update_or_create, as in seed.py.
RegisterUpsert(w) ==
    /\ pc[w] = "create"
    /\ LET e == Normal(req[w].email) IN
       /\ users' = [users EXCEPT ![e] = Account(req[w].password, "CLIENT")]
       /\ ThenLog(w, 201, "USER_REGISTER", e, req[w].from, NoDetails)
    /\ UNCHANGED <<log, reader, seeding, req, entitled, failed, history, counters>>

\* ... and inserted: a row of that address makes it an IntegrityError.
RegisterCreate(w) ==
    /\ pc[w] = "create"
    /\ LET e == Normal(req[w].email) IN
       \/ Known(e) /\ Reply(w, 503) /\ UNCHANGED users
       \/ /\ ~Known(e)
          /\ users' = [users EXCEPT ![e] = Account(req[w].password, "CLIENT")]
          /\ ThenLog(w, 201, "USER_REGISTER", e, req[w].from, NoDetails)
    /\ UNCHANGED <<log, reader, seeding, req, entitled, failed, history, counters>>

\* login of a blocked address (LoginThrottle models when it is).
LoginBlocked(w) ==
    /\ pc[w] = "login"
    /\ ThenLog(w, 429, "LOGIN_BLOCKED", None, req[w].from, NoDetails)
    /\ UNCHANGED <<log, reader, users, seeding, req, entitled, failed, history, counters>>

\* Variant: the result of verify_password decides alone.
LoginVerifyOnly(w) ==
    /\ pc[w] = "login"
    /\ LET e == Normal(req[w].email)
           hash == IF Known(e) /\ users[e].active THEN users[e].hash ELSE Hash(Dummy)
       IN IF Verify(req[w].password, hash)
          THEN ThenLog(w, 200, "LOGIN_SUCCESS", e, req[w].from, NoDetails)
          ELSE ThenLog(w, 401, "LOGIN_FAILED", None, req[w].from, NoDetails)
    /\ UNCHANGED <<log, reader, users, seeding, req, entitled, failed, history, counters>>

\* login: without an active account the password is verified against the dummy
\* hash, and the login refused whatever the result.
LoginVerify(w) ==
    /\ pc[w] = "login"
    /\ LET e == Normal(req[w].email)
           found == Known(e) /\ users[e].active
           user == IF found THEN e ELSE None
       IN IF Verify(req[w].password, IF found THEN users[e].hash ELSE Hash(Dummy)) /\ found
          THEN ThenLog(w, 200, "LOGIN_SUCCESS", user, req[w].from, NoDetails)
          ELSE ThenLog(w, 401, "LOGIN_FAILED", user, req[w].from, NoDetails)
    /\ UNCHANGED <<log, reader, users, seeding, req, entitled, failed, history, counters>>

\* A statement of a handler raises DatabaseError: register answers 503.
StatementFails(w) ==
    /\ pc[w] \in {"register", "create", "login"}
    /\ faults < MaxFaults /\ faults' = faults + 1
    /\ failed' = [failed EXCEPT ![w] = TRUE]
    /\ Reply(w, IF pc[w] = "login" THEN 500 ELSE 503)
    /\ UNCHANGED <<log, reader, users, seeding, req, entitled, history, accepted, crashes>>

\* log_action: the INSERT, and the failure it swallows.
AuditWrite(w) ==
    /\ pc[w] = "audit"
    /\ log' = log \cup {draft[w]}
    /\ pc' = [pc EXCEPT ![w] = "answer"]
    /\ UNCHANGED <<clock, reader, users, seeding, req, code, draft, entitled, failed, history, counters>>

AuditSwallowed(w) ==
    /\ pc[w] = "audit"
    /\ faults < MaxFaults /\ faults' = faults + 1
    /\ unlogged' = unlogged \cup {<<draft[w].action, draft[w].user>>}
    /\ pc' = [pc EXCEPT ![w] = "answer"]
    /\ UNCHANGED <<log, clock, reader, users, seeding, req, code, draft, entitled, failed,
                   told, accepted, crashes>>

Answer(w) ==
    /\ pc[w] = "answer"
    /\ told' = IF code[w] = 201
               THEN told \cup {[worker |-> w, email |-> Normal(req[w].email), password |-> req[w].password]}
               ELSE told
    /\ pc' = [pc EXCEPT ![w] = "idle"]
    /\ req' = [req EXCEPT ![w] = None]
    /\ code' = [code EXCEPT ![w] = 0]
    /\ draft' = [draft EXCEPT ![w] = None]
    /\ entitled' = [entitled EXCEPT ![w] = FALSE]
    /\ failed' = [failed EXCEPT ![w] = FALSE]
    /\ UNCHANGED <<auditVars, users, seeding, unlogged, counters>>

-----------------------------------------------------------------------------
\* seed.py, before the server runs.  Deployment models its loops over applications.

\* After the last index of a part the next part begins.
Advance(next) ==
    IF at = Len(SeedUsers) THEN at' = 1 /\ phase' = next ELSE at' = at + 1 /\ UNCHANGED phase

\* update_or_create of the next user, with a password of the environment or a new one.
SeedUser ==
    /\ phase = "users"
    /\ LET password == IF SeedUsers[at].password = None THEN Generated(crashes, at)
                                                        ELSE SeedUsers[at].password
       IN /\ users' = [users EXCEPT ![SeedEmail(at)] = Account(password, SeedUsers[at].role)]
          /\ issued' = [issued EXCEPT ![at] = password]
    /\ Advance("ready")
    /\ UNCHANGED <<auditVars, handler, history, counters>>

\* Variant: a row on every start.
SeedLogAgain(action, user) ==
    /\ log' = log \cup {AuditRow(action, user, None, NoDetails)} /\ clock' = clock + 1
    /\ UNCHANGED <<unlogged, faults>>

\* The audit row of a seeded user, unless there is one.
SeedLog(action, user) ==
    \/ /\ Rows(action, user) # {}
       /\ UNCHANGED <<log, clock, unlogged, faults>>
    \/ /\ Rows(action, user) = {}
       /\ log' = log \cup {AuditRow(action, user, None, NoDetails)} /\ clock' = clock + 1
       /\ UNCHANGED <<unlogged, faults>>
    \/ /\ Rows(action, user) = {}
       /\ faults < MaxFaults /\ faults' = faults + 1
       /\ unlogged' = unlogged \cup {<<action, user>>}
       /\ UNCHANGED <<log, clock>>

SeedReady ==
    /\ phase = "ready"
    /\ SeedLog("SEED_USER_READY", SeedEmail(at))
    /\ Advance("verified")
    /\ UNCHANGED <<reader, users, issued, handler, told, accepted, crashes>>

\* The last user is the administrator.
SeedVerified ==
    /\ phase = "verified"
    /\ SeedLog("SEED_ADMIN_VERIFIED", SeedEmail(Len(SeedUsers)))
    /\ phase' = "serving"
    /\ UNCHANGED <<at, reader, users, issued, handler, told, accepted, crashes>>

\* The container stops, in the script or while it serves, and is started again.
Restart ==
    /\ crashes < MaxCrashes /\ crashes' = crashes + 1
    /\ phase' = "users" /\ at' = 1 /\ issued' = [i \in Seeds |-> None]
    /\ pc' = [w \in Workers |-> "idle"]
    /\ req' = [w \in Workers |-> None]
    /\ code' = [w \in Workers |-> 0]
    /\ draft' = [w \in Workers |-> None]
    /\ entitled' = [w \in Workers |-> FALSE]
    /\ failed' = [w \in Workers |-> FALSE]
    /\ UNCHANGED <<auditVars, users, history, accepted, faults>>

\* An operator deactivates an account: a login in progress may see it or not.
Deactivate(e) ==
    /\ Known(e) /\ users[e].active
    /\ users' = [users EXCEPT ![e].active = FALSE]
    /\ entitled' = [w \in Workers |->
          entitled[w] /\ Normal(req[w].email) # e]
    /\ UNCHANGED <<auditVars, seeding, pc, req, code, draft, failed, history, counters>>

\* GET /audit/logs, with the token of an active administrator.
AdminReads ==
    /\ phase = "serving"
    /\ \E e \in Email : Known(e) /\ users[e].role = "ADMIN" /\ users[e].active
    /\ ReadPage
    /\ UNCHANGED accountVars

Idle ==
    /\ phase = "serving" /\ \A w \in Workers : pc[w] = "idle"
    /\ UNCHANGED vars

Handle(w) ==
    \/ RegisterCheck(w) \/ RegisterCreate(w)
    \/ LoginBlocked(w) \/ LoginVerify(w)
    \/ AuditWrite(w) \/ Answer(w)

Next ==
    \/ \E w \in Workers : Begin(w) \/ Handle(w) \/ StatementFails(w) \/ AuditSwallowed(w)
    \/ SeedUser \/ SeedReady \/ SeedVerified \/ Restart
    \/ \E e \in Barred : Deactivate(e)
    \/ AdminReads
    \/ Idle

Spec == Init /\ [][Next]_vars

-----------------------------------------------------------------------------
\* Every variable stays within what the handlers and the script write; a handler
\* at "audit" has its row, whose time stamp is one that was taken.
TypeOK ==
    /\ phase \in {"users", "ready", "verified", "serving"}
    /\ at \in Seeds
    /\ users \in [Email -> Row \cup {None}]
    /\ pc \in [Workers -> {"idle", "register", "create", "login", "audit", "answer"}]
    /\ code \in [Workers -> {0, 200, 201, 400, 401, 429, 500, 503}]
    /\ \A w \in Workers : pc[w] = "audit" => draft[w].stamp \in 1..clock
    /\ \A w \in Workers : pc[w] # "idle" => phase = "serving"
    /\ \A r \in log : r.stamp \in 1..clock

\* What a registration answered 201 said stays true for ever, through restarts
\* and other requests: the address has one account, that of the one who was
\* told, with that password.  And the server only runs with the seeded users in
\* their roles, with the passwords that its start has printed.
AccountsStand ==
    /\ \A t \in told : /\ Known(t.email)
                       /\ users[t.email].hash = Hash(t.password) /\ users[t.email].role = "CLIENT"
                       /\ \A u \in told : u.email = t.email => u = t
    /\ \A e, f \in Email : Known(e) /\ Known(f) /\ e.name = f.name => e = f
    /\ phase = "serving" => \A i \in Seeds :
          /\ Known(SeedEmail(i))
          /\ users[SeedEmail(i)].hash = Hash(issued[i])
          /\ users[SeedEmail(i)].role = SeedUsers[i].role

\* A registration is refused only because of an account that is there, or of the
\* database; a login is accepted only with the password of an account, and refused
\* to nobody who was told that password before and is active.
AnswersTrue ==
    \A w \in Workers : pc[w] = "answer" =>
        LET e == Normal(req[w].email) IN
        /\ code[w] \in {400, 503} => Known(e) \/ failed[w]
        /\ code[w] = 200 /\ req[w].op = "login" =>
              Known(e) /\ Verify(req[w].password, users[e].hash)
        /\ code[w] = 401 => ~entitled[w]

\* The log has one row of each registration and of each seeded user, however
\* often the script ran, unless its insert failed; a row has no address or a valid one.
LoggedOnce ==
    /\ \A r, q \in log : r.action = q.action /\ r.user = q.user
          /\ r.action \in {"USER_REGISTER", "SEED_USER_READY", "SEED_ADMIN_VERIFIED"} => r = q
    /\ \A t \in told :
          Rows("USER_REGISTER", t.email) # {} \/ <<"USER_REGISTER", t.email>> \in unlogged
    /\ phase = "serving" => \A i \in Seeds :
          Rows("SEED_USER_READY", SeedEmail(i)) # {} \/ <<"SEED_USER_READY", SeedEmail(i)>> \in unlogged
    /\ \A r \in log : /\ r.ip \in Addresses \cup {None}
                      /\ r.action = "USER_REGISTER" => Known(r.user) /\ users[r.user].role = "CLIENT"

\* And no row holds a text that came under a sensitive key.
AuditedOnce == LoggedOnce /\ \A r \in log : "secret" \notin TextsIn[r.details]
=============================================================================
