# Verification of MVP Bank

MVP Bank is a Django service in which clients submit credit applications,
managers decide them and administrators read an audit log. This directory holds
TLA+ models of its stateful parts, TLC configurations that check them on small
instances, and TLAPS proofs of the properties that matter most for every
instance.

## 1. The system

| Part | State | Operations | What makes it correct |
| --- | --- | --- | --- |
| Loans API, `apps/loans/api.py` | `credit_applications` | apply, list, get, decide, export | one final decision per application; managers are told the truth; clients see their own |
| Audit log, `apps/audit` | `audit_logs` | `log_action`, `GET /audit/logs` | a row agrees with what was decided, and holds no secret; a reader misses nothing |
| Deployment, `docker-compose.yml`, `seed.py` | the seeded users, applications, audit rows | migrate, seed and serve on every start | the server starts over complete seed data; real decisions survive |
| Tokens, `core/security.py`, `auth_app/api.py` | `revoked_tokens`, `users.is_active`, signed tokens | login, refresh, logout, authentication | a refresh token is exchanged once; logout is final |
| Login throttling, `auth_app/services.py` | `login_throttles` | check, register failure, reset | no failure is lost; a block holds |
| Documents, `loans/documents.py` | `loan_documents`, files under `MEDIA_ROOT` | upload | rows describe complete files |
| Dashboard, `templates/index.html` | tokens in `sessionStorage`, profile and rows in the page | login, rotate, logout, refresh, lists, apply, decide, upload, export | the page acts for whom it shows |
| Registration, `auth_app/api.py`, `seed.py` | `users` | register, login, seed on every start | one account per address, whose owner can log in; no answer without its reason |
| Client address, `core/network.py` | none | `get_client_ip` | an address in the log is one |
| Schemas, settings, scripts, migrations | none of their own | validation, configuration, tools | |

Interactions. The dashboard calls the API over HTTP. Requests run on threads
(`runserver`), every ORM statement in its own transaction unless the code says
`transaction.atomic`; all shared state is in PostgreSQL and, for documents, in
the file system. Every endpoint ends with `log_action`, which swallows its own
failures. Authentication (`core/permissions.py`) runs before each handler and
reads `revoked_tokens` and `users`. The container command runs `seed.py` before
it serves, so the seed script shares `credit_applications` with every earlier
run of the service.

What is hard here: two statements of one handler with another handler's between
them; row locks and unique keys, and who waits on them; failures after a commit;
a crash anywhere; clocks; and, in the browser, answers that arrive after other
clicks. `PROJECT.json` lists each place as a hazard with the properties about it.

## 2. Plan

Order, most important behaviour first. Done: all but 14.

1. `Loans` and its abstract specification `LoanLedger`
2. `Deployment`, which composes `Loans` with `seed.py`
3. `LoansProofs`
4. `Tokens` and its abstract specification `TokenChain`
5. `TokensProofs`
6. `LoginThrottle`
7. `Documents`
8. `Dashboard`
9. the findings of section 6
10. `Accounts`: registration as a look-up and an insert under the unique e-mail, racing the login of the new account
11. `AuditLog`: pages by offset over a growing table, redaction, `get_client_ip`
12. the seeded users, and the audit rows about them, in `Accounts`
13. `AuditLogProofs`, `AccountsProofs`, `DocumentsProofs`, `DashboardProofs`, `DeploymentProofs`, `LoginThrottleProofs`
14. left: of `Deployment`, that what `Loans` promises of reads and answers holds until
    the next start of the script

## 3. Modules

The server modules share one shape. A thread `w` of `Workers` is at the step
`pc[w]` of the request `req[w]`; a step is one database statement (or one
`open`, `write`, `unlink`) with the Python code that follows it, up to the next
statement. `Reply` is the response of a handler, `Answer` its arrival at the
client. `StatementFails` is a failed statement at the point the thread has
reached: `transaction.atomic` rolls back and releases its locks, and Django
answers 500; an export, whose 200 went out before its query, is cut short instead, and
a committed decision is answered 500 when the response's look-up of `client_email` fails
(`FailedReply`, `Serialising` of `Loans`). `Crash` ends all threads, drops their transactions and keeps what
was committed. `Quiescent` is a stutter that stands for an idle server when the
bounds are used up, so that a deadlock that TLC reports is a real one. Variants
of actions (a comment says "Variant") are never part of `Next`; they are the
plausible mistakes that `PROJECT.json` lists as mutants, and each makes its
property fail.

**LoanLedger** promises what the table means: a ledger of applications, each
submitted once (`Submit`), decided at most once by a manager (`Decide`), and
acknowledged to that manager only (`Acknowledge`).

**Loans** is `apps/loans/api.py` and `log_action`. `loans` is the table,
`lockedBy` the row locks of `SELECT FOR UPDATE`, `auditLog` the audit rows per
application, `local` the objects a handler holds, `answers` what clients were
told. Apply is `ApplyForbidden`/`ApplyCreate`; decide is `DecideForbidden`,
`DecideMissing`, `DecideLock`, then `DecideConflict` or `DecideCommit`; export
writes its audit row and answers before `ExportStream` runs the query. The audit
insert follows the commit (`AuditWrite`), or fails and is swallowed
(`AuditSwallowed`). `LedgerSpec` is `LoanLedger` under the refinement `ledger <-
loans`, `acknowledged <-` the decisions answered 200.

**Deployment** extends `Loans` with the life of the container: `upsert` (first
loop of `seed.py`), `decide` (second loop), `review` (the audit rows of the first
80 applications, `Reviewed` here), `serving`, and `failed` when
`update_or_create` finds two rows. `Restart` may come at any point; a statement of
the script that fails ends it like `Restart`, except in `log_action`. `made` is history:
the rows that the script created, whatever they look like later. With it
`FailsOnlyOnDuplicate` tells a script that trips over its own rows from one that meets a
client's, and `SubmittedDecisionsFinal` says whose decisions are safe.

**TokenChain** promises what a session is: `Open` a chain, `Exchange` its live
token for one successor, `Close` it.

**Tokens** is `core/security.py`, `auth_app/api.py` and `revoke_token`. A login
or a rotation signs a pair of tokens, here a number with its user, its
predecessor and the time; `revoked` is the table with its unique key on the
token: `Claimed` is an uncommitted insert that makes another insert of that key
wait. Login with the right password is `LoginVerify`, which reads the account, and
`LoginSign`, after the reset of its counters. Rotation is `RefreshDecode`, `RefreshOwner`, `RefreshClaim`,
`RefreshCommit`; logout is `AuthToken`, `AuthUser`, `LogoutRevokeAccess`,
`LogoutDecodeRefresh`, `LogoutRevokeRefresh`. `Tick` and `Deactivate` may come at
any time. `family`, `loggedOut` and `doomed` are history.

**LoginThrottle** is the login handler with its counters. The row locks, the
unique scope key, PostgreSQL's deadlock detection and the order in which a
`DELETE` meets its rows are part of it, because the code's behaviour depends on
them: an `INSERT` waits for whoever inserts, changes or deletes its key and is a
duplicate if there is a row then. There is one account, since rows of two accounts have
different keys.

**Documents** is the upload endpoint with the file system. A body is a number of
chunks and whether its type and its first bytes are right; `files` holds what has
been written, `rows` the table. `OpenFails`, `WriteFails`, `UnlinkFails` and
`StatementFails` are the calls that may fail, each where the code meets it.

**Dashboard** is the script of the page. A handler is the list of the calls it
awaits; `Click` runs it up to the first call, and each `...Received`, `...Failed`
action is the code between one `await` and the next. The server is nondeterministic:
it may refuse any call, and serves only valid tokens and permitted roles.
`calm` records that nobody clicked while a handler waited.

**AuditLog** is the table `audit_logs` as a set of rows with their time stamps,
which are taken in Python before the `INSERT`, so that rows may appear out of
order. `AuditRow` is what `log_action` stores: `ClientIp` is `get_client_ip`, `Clean`
is `_sanitize_value`, a recursive function over values that are texts, maps or
lists; `TextsIn` is the reference it is checked against. `ReadPage` is one call of
`GET /audit/logs` by a client that asks for page after page until a short one;
`target`, `seen`, `repeats` and `done` are what that client knows.

**Accounts** extends it with the table `users` and all that writes it.
`RegisterCheck` and `RegisterCreate` are the two statements of `register`;
`LoginBlocked` and `LoginVerify` the account check of `login`, where a missing or
inactive account is verified against the dummy hash; every handler that writes an
audit row goes on with `AuditWrite` or `AuditSwallowed`. `SeedUser`, `SeedReady` and
`SeedVerified` are the parts of `seed.py` about users; `issued` are the passwords
this start will print. `Restart` ends threads and script at any point,
`Deactivate` is an operator. `entitled` (a login that began with the right password
of an active account), `told` (registrations answered 201), `failed` and `unlogged`
are history. Two spellings of an address are one `Normal` address, as the
validators of the schemas make them.

**MCLoans, MCDeployment, MCTokens, MCLoginThrottle, MCDocuments, MCDashboard,
MCAccounts** instantiate them for TLC. **LoansProofs**, **DeploymentProofs** (which
rests on it), **TokensProofs**, **LoginThrottleProofs**, **AuditLogProofs** and
**AccountsProofs** (which rests on that), **DocumentsProofs** and **DashboardProofs**
hold the proofs.

## 4. Runs

| Run | Instance | What it shows |
| --- | --- | --- |
| `loans_decide` | 1 application, 2 managers, 2 threads, 3 requests, 1 crash, 1 failed statement | decisions are final, told truthfully and audited under the right name; the table implements `LoanLedger`; every request ends |
| `loans_read` | 2 applications, 2 clients, 1 manager, 1 admin, 2 threads, 4 requests | reads, lists and exports show what was answered before they began, and clients their own rows only |
| `loans_audit` | 1 manager, 1 failed statement | violation: a decision without its audit row |
| `deployment` | seeds 0 (approved) and 1 (pending), a third application, 2 restarts | the server only serves complete seed data; decisions on submitted applications survive; seed audit rows are written once; the script makes one row per seed and fails only on a client's duplicate |
| `deployment_final` | seed 1, 1 restart | violation: a decision answered 200 is undone |
| `tokens` | 1 user, 3 pairs, 2 threads, 3 requests, clock 0..2, 1 crash, 1 failed statement | single use, one live token per session, nothing after logout, a 200 logout revoked what it named, refusal of dead tokens, refinement of `TokenChain`; every request ends |
| `login` | 2 addresses, 2 threads, limit 2, window 1, block 1, clock 0..2, 4 requests, 1 crash, 1 failed statement | no failure is lost, blocks hold, at most one late failure, no thread waits for ever |
| `login_responses` | 1 address, 2 threads | violation: 500 on two concurrent first failures |
| `documents` | 2 files, 2 threads, size limit 2, 1 crash, 1 failed call | rows describe complete files; what is left over is accounted for |
| `accounts` | 1 new address in two spellings, 2 seeded users, 2 threads, 2 requests, 1 restart, 1 failed statement, 1 deactivation, pages of 2 rows | accounts stand over races, restarts and seeds; answers have their reasons; each event has one clean audit row; a reader misses no row and sees one twice only for a new one |
| `dashboard` | 1 client, 1 manager, 1 admin, 2 overlapping handlers, 2 pairs | the page acts for whom it shows, signs out completely, shows the right panels |
| `dashboard_rows` | 1 client, 1 admin, 1 handler | violation: the rows of the last user |

Why these bounds are enough to be interesting. The races are between two
threads, so two threads and one row suffice to meet them; a third request lets
one come after the race is over and see its result, and in `loans_read` a fourth
lets a read follow a submission, a decision and another read. The two requests of
`accounts` race for one address, or the second logs into the account of the first
(a seeded address is taken from the start); with the seeds' rows they fill more
than one page of the reader. Three pairs make a chain with a middle. A clock of three values
with lifetimes of one and two has every order of issue, use, expiry of the
access token and expiry of the refresh token. A failure limit of two makes the
second failure block; a window and a block of one reach both sides of each
boundary. A size limit of two chunks has the empty, the exact and the oversized
file. One crash and one failure reach every point of a handler, since they may
come at any step. Two seeds give one of each client and one approved, one
pending; two restarts interrupt the script and the restart of the script.
`Clicks` leaves the export, the upload and the registration form out of the
dashboard runs: like the apply form and the decision buttons they make one call
and show a message. `MaxRequests`, `MaxTime`, `MaxCrashes`, `MaxFaults`, `MaxLoans`,
`MaxPairs`, `MaxFiles` bound what the code does not; the proofs hold for every
value of those they mention.

Symmetry is used over threads (and managers, dashboard handlers, passwords) in runs
that check no liveness.

## 5. Fairness and liveness

`EveryRequestEnds` of `Loans`, `Tokens` and `LoginThrottle` assumes weak fairness
of each running thread (`Proceed`): the operating system schedules threads and
the database answers or fails. In `Loans` the wait for a row lock is a step of
its own, with strong fairness, because PostgreSQL queues the waiters of a row
and a waiter is served although others take the lock in between. `Begin`,
`Crash`, `StatementFails` and `Tick` have no fairness. `Documents`, `Accounts` and the
dashboard have no liveness property: nothing in an upload or a registration waits
for another thread in these models, and nothing in the code makes a server answer
a browser.

## 6. Disagreements found

1. **A decision without an audit row** (`loans_audit`). `log_action` runs after
   the commit and swallows its failure (`audit/service.py:71`), while the endpoint
   says "The decision is written to the audit log." (`loans/api.py:191`).
2. **Final decisions are undone** (`deployment_final`). `seed.py:131` resets every
   seeded application to PENDING on every container start
   (`docker-compose.yml:46-49`), while the endpoint speaks of "making a final
   decision" (`loans/api.py:190`). Submitted applications are safe
   (`SubmittedDecisionsFinal`), unless their purpose repeats a seeded one.
3. **500 on concurrent first failures** (`login_responses`). `SELECT FOR UPDATE`
   cannot lock a row that is not there (`services.py:71-73`); the endpoint declares
   200, 401 and 429 (`auth_app/api.py:95`).
4. **Rows of the last user** (`dashboard_rows`). `loadProfile` ends a session
   without clearing the rows (`index.html:595-600`), and the next user sees them,
   while a client is to see "only own applications" (`loans/api.py:73`).

Met while modelling, with no statement in the repository to contradict, hence
no run: the apply and register forms use `event.currentTarget` after an `await`,
when it is null, so that a success is shown as an error and the list is not
reloaded (`FormDone`); a late `/auth/me` shows a user who has signed out
meanwhile, when handlers overlap; a logout whose second revocation fails cannot be
retried with the revoked access token; the "Rotate token" button is in the panel
that is hidden while somebody is signed in.

## 7. Proofs

TLAPS checks the proofs for all sets of users, threads, applications, pairs, names
and addresses and for all bounds, from the `ASSUME`s of the modules: bounds are
numbers, `None` and its like are nothing else, roles are disjoint where a property
needs it, the threads of `Documents` and `LoginThrottle` are finitely many, the users
of `seed.py` are different ones, `X-Forwarded-For` is a list, one failure alone does
not block, and a page has at least one row.

*Loans* (`LoansProofs`). `TypeCorrect`, `DecisionIsFinal`, `AnswersStand`,
`ImplementsLedger`. Typing alone says nothing about the copy of a row that a handler
writes back, so the invariant `LockInv` adds the lock protocol: a thread that is at
"holding" holds the lock of its row, is a manager, and its copy equals the table's
row (`LockHolders`), with the shape of its request (`HandlerShape`). Only a commit
writes an existing row, only from "holding" and only if the copy is PENDING, so
decided rows are kept (`KeepStep`). `AnswerInv` adds what a thread on its way to
the answer is about to say (`PendingAnswers`); from it and `KeepStep` answers
stay true (`AnswerStep`). The refinement (`LedgerStep`) maps each step to
`Submit`, `Decide`, `Acknowledge` or a stutter.

*What reads and the log say* (`LoansProofs`). `ReadsAreCurrent`, `ReadsAreOwn`,
`AuditAgrees`, on top of `LockInv` and `AnswerInv`. What a request knew as answered
is decided for ever (`KnownDecided`, by `KeepStep`), and the rows of a read on its
way are the table's where they were known (`PendingReads`): that is enough although
the query of an export runs after its answer has begun. The audit row of a decision
is written when the lock is gone; `PendingAudit` says that its writer is the only
one there is for its application, and that no row about its decision exists yet.

*Deployment* (`DeploymentProofs`). `DeploymentTyped`, `ServerStartsFromSeed`,
`SeedAuditedOnce`, `DuplicateStopsStart`, `SubmittedDecisionsStand`. `DeployInv` puts the
script beside the lock protocol of `Loans`. `ScriptOK` is its loop invariant: what the
first loop is done with is one pending row each, what the second is done with has
its seeded status, and no thread serves a request meanwhile. `MadeOK` says that of the rows with the
client and purpose of an index, as soon as there is one, exactly one is the script's
(`MadeOnce`): the server, and with it the clients, first runs when the first loop has made
them all, the loop creates a row only if it finds none, and no statement of a handler or
of the script gives a row another client or purpose (`RowsKept`, `MadeStays`). So a second match is
a client's (`FailsOnlyOnDuplicate`), and a match that is the only one is the row the script
made (`OnlyMatchIsMade`), so that `exists()` finds the script's own audit row again (`SeedReviewedOnce`). Those are inductive only together.
`SubmittedStep` shows that both loops write seeded rows only and uses `KeepStep` of
`LoansProofs` for what the server does.

*Tokens* (`TokensProofs`). `TypeCorrect`, `SingleLiveToken`, `RotationIsExclusive`,
`ImplementsChain`. The invariant `Inv` joins typing and request shapes, that only
signed tokens are about (`SignedOnly`), that a claim is exclusive and its token not
revoked (`Claims`: the unique key at work), and that sessions are chains:
predecessors are spent, spent tokens have exactly one successor (`Chains`,
`Successors`, `OneLiveRefresh`). Neither part is inductive without the others: a
commit keeps the chains because its claim is exclusive, and a claim stays exclusive
because a revoked token is not claimed. `ImplementStep` maps each step to `Open`,
`Exchange`, `Close` or a stutter.

*The end of a session* (`TokensProofs`). `LogoutIsComplete`, `LateRequestsRefused`,
`SessionsFade`, `NoneRotatesAfter`. Tokens that are revoked or expired and accounts
that are inactive stay so (`Monotone`, `DeadStays`). `LogoutInv` follows a request
that had to be refused when it began up to the check that refuses it (`Stopped`),
and a logout from its first to its second revocation (`Ends`), which another
request may make for it. `FadeInv` adds that a session in which a logout took the
last refresh token has none left to rotate (`ClosedForGood`), which needs that the
session is a chain.

*Login throttling* (`LoginThrottleProofs`). `TypeCorrect`, `RegistrationsAreSerial`,
`FailuresAreCounted`, `BlocksAreKept`, `LateFailuresAreFew`, `DeadlocksArePairs`. `Inv` is
the row lock protocol: what a transaction has written it has locked, and it still is what
`_update_failure_record` makes of the row in the table (`Locks`), e-mail row before
address row (`Shape`). So a commit has the effect of reading and writing both rows at
once (`CommitFacts`, from which the results about counts and late failures follow);
`RegistrationsAreSerial` states it as an action: a failure is added to the rows of its
request as they are then, or some of them are deleted. `CountsFailures` is
not inductive: a row whose window is over counts from one again, which is right only
because no earlier failure is later than both the old window and the old block;
`CountInv` adds that, and that a blocked row has counted enough. `BlocksAreKept` covers a failure whose clock is
older than the block it meets. For `LateFailuresBounded` the invariant (`LateInv`) counts
the failures that came late together with the threads that may still be late, which are
fewer than the threads: the one whose failure began the block is not among them.
`DeadlocksArePairs` justifies the model of PostgreSQL's detector: a thread that waits and holds a row, but not the e-mail
row, waits for whoever holds the e-mail row (`WaitsForEmail`), so that of threads waiting in
a circle two wait for each other, and looking for pairs, as `DeadlockDetected` does, finds
every circle.

*Accounts and the audit log* (`AccountsProofs`, `AuditLogProofs`). `TypeCorrect`,
`RegistrationsStand`, `RefusalsAreTrue`, `ReaderSkipsNothing`, `RepeatsAreWrites`,
`RowsAreWrittenOnce`, `NoSecretIsLogged`.
`StandInv` says that accounts have normal addresses, that a seeded user has its row
from the step of `seed.py` that writes it (`SeedInv`), that a handler that is about to
answer 201 has made the account and is the only one to have (`CreatedInv`), and what
was told (`ToldInv`); a create cannot touch any of it because the address is free.
`ReplyInv` carries the reason of an answer to the answer. For the reader `AuditLogProofs`
counts (`ReaderInv`): the rows of pages 1 to p are the `page * PageSize` newest
(`AboveAtMost`, `AboveAtLeast`, from the ranks of rows being different), so a row of
`target` that was not seen lies below them, and a row that appears moves others down
by one at most and none up (`AppendKeeps`). Each new row pushes at most one seen row
below the boundary (`Sunk`), and only those are got again: repeats, sunk rows and
`target` together are no more than the rows. For the rows themselves `AuditInv` says
that of an address there is one row of a registration or one handler about to write it
(`Once`), which a create keeps because rows of registrations, written or not, name
accounts that exist (`RowsInv`) and its address has none; and that the row is there, or
its `INSERT` failed, before a registration is answered and before the server runs
(`CreatedLogged`, `SeedLogged`). `NoSecretIsLogged` has a hypothesis, `Sanitized`: that
`_sanitize_value` leaves no text of a sensitive key in the details that handlers pass.
What `Clean` computes is recursion over data and stays with TLC, on the details of the
run `accounts`, which nest maps and lists and exceed the limit of a list; that nothing
else reaches the log is what the theorem adds.

*Documents* (`DocumentsProofs`). `TypeCorrect`, `RowsAreComplete`, `UploadAnswersTrue`,
`OrphansAreFailures`. `DocInv` adds that a drawn name is one handler's (`NameInv`) and
that its file has as many chunks as the handler counted and no row before the last
(`FileInv`). A file becomes an orphan only by a failed call, or for each thread that
a crash stops (`CrashOrphans`).

*Dashboard* (`DashboardProofs`). `TypeCorrect`, `ProfileIsOwner`, `SignOutCleans`,
`ShellFits`. What a waiting handler has left to call is a suffix of a plan
(`PlanInv`), so a handler that has just set tokens calls `/auth/me` next: the shell is
out of date only while such a call is on its way (`ShellInv`), and whoever answers
it, or fails to, brings it up to date. For handlers that do not overlap, their
calls are made with the page's tokens, and tokens are asked for only if nobody is
signed in (`CalmInv`).

Every safety property of the passing runs has a theorem. Only model-checked are the
liveness properties, since `EveryRequestEnds` rests on fairness and so on `ENABLED`,
which TLAPS does not have, and `Sanitized`, which is about a recursive function on values
of any depth. Three theorems state something that no run checks as it stands,
`RegistrationsAreSerial`, `DeadlocksArePairs` and `DeploymentTyped`; the invariants behind
them held in runs on the instances of `login` and `deployment` before they were proved.
No module has RECURSIVE operators.

## 8. What the models leave out

- SQLite (`DB_ENGINE=sqlite`), where `select_for_update` does nothing and writers
  are serial: the models are of PostgreSQL at READ COMMITTED, as deployed.
- After a wait, PostgreSQL re-reads a locked row; the wait and the read are one
  step that happens when the lock is free, which has the same result.
- Amounts, terms, comments, full names, file contents, tokens as text, password
  hashes, pagination of the list of applications, log messages.
- Validation of request bodies (lengths, password rules, amounts): pure, before the
  handler. A request of a model is one that passed it. `normalize_email` is kept.
- The audit rows of refresh, logout and upload, which change nothing else and come
  after everything the models say about those requests.
- Audit rows are taken to have different time stamps: they have microseconds, and
  between equal ones the order of a page is not defined.
- Client addresses are values of a set. `last_failure_at` is never read.
- A token's clock has one tick per model time unit; `decode_token` and the database
  share it.
- Quoting of cells and chunks of the CSV export: pure formatting.
- Settings, middleware, URLs, scripts, migrations: no state of their own. The
  Django admin registrations are not mounted by `config/urls.py`.
