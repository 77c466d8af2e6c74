------------------------------- MODULE Tokens -------------------------------
(***************************************************************************)
(* JWT pairs and their revocation: core/security.py, core/permissions.py,  *)
(* revoke_token of auth_app/services.py and the login, refresh, logout and *)
(* me endpoints of auth_app/api.py, on concurrent server threads.          *)
(*                                                                         *)
(* A token is what its signature protects: the pair it was issued with and *)
(* its type.  A step is one database statement with the computation around *)
(* it.  The audit rows that the handlers write last are not state of this  *)
(* module: Loans models log_action.                                        *)
(***************************************************************************)
EXTENDS Naturals, FiniteSets

CONSTANTS Users, Workers,
          None,                            \* NULL, or no token supplied
          AccessTTL, RefreshTTL,           \* in ticks of the clock
          Ops,                             \* the endpoints that requests use
          MaxPairs, MaxTime, MaxRequests,  \* bounds: pairs, clock, requests
          MaxCrashes, MaxFaults            \* bounds: server crashes, failed statements

ASSUME TTLs == AccessTTL \in Nat /\ RefreshTTL \in Nat /\ AccessTTL < RefreshTTL
ASSUME BoundsAreNat ==
    /\ MaxPairs \in Nat
    /\ MaxTime \in Nat
    /\ MaxRequests \in Nat
    /\ MaxCrashes \in Nat
    /\ MaxFaults \in Nat

Pairs == 1..MaxPairs
Token == [kind : {"access", "refresh"}, pair : Pairs]
Refresh(p) == [kind |-> "refresh", pair |-> p]

VARIABLES
    now,       \* the clock
    pairs,     \* the token pairs signed so far: user, parent, family, issuedAt
    held,      \* pairs that an answer delivered to a client
    revoked,   \* table revoked_tokens: jti -> reason and time
    active,    \* User.is_active
    pc, req, code,
    minted,    \* the pair a worker is about to answer with
    doomed,    \* history: when it began, the request's token was logged out or
               \* its user deactivated
    loggedOut, \* history: tokens that a logout answered 200 named
    accepted, crashes, faults          \* counters for the bounds

tables == <<revoked, active>>
handler == <<pc, req, code, minted, doomed>>
counters == <<accepted, crashes, faults>>
vars == <<now, pairs, held, revoked, active, pc, req, code, minted, doomed, loggedOut,
          accepted, crashes, faults>>

Pair == [user : Users, parent : Pairs \cup {None}, family : Pairs, issuedAt : Nat]
Revocation == [reason : {"logout", "refresh_rotated"}, at : Nat]

\* The null value is no user, token or row.
ASSUME NoneIsNothing ==
    /\ None \notin Users /\ None \notin Nat
    /\ None \notin Token /\ None \notin Pair /\ None \notin Revocation

Requests ==
    [op : {"login"} \cap Ops, user : Users]
    \cup [op : {"refresh", "me"} \cap Ops, token : Token]
    \cup [op : {"logout"} \cap Ops, token : Token, refresh : Token \cup {None}]
NoRequest == [op |-> "none"]

Steps == {"idle", "login", "sign", "refresh", "owner", "claim", "rotating", "auth", "bearer",
          "revokeAccess", "decodeRefresh", "revokeRefresh", "answer"}

Minted(p) == pairs[p] # None
IsRevoked(t) == revoked[t] # None
UserOf(t) == pairs[t.pair].user

\* PyJWT refuses a token from the second its "exp" names.
Expiry(t) == pairs[t.pair].issuedAt + (IF t.kind = "access" THEN AccessTTL ELSE RefreshTTL)
Expired(t) == Expiry(t) <= now

\* Variant: decode_token without the revocation lookup.
DecodesSigned(t) == ~Expired(t)

\* decode_token returns a payload.
Decodes(t) == ~Expired(t) /\ ~IsRevoked(t)

\* A transaction has inserted the jti of t and not yet committed.
Claimed(t) == \E w \in Workers : pc[w] = "rotating" /\ req[w].token = t

\* Which tokens a request's answer depends on.
TokensOf(r) == IF r.op = "login" THEN {} ELSE {r.token}
OwnerOf(r) == IF r.op = "login" THEN r.user ELSE UserOf(r.token)

-----------------------------------------------------------------------------
Init ==
    /\ now = 0
    /\ pairs = [p \in Pairs |-> None]
    /\ held = {}
    /\ revoked = [t \in Token |-> None]
    /\ active = [u \in Users |-> TRUE]
    /\ pc = [w \in Workers |-> "idle"]
    /\ req = [w \in Workers |-> NoRequest]
    /\ code = [w \in Workers |-> 0]
    /\ minted = [w \in Workers |-> None]
    /\ doomed = [w \in Workers |-> FALSE]
    /\ loggedOut = {}
    /\ accepted = 0 /\ crashes = 0 /\ faults = 0

Goto(w, step) == pc' = [pc EXCEPT ![w] = step] /\ UNCHANGED <<req, code, minted, doomed>>

Reply(w, c, p) ==
    /\ pc' = [pc EXCEPT ![w] = "answer"]
    /\ code' = [code EXCEPT ![w] = c]
    /\ minted' = [minted EXCEPT ![w] = p]
    /\ UNCHANGED <<req, doomed>>

\* A client sends a token it was given, or its password.  The bound on pairs
\* counts those that requests in progress may still sign.
Signing == Cardinality({w \in Workers : req[w].op \in {"login", "refresh"} /\ minted[w] = None})
FirstStep(op) == IF op \in {"login", "refresh"} THEN op ELSE "auth"
Begin(w) ==
    /\ pc[w] = "idle"
    /\ accepted < MaxRequests
    /\ \E r \in Requests :
          /\ \A t \in TokensOf(r) : t.pair \in held
          /\ r.op = "logout" /\ r.refresh # None => r.refresh.pair \in held
          /\ r.op \in {"login", "refresh"} =>
                Cardinality({p \in Pairs : Minted(p)}) + Signing < MaxPairs
          /\ req' = [req EXCEPT ![w] = r]
          /\ pc' = [pc EXCEPT ![w] = FirstStep(r.op)]
          /\ doomed' = [doomed EXCEPT ![w] =
                (TokensOf(r) \cap loggedOut # {}) \/ ~active[OwnerOf(r)]]
    /\ code' = [code EXCEPT ![w] = 0]
    /\ minted' = [minted EXCEPT ![w] = None]
    /\ accepted' = accepted + 1
    /\ UNCHANGED <<now, pairs, held, tables, loggedOut, crashes, faults>>

\* create_access_token and create_refresh_token.
Sign(p, u, parent, family) ==
    /\ ~Minted(p)
    /\ \A q \in Pairs : q < p => Minted(q)
    /\ pairs' = [pairs EXCEPT ![p] =
          [user |-> u, parent |-> parent, family |-> family, issuedAt |-> now]]

\* revoke_token: get_or_create on the unique jti keeps the first row.
Revoke(t, reason) ==
    revoked' = IF IsRevoked(t) THEN revoked
               ELSE [revoked EXCEPT ![t] = [reason |-> reason, at |-> now]]

-----------------------------------------------------------------------------
\* login with the right password; LoginThrottle models the others

LoginVerify(w) ==
    /\ pc[w] = "login"
    /\ IF active[req[w].user] THEN Goto(w, "sign") ELSE Reply(w, 401, None)
    /\ UNCHANGED <<now, pairs, held, tables, loggedOut, counters>>

\* After reset_login_failures: the account is not read again.
LoginSign(w) ==
    /\ pc[w] = "sign"
    /\ \E p \in Pairs : Sign(p, req[w].user, None, p) /\ Reply(w, 200, p)
    /\ UNCHANGED <<now, held, tables, loggedOut, counters>>

-----------------------------------------------------------------------------
\* refresh_tokens

\* Variant: the type of the token is not compared.
RefreshDecodeAnyType(w) ==
    /\ pc[w] = "refresh"
    /\ IF Decodes(req[w].token) THEN Goto(w, "owner") ELSE Reply(w, 401, None)
    /\ UNCHANGED <<now, pairs, held, tables, loggedOut, counters>>

RefreshDecode(w) ==
    /\ pc[w] = "refresh"
    /\ IF Decodes(req[w].token) /\ req[w].token.kind = "refresh"
       THEN Goto(w, "owner")
       ELSE Reply(w, 401, None)
    /\ UNCHANGED <<now, pairs, held, tables, loggedOut, counters>>

RefreshOwner(w) ==
    /\ pc[w] = "owner"
    /\ IF active[UserOf(req[w].token)] THEN Goto(w, "claim") ELSE Reply(w, 401, None)
    /\ UNCHANGED <<now, pairs, held, tables, loggedOut, counters>>

\* Variant: the result of revoke_token is ignored.
RefreshClaimIgnored(w) ==
    /\ pc[w] = "claim"
    /\ ~Claimed(req[w].token)
    /\ Goto(w, "rotating")
    /\ UNCHANGED <<now, pairs, held, tables, loggedOut, counters>>

\* Variant: exists() and create() without the unique key on jti.
RefreshClaimNoWait(w) ==
    /\ pc[w] = "claim"
    /\ IF IsRevoked(req[w].token) THEN Reply(w, 401, None) ELSE Goto(w, "rotating")
    /\ UNCHANGED <<now, pairs, held, tables, loggedOut, counters>>

\* Variant: the insert is retried until it succeeds.
RefreshClaimRetrying(w) ==
    /\ pc[w] = "claim"
    /\ ~Claimed(req[w].token)
    /\ ~IsRevoked(req[w].token)
    /\ Goto(w, "rotating")
    /\ UNCHANGED <<now, pairs, held, tables, loggedOut, counters>>

\* revoke_token inside the transaction: the unique jti makes get_or_create
\* wait for another transaction that inserts it, and then find or insert it.
RefreshClaim(w) ==
    /\ pc[w] = "claim"
    /\ ~Claimed(req[w].token)
    /\ IF IsRevoked(req[w].token) THEN Reply(w, 401, None) ELSE Goto(w, "rotating")
    /\ UNCHANGED <<now, pairs, held, tables, loggedOut, counters>>

\* Variant: the new pair is signed in a transaction that does not commit.
RefreshCommitLost(w) ==
    /\ pc[w] = "rotating"
    /\ LET t == req[w].token IN
       \E p \in Pairs :
          /\ Sign(p, UserOf(t), t.pair, pairs[t.pair].family)
          /\ Reply(w, 200, p)
    /\ UNCHANGED <<now, held, revoked, active, loggedOut, counters>>

RefreshCommit(w) ==
    /\ pc[w] = "rotating"
    /\ LET t == req[w].token IN
       /\ Revoke(t, "refresh_rotated")
       /\ \E p \in Pairs :
             /\ Sign(p, UserOf(t), t.pair, pairs[t.pair].family)
             /\ Reply(w, 200, p)
    /\ UNCHANGED <<now, held, active, loggedOut, counters>>

-----------------------------------------------------------------------------
\* JWTAuth.authenticate, then me or logout

AuthToken(w) ==
    /\ pc[w] = "auth"
    /\ IF Decodes(req[w].token) /\ req[w].token.kind = "access"
       THEN Goto(w, "bearer")
       ELSE Reply(w, 401, None)
    /\ UNCHANGED <<now, pairs, held, tables, loggedOut, counters>>

AuthUser(w) ==
    /\ pc[w] = "bearer"
    /\ IF ~active[UserOf(req[w].token)] THEN Reply(w, 401, None)
       ELSE IF req[w].op = "me" THEN Reply(w, 200, None)
       ELSE Goto(w, "revokeAccess")
    /\ UNCHANGED <<now, pairs, held, tables, loggedOut, counters>>

\* Variant: a logout that names a refresh token revokes nothing else.
LogoutRevokeAccessOnly(w) ==
    /\ pc[w] = "revokeAccess"
    /\ IF req[w].refresh = None
       THEN Revoke(req[w].token, "logout") /\ Reply(w, 200, None)
       ELSE Goto(w, "decodeRefresh") /\ UNCHANGED revoked
    /\ UNCHANGED <<now, pairs, held, active, loggedOut, counters>>

LogoutRevokeAccess(w) ==
    /\ pc[w] = "revokeAccess"
    /\ Revoke(req[w].token, "logout")
    /\ IF req[w].refresh = None THEN Reply(w, 200, None) ELSE Goto(w, "decodeRefresh")
    /\ UNCHANGED <<now, pairs, held, active, loggedOut, counters>>

LogoutDecodeRefresh(w) ==
    /\ pc[w] = "decodeRefresh"
    /\ LET t == req[w].refresh IN
       IF Decodes(t) /\ t.kind = "refresh" /\ UserOf(t) = UserOf(req[w].token)
       THEN Goto(w, "revokeRefresh")
       ELSE Reply(w, 200, None)
    /\ UNCHANGED <<now, pairs, held, tables, loggedOut, counters>>

\* Variant: the row of a rotation in progress is overwritten, not found.
LogoutRevokeRefreshNoWait(w) ==
    /\ pc[w] = "revokeRefresh"
    /\ Revoke(req[w].refresh, "logout")
    /\ Reply(w, 200, None)
    /\ UNCHANGED <<now, pairs, held, active, loggedOut, counters>>

LogoutRevokeRefresh(w) ==
    /\ pc[w] = "revokeRefresh"
    /\ ~Claimed(req[w].refresh)
    /\ Revoke(req[w].refresh, "logout")
    /\ Reply(w, 200, None)
    /\ UNCHANGED <<now, pairs, held, active, loggedOut, counters>>

-----------------------------------------------------------------------------
\* The tokens that a logout promises to revoke.
Named(r) ==
    {r.token} \cup (IF /\ r.refresh # None
                       /\ r.refresh.kind = "refresh"
                       /\ UserOf(r.refresh) = UserOf(r.token)
                    THEN {r.refresh} ELSE {})

\* Variant: an error answer delivers a pair, too.
AnswerAlwaysPair(w) ==
    /\ pc[w] = "answer"
    /\ held' = held \cup {minted[w]}
    /\ pc' = [pc EXCEPT ![w] = "idle"]
    /\ req' = [req EXCEPT ![w] = NoRequest]
    /\ UNCHANGED <<now, pairs, tables, code, minted, doomed, loggedOut, counters>>

Answer(w) ==
    /\ pc[w] = "answer"
    /\ held' = held \cup ({minted[w]} \ {None})
    /\ loggedOut' = IF req[w].op = "logout" /\ code[w] = 200
                    THEN loggedOut \cup Named(req[w]) ELSE loggedOut
    /\ pc' = [pc EXCEPT ![w] = "idle"]
    /\ req' = [req EXCEPT ![w] = NoRequest]
    /\ code' = [code EXCEPT ![w] = 0]
    /\ minted' = [minted EXCEPT ![w] = None]
    /\ doomed' = [doomed EXCEPT ![w] = FALSE]
    /\ UNCHANGED <<now, pairs, tables, counters>>

\* A statement raises.  An open transaction is rolled back with its claim;
\* what a logout revoked before stays revoked.
StatementFails(w) ==
    /\ pc[w] \notin {"idle", "answer"}
    /\ faults < MaxFaults
    /\ faults' = faults + 1
    /\ Reply(w, 500, None)
    /\ UNCHANGED <<now, pairs, held, tables, loggedOut, accepted, crashes>>

\* The server dies and is started again: open requests and answers are lost.
Crash ==
    /\ crashes < MaxCrashes
    /\ crashes' = crashes + 1
    /\ pc' = [w \in Workers |-> "idle"]
    /\ req' = [w \in Workers |-> NoRequest]
    /\ code' = [w \in Workers |-> 0]
    /\ minted' = [w \in Workers |-> None]
    /\ doomed' = [w \in Workers |-> FALSE]
    /\ UNCHANGED <<now, pairs, held, tables, loggedOut, accepted, faults>>

\* An operator deactivates a user in the database.
Deactivate(u) ==
    /\ active[u]
    /\ active' = [active EXCEPT ![u] = FALSE]
    /\ UNCHANGED <<now, pairs, held, revoked, handler, loggedOut, counters>>

Tick ==
    /\ now < MaxTime
    /\ now' = now + 1
    /\ UNCHANGED <<pairs, held, tables, handler, loggedOut, counters>>

Quiescent ==
    /\ \A w \in Workers : pc[w] = "idle"
    /\ UNCHANGED vars

Proceed(w) ==
    \/ LoginVerify(w) \/ LoginSign(w)
    \/ RefreshDecode(w) \/ RefreshOwner(w) \/ RefreshClaim(w) \/ RefreshCommit(w)
    \/ AuthToken(w) \/ AuthUser(w)
    \/ LogoutRevokeAccess(w) \/ LogoutDecodeRefresh(w) \/ LogoutRevokeRefresh(w)
    \/ Answer(w)

Next ==
    \/ \E w \in Workers : Begin(w) \/ Proceed(w) \/ StatementFails(w)
    \/ \E u \in Users : Deactivate(u)
    \/ Crash \/ Tick \/ Quiescent

Spec == Init /\ [][Next]_vars

\* Running threads make progress.  A thread that waits for a claim runs again
\* when the claimant's transaction ends: then the token is revoked for good,
\* or one of the finitely many failures has happened.
FairSpec == Spec /\ \A w \in Workers : WF_vars(Proceed(w))

-----------------------------------------------------------------------------
ClockOK == now \in 0..MaxTime

TokensOK ==
    /\ pairs \in [Pairs -> Pair \cup {None}]
    /\ held \subseteq Pairs
    /\ revoked \in [Token -> Revocation \cup {None}]
    /\ active \in [Users -> BOOLEAN]
    /\ loggedOut \subseteq Token

HandlersOK ==
    /\ pc \in [Workers -> Steps]
    /\ req \in [Workers -> Requests \cup {NoRequest}]
    /\ code \in [Workers -> {0, 200, 401, 500}]
    /\ minted \in [Workers -> Pairs \cup {None}]
    /\ doomed \in [Workers -> BOOLEAN]

CountersOK ==
    /\ accepted \in 0..MaxRequests
    /\ crashes \in 0..MaxCrashes
    /\ faults \in 0..MaxFaults

\* Every variable stays within the pairs, rows, steps and codes of the handlers.
TypeOK == ClockOK /\ TokensOK /\ HandlersOK /\ CountersOK

\* "Protect against refresh-token replay races" (auth_app/api.py:169): a pair
\* has at most one successor, and it has one exactly if its refresh token was
\* revoked by the rotation: never after a logout took it.
Children(p) == {q \in Pairs : Minted(q) /\ pairs[q].parent = p}
RotatedOnce ==
    \A p \in Pairs : Minted(p) =>
        /\ \A q1, q2 \in Children(p) : q1 = q2
        /\ Children(p) # {} <=> (IsRevoked(Refresh(p))
                                 /\ revoked[Refresh(p)].reason = "refresh_rotated")

\* At most one refresh token of a session can still be exchanged: all others
\* of the chain that a login started are revoked.
OneLiveRefresh ==
    \A p, q \in Pairs :
        (/\ Minted(p) /\ Minted(q)
         /\ pairs[p].family = pairs[q].family
         /\ ~IsRevoked(Refresh(p)) /\ ~IsRevoked(Refresh(q))) => p = q

\* A logout that answers 200 has revoked its access token and, unless it had
\* expired, the refresh token of the same user it was given, although its two
\* revocations are separate statements and rotations run between them.
LogoutRevokesNamed ==
    \A w \in Workers : (pc[w] = "answer" /\ req[w].op = "logout" /\ code[w] = 200) =>
        \A t \in Named(req[w]) : IsRevoked(t) \/ Expired(t)

\* A request that began after its token was logged out, or after its user was
\* deactivated, is not served: no step of authentication uses older state.
DoomedRefused ==
    \A w \in Workers : (doomed[w] /\ pc[w] = "answer") => code[w] # 200

\* Once the newest refresh token of a session was logged out, the session has
\* no token younger than that: its last access tokens fade with AccessTTL.
ClosedSessionFades ==
    \A p, q \in Pairs :
        (/\ Minted(p) /\ Minted(q) /\ pairs[p].family = pairs[q].family
         /\ IsRevoked(Refresh(p)) /\ revoked[Refresh(p)].reason = "logout")
        => pairs[q].issuedAt <= revoked[Refresh(p)].at

\* After a logout that named it was answered, a refresh token gets no further
\* successor: a rotation that was in progress has ended before the answer.
\* (Unless it has expired: a logout does not revoke an expired token, and a
\* rotation that decoded it before it expired may still be in progress.)
SuccessorsSettled ==
    \A p \in Pairs :
        (Refresh(p) \in loggedOut /\ ~Expired(Refresh(p))) => Children(p)' = Children(p)
NoRotationAfterLogout == [][SuccessorsSettled]_vars

\* The refresh tokens of the table behave like the chains of TokenChain.
StageOf(p) ==
    IF ~Minted(p) THEN "absent"
    ELSE IF ~IsRevoked(Refresh(p)) THEN "live"
    ELSE IF revoked[Refresh(p)].reason = "logout" THEN "closed" ELSE "spent"
Stages == [p \in Pairs |-> StageOf(p)]
Predecessors == [p \in Pairs |-> IF Minted(p) THEN pairs[p].parent ELSE None]
Chain == INSTANCE TokenChain WITH stage <- Stages, predecessor <- Predecessors
ChainSpec == Chain!Spec

\* Every request is answered or lost in a crash: a claim on a token is always
\* given up.
EveryRequestEnds == \A w \in Workers : (pc[w] # "idle") ~> (pc[w] = "idle")
=============================================================================
