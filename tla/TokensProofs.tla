---------------------------- MODULE TokensProofs ----------------------------
(***************************************************************************)
(* Proofs about Tokens for every set of users, threads and pairs and every *)
(* lifetime: typing, the claim protocol of a rotation, single use of       *)
(* refresh tokens, and the refinement of TokenChain; then, resting on the  *)
(* claims and chains, the end of a session: what a logout answered 200 has *)
(* revoked, that neither it nor the deactivation of a user is overtaken by *)
(* requests that began later, and that no rotation outlives it.            *)
(***************************************************************************)
EXTENDS Tokens, TLAPS

\* A worker is at a step of the endpoint its request names, with tokens of
\* the type that the checks passed so far demand.
HandlerShape ==
    \A w \in Workers :
        /\ pc[w] # "idle" => req[w] \in Requests
        /\ pc[w] \in {"login", "sign"} => req[w].op = "login"
        /\ pc[w] \in {"refresh", "owner", "claim", "rotating"} => req[w].op = "refresh"
        /\ pc[w] \in {"owner", "claim", "rotating"} => req[w].token.kind = "refresh"
        /\ pc[w] \in {"auth", "bearer"} => req[w].op \in {"me", "logout"}
        /\ pc[w] \in {"revokeAccess", "decodeRefresh", "revokeRefresh"} => req[w].op = "logout"
        /\ pc[w] \in {"bearer", "revokeAccess"} => req[w].token.kind = "access"
        /\ pc[w] \in {"decodeRefresh", "revokeRefresh"} => req[w].refresh # None

\* Clients and handlers only hold tokens that were signed.
SignedOnly ==
    /\ \A p \in held : Minted(p)
    /\ \A w \in Workers : minted[w] # None => Minted(minted[w])
    /\ \A w \in Workers : (pc[w] # "idle" /\ req[w].op # "login") => Minted(req[w].token.pair)
    /\ \A w \in Workers : (pc[w] # "idle" /\ req[w].op = "logout" /\ req[w].refresh # None)
                          => Minted(req[w].refresh.pair)
    /\ \A t \in Token : IsRevoked(t) => Minted(t.pair)

\* A transaction that has claimed a refresh token is the only one, and the
\* token is not revoked: the unique key on jti at work.
Claims ==
    \A w \in Workers : pc[w] = "rotating" =>
        /\ ~IsRevoked(req[w].token)
        /\ \A v \in Workers :
              (pc[v] = "rotating" /\ req[v].token = req[w].token) => v = w

\* Sessions are chains: a pair belongs to the family of its predecessor, whose
\* refresh token was revoked by the rotation.
Chains ==
    \A q \in Pairs : Minted(q) =>
        /\ Minted(pairs[q].family)
        /\ pairs[q].parent # None =>
              /\ Minted(pairs[q].parent)
              /\ pairs[q].family = pairs[pairs[q].parent].family
              /\ IsRevoked(Refresh(pairs[q].parent))
              /\ revoked[Refresh(pairs[q].parent)].reason = "refresh_rotated"

\* Conversely, a rotated refresh token has exactly one successor.
Successors ==
    /\ \A q1, q2 \in Pairs :
          (Minted(q1) /\ Minted(q2) /\ pairs[q1].parent = pairs[q2].parent
           /\ pairs[q1].parent # None) => q1 = q2
    /\ \A p \in Pairs :
          (IsRevoked(Refresh(p)) /\ revoked[Refresh(p)].reason = "refresh_rotated")
          => \E q \in Pairs : Minted(q) /\ pairs[q].parent = p

TypeInv == TypeOK /\ HandlerShape
ClaimInv == SignedOnly /\ Claims
ChainInv == Chains /\ Successors /\ OneLiveRefresh
Inv == TypeInv /\ ClaimInv /\ ChainInv

-----------------------------------------------------------------------------
\* The fields that the requests of each endpoint have.
LEMMA RequestFields ==
    ASSUME NEW r \in Requests
    PROVE  /\ r.op \in {"login", "refresh", "me", "logout"}
           /\ r.op = "login" => r.user \in Users
           /\ r.op # "login" => r.token \in Token
           /\ r.op = "logout" => r.refresh \in Token \cup {None}
BY DEF Requests

\* Tokens are determined by their type and their pair.
LEMMA TokenFields ==
    /\ \A t \in Token : t.pair \in Pairs /\ t.kind \in {"access", "refresh"}
    /\ \A p \in Pairs : Refresh(p) \in Token /\ Refresh(p).pair = p /\ Refresh(p).kind = "refresh"
    /\ \A t \in Token : t.kind = "refresh" => t = Refresh(t.pair)
    /\ \A p, q \in Pairs : Refresh(p) = Refresh(q) => p = q
BY DEF Token, Refresh

\* The token of a request in progress.
LEMMA RequestToken ==
    ASSUME HandlerShape, NEW w \in Workers, pc[w] # "idle"
    PROVE  /\ req[w] \in Requests
           /\ req[w].op # "login" => req[w].token \in Token /\ req[w].token.pair \in Pairs
           /\ req[w].op = "logout" /\ req[w].refresh # None =>
                 req[w].refresh \in Token /\ req[w].refresh.pair \in Pairs
BY RequestFields, TokenFields DEF HandlerShape

\* A handler that replies stays well typed.
LEMMA ReplyTyped ==
    ASSUME HandlersOK, NEW w \in Workers, NEW c \in {200, 401, 500},
           NEW p \in Pairs \cup {None}, Reply(w, c, p)
    PROVE  HandlersOK'
BY DEF HandlersOK, Reply, Steps

\* A handler that goes on to its next step stays well typed.
LEMMA GotoTyped ==
    ASSUME HandlersOK, NEW w \in Workers, NEW step \in Steps, Goto(w, step)
    PROVE  HandlersOK'
BY DEF HandlersOK, Goto

\* The tables stay well typed when a pair is signed.
LEMMA SignTyped ==
    ASSUME TokensOK, ClockOK, NEW p \in Pairs, NEW u \in Users,
           NEW parent \in Pairs \cup {None}, NEW family \in Pairs, Sign(p, u, parent, family)
    PROVE  /\ pairs' \in [Pairs -> Pair \cup {None}]
           /\ \A q \in Pairs : q # p => pairs'[q] = pairs[q]
           /\ pairs[p] = None /\ pairs'[p] # None
           /\ pairs'[p].parent = parent /\ pairs'[p].family = family
<1>1. now \in Nat
  BY BoundsAreNat DEF ClockOK
<1>2. [user |-> u, parent |-> parent, family |-> family, issuedAt |-> now] \in Pair
  BY <1>1 DEF Pair
<1>3. QED
  BY <1>2, NoneIsNothing DEF Sign, Minted, TokensOK

\* The tables stay well typed when a token gets its row of revoked_tokens.
LEMMA RevokeTyped ==
    ASSUME TokensOK, ClockOK, NEW t \in Token, NEW reason \in {"logout", "refresh_rotated"},
           Revoke(t, reason)
    PROVE  /\ revoked' \in [Token -> Revocation \cup {None}]
           /\ revoked'[t] # None
           /\ revoked[t] = None => revoked'[t].reason = reason
           /\ revoked[t] # None => revoked' = revoked
           /\ \A s \in Token : s # t => revoked'[s] = revoked[s]
<1>1. now \in Nat
  BY BoundsAreNat DEF ClockOK
<1>2. [reason |-> reason, at |-> now] \in Revocation
  BY <1>1 DEF Revocation
<1>3. QED
  BY <1>2, NoneIsNothing DEF Revoke, IsRevoked, TokensOK

\* A signed pair has the fields of Pair.
LEMMA PairFields ==
    ASSUME TokensOK, NEW p \in Pairs, Minted(p)
    PROVE  pairs[p] \in Pair /\ pairs[p].user \in Users /\ pairs[p].family \in Pairs
           /\ pairs[p].parent \in Pairs \cup {None}
BY DEF TokensOK, Minted, Pair

\* Typing is preserved by every step of every handler.
LEMMA TypeStep == Inv /\ [Next]_vars => TypeOK'
<1> SUFFICES ASSUME Inv, [Next]_vars PROVE TypeOK'
  OBVIOUS
<1> USE DEF Inv, TypeInv, TypeOK
<1>a. /\ \A s \in {"sign", "owner", "claim", "rotating", "bearer", "revokeAccess", "decodeRefresh",
                   "revokeRefresh"} : s \in Steps
      /\ None \in Pairs \cup {None}
  BY DEF Steps
<1>1. ASSUME NEW w \in Workers, Begin(w) PROVE TypeOK'
  <2>1. PICK r \in Requests :
           /\ req' = [req EXCEPT ![w] = r]
           /\ pc' = [pc EXCEPT ![w] = FirstStep(r.op)]
           /\ doomed' = [doomed EXCEPT ![w] =
                 (TokensOf(r) \cap loggedOut # {}) \/ ~active[OwnerOf(r)]]
    BY <1>1 DEF Begin
  <2>2. FirstStep(r.op) \in Steps
    BY RequestFields DEF FirstStep, Steps
  <2>3. HandlersOK'
    <3>1. r \in Requests /\ ((TokensOf(r) \cap loggedOut # {}) \/ ~active[OwnerOf(r)]) \in BOOLEAN
      OBVIOUS
    <3>2. doomed' \in [Workers -> BOOLEAN]
      BY <2>1, <3>1 DEF HandlersOK
    <3>3. /\ pc' \in [Workers -> Steps]
          /\ req' \in [Workers -> Requests \cup {NoRequest}]
      BY <2>1, <2>2 DEF HandlersOK
    <3>4. /\ code' \in [Workers -> {0, 200, 401, 500}]
          /\ minted' \in [Workers -> Pairs \cup {None}]
      BY <1>1 DEF Begin, HandlersOK
    <3>5. QED
      BY <3>2, <3>3, <3>4 DEF HandlersOK
  <2>4. CountersOK'
    BY <1>1, BoundsAreNat DEF Begin, CountersOK
  <2>5. QED
    BY <1>1, <2>3, <2>4 DEF Begin, tables, TokensOK, ClockOK
<1>2. ASSUME NEW w \in Workers, LoginSign(w) PROVE TypeOK'
  <2>1. req[w].user \in Users
    BY <1>2, RequestFields DEF LoginSign, HandlerShape
  <2>2. PICK p \in Pairs : Sign(p, req[w].user, None, p) /\ Reply(w, 200, p)
    BY <1>2 DEF LoginSign
  <2>3. HandlersOK'
    BY <2>2, ReplyTyped
  <2>4. pairs' \in [Pairs -> Pair \cup {None}]
    BY <2>1, <2>2, <1>a, SignTyped
  <2>5. QED
    BY <1>2, <2>3, <2>4 DEF LoginSign, tables, counters, TokensOK, ClockOK, CountersOK
<1>3. ASSUME NEW w \in Workers,
             LoginVerify(w) \/ RefreshDecode(w) \/ RefreshOwner(w) \/ RefreshClaim(w)
             \/ AuthToken(w) \/ AuthUser(w) \/ LogoutDecodeRefresh(w)
      PROVE  TypeOK'
  <2>1. HandlersOK'
    BY <1>3, <1>a, ReplyTyped, GotoTyped
       DEF LoginVerify, RefreshDecode, RefreshOwner, RefreshClaim, AuthToken, AuthUser,
           LogoutDecodeRefresh
  <2>2. UNCHANGED <<now, pairs, held, tables, loggedOut, counters>>
    BY <1>3
       DEF LoginVerify, RefreshDecode, RefreshOwner, RefreshClaim, AuthToken, AuthUser,
           LogoutDecodeRefresh
  <2>3. QED
    BY <2>1, <2>2 DEF tables, counters, TokensOK, ClockOK, CountersOK
<1>4. ASSUME NEW w \in Workers, RefreshCommit(w) PROVE TypeOK'
  <2> DEFINE t == req[w].token
  <2>1. t \in Token /\ t.pair \in Pairs /\ Minted(t.pair)
    BY <1>4, RequestToken DEF RefreshCommit, HandlerShape, ClaimInv, SignedOnly
  <2>2. PICK p \in Pairs :
           Sign(p, UserOf(t), t.pair, pairs[t.pair].family) /\ Reply(w, 200, p)
    BY <1>4 DEF RefreshCommit
  <2>3. HandlersOK'
    BY <2>2, ReplyTyped
  <2>4. pairs' \in [Pairs -> Pair \cup {None}]
    BY <2>1, <2>2, PairFields, SignTyped DEF UserOf
  <2>5. revoked' \in [Token -> Revocation \cup {None}]
    BY <1>4, <2>1, RevokeTyped DEF RefreshCommit
  <2>6. QED
    BY <1>4, <2>3, <2>4, <2>5 DEF RefreshCommit, counters, TokensOK, ClockOK, CountersOK
<1>5. ASSUME NEW w \in Workers, LogoutRevokeAccess(w) PROVE TypeOK'
  <2>1. HandlersOK'
    BY <1>5, <1>a, ReplyTyped, GotoTyped DEF LogoutRevokeAccess
  <2>2. revoked' \in [Token -> Revocation \cup {None}]
    BY <1>5, RequestToken, RevokeTyped DEF LogoutRevokeAccess, HandlerShape
  <2>3. QED
    BY <1>5, <2>1, <2>2 DEF LogoutRevokeAccess, counters, TokensOK, ClockOK, CountersOK
<1>6. ASSUME NEW w \in Workers, LogoutRevokeRefresh(w) PROVE TypeOK'
  <2>1. HandlersOK'
    BY <1>6, <1>a, ReplyTyped DEF LogoutRevokeRefresh
  <2>2. revoked' \in [Token -> Revocation \cup {None}]
    BY <1>6, RequestToken, RevokeTyped DEF LogoutRevokeRefresh, HandlerShape
  <2>3. QED
    BY <1>6, <2>1, <2>2 DEF LogoutRevokeRefresh, counters, TokensOK, ClockOK, CountersOK
<1>7. ASSUME NEW w \in Workers, Answer(w) PROVE TypeOK'
  <2>1. HandlersOK'
    BY <1>7 DEF Answer, HandlersOK, Steps
  <2>2. held' \subseteq Pairs
    BY <1>7 DEF Answer, HandlersOK, TokensOK
  <2>3. loggedOut' \subseteq Token
    BY <1>7, RequestToken, RequestFields DEF Answer, TokensOK, Named
  <2>4. QED
    BY <1>7, <2>1, <2>2, <2>3 DEF Answer, tables, counters, TokensOK, ClockOK, CountersOK
<1>8. ASSUME NEW w \in Workers, StatementFails(w) PROVE TypeOK'
  <2>1. HandlersOK'
    BY <1>8, <1>a, ReplyTyped DEF StatementFails
  <2>2. CountersOK'
    BY <1>8, BoundsAreNat DEF StatementFails, CountersOK
  <2>3. QED
    BY <1>8, <2>1, <2>2 DEF StatementFails, tables, TokensOK, ClockOK
<1>9. CASE Crash
  <2>1. HandlersOK'
    BY <1>9 DEF Crash, HandlersOK, Steps
  <2>2. CountersOK'
    BY <1>9, BoundsAreNat DEF Crash, CountersOK
  <2>3. QED
    BY <1>9, <2>1, <2>2 DEF Crash, tables, TokensOK, ClockOK
<1>10. ASSUME NEW u \in Users, Deactivate(u) PROVE TypeOK'
  <2>1. active' \in [Users -> BOOLEAN]
    BY <1>10 DEF Deactivate, TokensOK
  <2>2. QED
    BY <1>10, <2>1 DEF Deactivate, handler, counters, TokensOK, ClockOK, CountersOK, HandlersOK
<1>11. CASE Tick
  BY <1>11, BoundsAreNat
     DEF Tick, tables, handler, counters, TokensOK, ClockOK, CountersOK, HandlersOK
<1>12. CASE UNCHANGED vars
  BY <1>12 DEF vars, TokensOK, ClockOK, CountersOK, HandlersOK
<1>13. QED
  BY <1>1, <1>2, <1>3, <1>4, <1>5, <1>6, <1>7, <1>8, <1>9, <1>10, <1>11, <1>12
     DEF Next, Proceed, Quiescent

-----------------------------------------------------------------------------
\* The steps that touch neither the signed pairs nor the revoked tokens.
Quiet(w) ==
    \/ LoginVerify(w) \/ RefreshDecode(w) \/ RefreshOwner(w) \/ RefreshClaim(w)
    \/ AuthToken(w) \/ AuthUser(w) \/ LogoutDecodeRefresh(w) \/ StatementFails(w)

\* Those steps leave the tables, the clients and the requests alone.
LEMMA QuietStep ==
    ASSUME NEW w \in Workers, Quiet(w)
    PROVE  UNCHANGED <<now, pairs, held, revoked, active, req, loggedOut>>
BY DEF Quiet, LoginVerify, RefreshDecode, RefreshOwner, RefreshClaim, AuthToken, AuthUser,
       LogoutDecodeRefresh, StatementFails, Goto, Reply, tables

\* A handler's step leaves the other workers where they are.
LEMMA OthersStay ==
    ASSUME HandlersOK, NEW w \in Workers, Begin(w) \/ Proceed(w) \/ StatementFails(w),
           NEW v \in Workers, v # w
    PROVE  pc'[v] = pc[v] /\ req'[v] = req[v] /\ minted'[v] = minted[v]
<1> USE DEF HandlersOK
<1>1. (\E s : Goto(w, s)) \/ (\E c, p : Reply(w, c, p)) =>
          pc'[v] = pc[v] /\ req'[v] = req[v] /\ minted'[v] = minted[v]
  BY DEF Goto, Reply
<1>2. CASE Begin(w)
  BY <1>2 DEF Begin
<1>3. CASE Answer(w)
  BY <1>3 DEF Answer
<1>4. CASE LoginSign(w) \/ RefreshCommit(w) \/ LogoutRevokeRefresh(w) \/ StatementFails(w)
  BY <1>1, <1>4 DEF LoginSign, RefreshCommit, LogoutRevokeRefresh, StatementFails
<1>5. CASE LoginVerify(w) \/ RefreshDecode(w) \/ RefreshOwner(w) \/ RefreshClaim(w)
           \/ AuthToken(w) \/ AuthUser(w) \/ LogoutRevokeAccess(w) \/ LogoutDecodeRefresh(w)
  BY <1>1, <1>5 DEF LoginVerify, RefreshDecode, RefreshOwner, RefreshClaim, AuthToken, AuthUser,
                    LogoutRevokeAccess, LogoutDecodeRefresh
<1>6. QED
  BY <1>2, <1>3, <1>4, <1>5 DEF Proceed

\* Every worker stays at a step of the endpoint its request names.
LEMMA ShapeStep == Inv /\ [Next]_vars => HandlerShape'
<1> SUFFICES ASSUME Inv, [Next]_vars PROVE HandlerShape'
  OBVIOUS
<1> USE DEF Inv, TypeInv, TypeOK
<1>1. ASSUME NEW w \in Workers, Begin(w) PROVE HandlerShape'
  <2>1. PICK r \in Requests :
           req' = [req EXCEPT ![w] = r] /\ pc' = [pc EXCEPT ![w] = FirstStep(r.op)]
    BY <1>1 DEF Begin
  <2>2. pc'[w] = FirstStep(r.op) /\ req'[w] = r
    BY <2>1 DEF HandlersOK
  <2>3. QED
    BY <1>1, <2>2, OthersStay, RequestFields DEF FirstStep, HandlerShape
<1>2. ASSUME NEW w \in Workers, LoginSign(w) \/ RefreshCommit(w) \/ LogoutRevokeRefresh(w)
      PROVE HandlerShape'
  BY <1>2 DEF LoginSign, RefreshCommit, LogoutRevokeRefresh, Reply, HandlersOK, HandlerShape
<1>3. ASSUME NEW w \in Workers,
             LoginVerify(w) \/ RefreshDecode(w) \/ RefreshOwner(w) \/ RefreshClaim(w)
      PROVE HandlerShape'
  BY <1>3 DEF LoginVerify, RefreshDecode, RefreshOwner, RefreshClaim, Reply, Goto, HandlersOK,
              HandlerShape
<1>4. ASSUME NEW w \in Workers, AuthToken(w) PROVE HandlerShape'
  BY <1>4 DEF AuthToken, Reply, Goto, HandlersOK, HandlerShape
<1>5. ASSUME NEW w \in Workers, AuthUser(w) PROVE HandlerShape'
  BY <1>5 DEF AuthUser, Reply, Goto, HandlersOK, HandlerShape
<1>6. ASSUME NEW w \in Workers, LogoutRevokeAccess(w) \/ LogoutDecodeRefresh(w)
      PROVE HandlerShape'
  BY <1>6 DEF LogoutRevokeAccess, LogoutDecodeRefresh, Reply, Goto, HandlersOK, HandlerShape
<1>7. ASSUME NEW w \in Workers, StatementFails(w) PROVE HandlerShape'
  BY <1>7 DEF StatementFails, Reply, HandlersOK, HandlerShape
<1>8. ASSUME NEW w \in Workers, Answer(w) PROVE HandlerShape'
  BY <1>8 DEF Answer, HandlersOK, HandlerShape
<1>9. CASE Crash
  BY <1>9 DEF Crash, HandlerShape
<1>10. CASE (\E u \in Users : Deactivate(u)) \/ Tick \/ UNCHANGED vars
  BY <1>10 DEF Deactivate, Tick, vars, handler, HandlerShape
<1>11. QED
  BY <1>1, <1>2, <1>3, <1>4, <1>5, <1>6, <1>7, <1>8, <1>9, <1>10 DEF Next, Proceed, Quiescent

\* What the commit of a rotation does, and to which pairs.
LEMMA CommitFacts ==
    ASSUME Inv, NEW w \in Workers, RefreshCommit(w)
    PROVE  \E p, q \in Pairs :
              /\ req[w].token = Refresh(p) /\ Minted(p) /\ revoked[Refresh(p)] = None
              /\ pairs[q] = None /\ pairs'[q] # None
              /\ pairs'[q].parent = p /\ pairs'[q].family = pairs[p].family
              /\ \A o \in Pairs : o # q => pairs'[o] = pairs[o]
              /\ revoked'[Refresh(p)] # None
              /\ revoked'[Refresh(p)].reason = "refresh_rotated"
              /\ \A s \in Token : s # Refresh(p) => revoked'[s] = revoked[s]
              /\ pc'[w] = "answer" /\ minted'[w] = q
              /\ req' = req /\ held' = held
<1> USE DEF Inv, TypeInv, TypeOK
<1> DEFINE t == req[w].token
<1>1. /\ t \in Token /\ t.pair \in Pairs /\ t = Refresh(t.pair) /\ Minted(t.pair)
      /\ revoked[t] = None
  BY RequestToken, TokenFields
     DEF RefreshCommit, HandlerShape, ClaimInv, SignedOnly, Claims, IsRevoked
<1>2. PICK q \in Pairs :
         Sign(q, UserOf(t), t.pair, pairs[t.pair].family) /\ Reply(w, 200, q)
  BY DEF RefreshCommit
<1>3. /\ pairs[q] = None /\ pairs'[q] # None
      /\ pairs'[q].parent = t.pair /\ pairs'[q].family = pairs[t.pair].family
      /\ \A o \in Pairs : o # q => pairs'[o] = pairs[o]
  BY <1>1, <1>2, PairFields, SignTyped DEF UserOf
<1>4. /\ revoked'[t] # None /\ revoked'[t].reason = "refresh_rotated"
      /\ \A s \in Token : s # t => revoked'[s] = revoked[s]
  BY <1>1, RevokeTyped DEF RefreshCommit
<1>5. pc'[w] = "answer" /\ minted'[w] = q /\ req' = req /\ held' = held
  BY <1>2 DEF RefreshCommit, Reply, HandlersOK
<1>6. QED
  BY <1>1, <1>3, <1>4, <1>5

\* What a login signs.
LEMMA LoginFacts ==
    ASSUME Inv, NEW w \in Workers, LoginSign(w)
    PROVE  /\ UNCHANGED <<held, revoked, req>> /\ pc'[w] = "answer"
           /\ \E q \in Pairs :
                 /\ pairs[q] = None /\ pairs'[q] # None
                 /\ pairs'[q].parent = None /\ pairs'[q].family = q
                 /\ \A o \in Pairs : o # q => pairs'[o] = pairs[o]
                 /\ minted'[w] = q
<1> USE DEF Inv, TypeInv, TypeOK
<1>1. req[w].user \in Users
  BY RequestFields DEF LoginSign, HandlerShape
<1>2. UNCHANGED <<held, revoked, req>> /\ pc'[w] = "answer"
  BY DEF LoginSign, Reply, tables, HandlersOK
<1>3. PICK q \in Pairs : Sign(q, req[w].user, None, q) /\ Reply(w, 200, q)
  BY DEF LoginSign
<1>4. minted'[w] = q
  BY <1>3 DEF Reply, HandlersOK
<1>5. None \in Pairs \cup {None}
  OBVIOUS
<1>6. /\ pairs[q] = None /\ pairs'[q] # None
      /\ pairs'[q].parent = None /\ pairs'[q].family = q
      /\ \A o \in Pairs : o # q => pairs'[o] = pairs[o]
  BY <1>1, <1>3, <1>5, SignTyped
<1>7. QED
  BY <1>2, <1>4, <1>6

\* What a logout revokes is never under a claim.
LEMMA LogoutFacts ==
    ASSUME Inv, NEW w \in Workers, LogoutRevokeAccess(w) \/ LogoutRevokeRefresh(w)
    PROVE  /\ UNCHANGED <<pairs, held, req>>
           /\ pc'[w] \in {"decodeRefresh", "answer"}
           /\ minted'[w] \in {minted[w], None}
           /\ \E t \in Token :
                 /\ Minted(t.pair) /\ ~Claimed(t)
                 /\ revoked'[t] # None
                 /\ revoked[t] = None => revoked'[t].reason = "logout"
                 /\ revoked[t] # None => revoked' = revoked
                 /\ \A s \in Token : s # t => revoked'[s] = revoked[s]
<1> USE DEF Inv, TypeInv, TypeOK
<1>1. CASE LogoutRevokeAccess(w)
  <2>1. /\ req[w].token \in Token /\ Minted(req[w].token.pair) /\ req[w].token.kind = "access"
        /\ Revoke(req[w].token, "logout")
    BY <1>1, RequestToken DEF LogoutRevokeAccess, HandlerShape, ClaimInv, SignedOnly
  <2>2. ~Claimed(req[w].token)
    BY <2>1 DEF Claimed, HandlerShape
  <2>3. UNCHANGED <<pairs, held, req>> /\ pc'[w] \in {"decodeRefresh", "answer"}
        /\ minted'[w] \in {minted[w], None}
    BY <1>1 DEF LogoutRevokeAccess, Reply, Goto, HandlersOK
  <2>4. QED
    BY <2>1, <2>2, <2>3, RevokeTyped
<1>2. CASE LogoutRevokeRefresh(w)
  <2>1. /\ req[w].refresh \in Token /\ Minted(req[w].refresh.pair) /\ ~Claimed(req[w].refresh)
        /\ Revoke(req[w].refresh, "logout")
    BY <1>2, RequestToken DEF LogoutRevokeRefresh, HandlerShape, ClaimInv, SignedOnly
  <2>2. UNCHANGED <<pairs, held, req>> /\ pc'[w] \in {"decodeRefresh", "answer"}
        /\ minted'[w] \in {minted[w], None}
    BY <1>2 DEF LogoutRevokeRefresh, Reply, HandlersOK
  <2>3. QED
    BY <2>1, <2>2, RevokeTyped
<1>3. QED
  BY <1>1, <1>2

\* Clients and handlers go on holding signed tokens only.
LEMMA SignedStep == Inv /\ [Next]_vars => SignedOnly'
<1> SUFFICES ASSUME Inv, [Next]_vars PROVE SignedOnly'
  OBVIOUS
<1> USE DEF Inv, TypeInv, TypeOK, ClaimInv, Minted, IsRevoked
\* A step of one worker is judged by what it does to that worker.
<1>m. ASSUME NEW w \in Workers, Begin(w) \/ Proceed(w) \/ StatementFails(w),
             \A o \in Pairs : pairs[o] # None => pairs'[o] # None,
             \A p \in held' : pairs'[p] # None,
             minted'[w] # None => pairs'[minted'[w]] # None,
             (pc'[w] # "idle" /\ req'[w].op # "login") => pairs'[req'[w].token.pair] # None,
             (pc'[w] # "idle" /\ req'[w].op = "logout" /\ req'[w].refresh # None)
                  => pairs'[req'[w].refresh.pair] # None,
             \A t \in Token : revoked'[t] # None => pairs'[t.pair] # None
      PROVE  SignedOnly'
  <2>1. ASSUME NEW v \in Workers, v # w
        PROVE  /\ minted'[v] # None => pairs'[minted'[v]] # None
               /\ (pc'[v] # "idle" /\ req'[v].op # "login")
                     => pairs'[req'[v].token.pair] # None
               /\ (pc'[v] # "idle" /\ req'[v].op = "logout" /\ req'[v].refresh # None)
                     => pairs'[req'[v].refresh.pair] # None
    <3>1. pc'[v] = pc[v] /\ req'[v] = req[v] /\ minted'[v] = minted[v]
      BY <1>m, <2>1, OthersStay
    <3>2. minted[v] \in Pairs \cup {None}
      BY DEF HandlersOK
    <3>3. minted'[v] # None => pairs'[minted'[v]] # None
      BY <1>m, <3>1, <3>2 DEF SignedOnly
    <3>4. (pc[v] # "idle" /\ req[v].op # "login") => req[v].token.pair \in Pairs
      BY RequestToken
    <3>5. (pc[v] # "idle" /\ req[v].op = "logout" /\ req[v].refresh # None)
             => req[v].refresh.pair \in Pairs
      BY RequestToken
    <3>6. QED
      BY <1>m, <3>1, <3>3, <3>4, <3>5 DEF SignedOnly
  <2>2. QED
    BY <1>m, <2>1 DEF SignedOnly
<1>k. ASSUME NEW w \in Workers, Proceed(w) \/ StatementFails(w), pc[w] # "idle",
             UNCHANGED <<req, held, revoked>>, minted'[w] \in {minted[w], None}
      PROVE  pairs' = pairs => SignedOnly'
  BY <1>k, <1>m DEF SignedOnly
<1>1. ASSUME NEW w \in Workers, Begin(w) PROVE SignedOnly'
  <2>1. PICK r \in Requests :
           /\ \A t \in TokensOf(r) : t.pair \in held
           /\ r.op = "logout" /\ r.refresh # None => r.refresh.pair \in held
           /\ req' = [req EXCEPT ![w] = r]
    BY <1>1 DEF Begin
  <2>2. req'[w] = r /\ minted'[w] = None
    BY <1>1, <2>1 DEF Begin, HandlersOK
  <2>3. UNCHANGED <<pairs, held, revoked>>
    BY <1>1 DEF Begin, tables
  <2>4. r.op # "login" => r.token.pair \in held
    BY <2>1 DEF TokensOf
  <2>5. QED
    BY <1>1, <1>m, <2>1, <2>2, <2>3, <2>4 DEF SignedOnly
<1>2. ASSUME NEW w \in Workers, LoginSign(w) PROVE SignedOnly'
  <2>1. UNCHANGED <<held, revoked, req>> /\ req[w].op = "login"
    BY <1>2, LoginFacts DEF LoginSign, HandlerShape
  <2>2. /\ \A o \in Pairs : pairs[o] # None => pairs'[o] # None
        /\ minted'[w] # None => pairs'[minted'[w]] # None
    BY <1>2, LoginFacts
  <2>3. \A p \in held' : pairs'[p] # None
    BY <2>1, <2>2 DEF SignedOnly, TokensOK
  <2>4. \A t \in Token : revoked'[t] # None => pairs'[t.pair] # None
    BY <2>1, <2>2, TokenFields DEF SignedOnly
  <2>5. QED
    BY <1>2, <1>m, <2>1, <2>2, <2>3, <2>4 DEF Proceed
<1>3. ASSUME NEW w \in Workers, RefreshCommit(w) PROVE SignedOnly'
  <2>1. PICK p, q \in Pairs :
              /\ req[w].token = Refresh(p) /\ pairs[p] # None
              /\ pairs'[q] # None /\ \A o \in Pairs : o # q => pairs'[o] = pairs[o]
              /\ \A s \in Token : s # Refresh(p) => revoked'[s] = revoked[s]
              /\ minted'[w] = q /\ req' = req /\ held' = held
    BY <1>3, CommitFacts
  <2>2. req[w].op = "refresh" /\ req[w].token.pair = p
    BY <1>3, <2>1, TokenFields DEF RefreshCommit, HandlerShape
  <2>3. \A o \in Pairs : pairs[o] # None => pairs'[o] # None
    BY <2>1
  <2>4. \A o \in held' : pairs'[o] # None
    BY <2>1, <2>3 DEF SignedOnly, TokensOK
  <2>5. pairs'[p] # None
    BY <2>1, <2>3
  <2>6. \A t \in Token : revoked'[t] # None => pairs'[t.pair] # None
    BY <2>1, <2>3, <2>5, TokenFields DEF SignedOnly
  <2>7. QED
    BY <1>3, <1>m, <2>1, <2>2, <2>3, <2>4, <2>5, <2>6 DEF Proceed
<1>4. ASSUME NEW w \in Workers, LogoutRevokeAccess(w) \/ LogoutRevokeRefresh(w)
      PROVE SignedOnly'
  <2>1. PICK t \in Token :
           pairs[t.pair] # None /\ \A s \in Token : s # t => revoked'[s] = revoked[s]
    BY <1>4, LogoutFacts
  <2>2. UNCHANGED <<pairs, held, req>> /\ minted'[w] \in {minted[w], None}
    BY <1>4, LogoutFacts
  <2>3. pc[w] # "idle"
    BY <1>4 DEF LogoutRevokeAccess, LogoutRevokeRefresh
  <2>4. \A s \in Token : revoked'[s] # None => pairs'[s.pair] # None
    BY <2>1, <2>2 DEF SignedOnly
  <2>5. minted'[w] # None => pairs'[minted'[w]] # None
    BY <2>2 DEF SignedOnly
  <2>6. QED
    BY <1>4, <1>m, <2>2, <2>3, <2>4, <2>5 DEF Proceed, SignedOnly
<1>5. ASSUME NEW w \in Workers, Quiet(w) PROVE SignedOnly'
  <2>1. minted'[w] \in {minted[w], None} /\ pc[w] # "idle"
    BY <1>5 DEF Quiet, LoginVerify, RefreshDecode, RefreshOwner, RefreshClaim, AuthToken, AuthUser,
       LogoutDecodeRefresh, StatementFails, Goto, Reply, HandlersOK
  <2>2. Proceed(w) \/ StatementFails(w)
    BY <1>5 DEF Quiet, Proceed
  <2>3. UNCHANGED <<pairs, held, revoked, req>>
    BY <1>5, QuietStep
  <2>4. QED
    BY <1>k, <2>1, <2>2, <2>3
<1>6. ASSUME NEW w \in Workers, Answer(w) PROVE SignedOnly'
  <2>1. /\ pc'[w] = "idle" /\ minted'[w] = None /\ UNCHANGED <<pairs, revoked>>
        /\ held' = held \cup ({minted[w]} \ {None})
    BY <1>6 DEF Answer, HandlersOK, tables
  <2>2. \A p \in held' : pairs'[p] # None
    BY <2>1 DEF SignedOnly
  <2>3. \A t \in Token : revoked'[t] # None => pairs'[t.pair] # None
    BY <2>1 DEF SignedOnly
  <2>4. QED
    BY <1>6, <1>m, <2>1, <2>2, <2>3 DEF Proceed
<1>7. CASE Crash
  BY <1>7 DEF Crash, tables, SignedOnly
<1>8. CASE (\E u \in Users : Deactivate(u)) \/ Tick \/ UNCHANGED vars
  BY <1>8 DEF Deactivate, Tick, vars, handler, tables, SignedOnly
<1>9. QED
  BY <1>1, <1>2, <1>3, <1>4, <1>5, <1>6, <1>7, <1>8 DEF Next, Proceed, Quiescent, Quiet

\* The claim of a rotation stays exclusive, and its token unrevoked.
LEMMA ClaimStep == Inv /\ [Next]_vars => Claims'
<1> SUFFICES ASSUME Inv, [Next]_vars PROVE Claims'
  OBVIOUS
<1> USE DEF Inv, TypeInv, TypeOK, ClaimInv
<1>r. \A v \in Workers : pc[v] = "rotating" => req[v].token \in Token
  BY RequestToken DEF HandlerShape
<1>1. ASSUME NEW w \in Workers, Begin(w) \/ Proceed(w) \/ StatementFails(w),
             pc'[w] # "rotating",
             \A v \in Workers \ {w} : pc[v] = "rotating" =>
                revoked'[req[v].token] = revoked[req[v].token]
      PROVE  Claims'
  <2>1. \A v \in Workers : pc'[v] = "rotating" => v # w /\ pc[v] = "rotating" /\ req'[v] = req[v]
    BY <1>1, OthersStay
  <2>2. QED
    BY <1>1, <2>1 DEF Claims, IsRevoked
<1>2. ASSUME NEW w \in Workers, Begin(w) PROVE Claims'
  <2>1. pc'[w] # "rotating" /\ revoked' = revoked
    BY <1>2 DEF Begin, FirstStep, HandlersOK, tables
  <2>2. QED
    BY <1>1, <1>2, <2>1
<1>3. ASSUME NEW w \in Workers, LoginSign(w) PROVE Claims'
  BY <1>1, <1>3, LoginFacts DEF Proceed
<1>4. ASSUME NEW w \in Workers, RefreshClaim(w) PROVE Claims'
  <2>1. CASE pc'[w] = "rotating"
    <3>1. ~Claimed(req[w].token) /\ ~IsRevoked(req[w].token) /\ revoked' = revoked /\ req' = req
      BY <1>4, <2>1 DEF RefreshClaim, Reply, Goto, HandlersOK, tables
    <3>2. \A v \in Workers : v # w => pc'[v] = pc[v]
      BY <1>4, OthersStay DEF Proceed
    <3>3. QED
      BY <3>1, <3>2 DEF Claims, Claimed, IsRevoked
  <2>2. CASE pc'[w] # "rotating"
    BY <1>1, <1>4, <2>2 DEF RefreshClaim, Proceed, tables
  <2>3. QED
    BY <2>1, <2>2
<1>5. ASSUME NEW w \in Workers, RefreshCommit(w) PROVE Claims'
  <2>1. /\ pc'[w] = "answer" /\ pc[w] = "rotating"
        /\ \A s \in Token : s # req[w].token => revoked'[s] = revoked[s]
    BY <1>5, CommitFacts DEF RefreshCommit
  <2>2. \A v \in Workers \ {w} : pc[v] = "rotating" => req[v].token # req[w].token
    BY <2>1 DEF Claims
  <2>3. QED
    BY <1>1, <1>5, <1>r, <2>1, <2>2 DEF Proceed
<1>6. ASSUME NEW w \in Workers, LogoutRevokeAccess(w) \/ LogoutRevokeRefresh(w)
      PROVE Claims'
  <2>1. PICK t \in Token :
           ~Claimed(t) /\ \A s \in Token : s # t => revoked'[s] = revoked[s]
    BY <1>6, LogoutFacts
  <2>2. pc'[w] # "rotating"
    BY <1>6, LogoutFacts
  <2>3. QED
    BY <1>1, <1>6, <1>r, <2>1, <2>2 DEF Proceed, Claimed
<1>7. ASSUME NEW w \in Workers,
             LoginVerify(w) \/ RefreshDecode(w) \/ RefreshOwner(w) \/ AuthToken(w)
             \/ AuthUser(w) \/ LogoutDecodeRefresh(w) \/ StatementFails(w) \/ Answer(w)
      PROVE Claims'
  <2>1. pc'[w] # "rotating" /\ revoked' = revoked
    BY <1>7 DEF LoginVerify, RefreshDecode, RefreshOwner, AuthToken, AuthUser, LogoutDecodeRefresh,
       StatementFails, Answer, Goto, Reply, HandlersOK, tables
  <2>2. QED
    BY <1>1, <1>7, <2>1 DEF Proceed
<1>8. CASE Crash
  BY <1>8 DEF Crash, Claims
<1>9. CASE (\E u \in Users : Deactivate(u)) \/ Tick \/ UNCHANGED vars
  BY <1>9 DEF Deactivate, Tick, vars, handler, tables, Claims, IsRevoked
<1>10. QED
  BY <1>2, <1>3, <1>4, <1>5, <1>6, <1>7, <1>8, <1>9 DEF Next, Proceed, Quiescent

-----------------------------------------------------------------------------
\* The three things that steps do to pairs and to revoked refresh tokens: a
\* login signs q, a rotation of p signs q, a logout revokes t if it is not.
Opens(q) ==
    /\ pairs[q] = None /\ pairs'[q] # None
    /\ pairs'[q].parent = None /\ pairs'[q].family = q
    /\ \A o \in Pairs : o # q => pairs'[o] = pairs[o]
    /\ revoked' = revoked

Exchanges(p, q) ==
    /\ pairs[p] # None /\ revoked[Refresh(p)] = None
    /\ pairs[q] = None /\ pairs'[q] # None
    /\ pairs'[q].parent = p /\ pairs'[q].family = pairs[p].family
    /\ \A o \in Pairs : o # q => pairs'[o] = pairs[o]
    /\ revoked'[Refresh(p)] # None
    /\ revoked'[Refresh(p)].reason = "refresh_rotated"
    /\ \A s \in Token : s # Refresh(p) => revoked'[s] = revoked[s]

LogsOut(t) ==
    /\ pairs' = pairs /\ pairs[t.pair] # None
    /\ revoked[t] = None /\ revoked'[t] # None /\ revoked'[t].reason = "logout"
    /\ \A s \in Token : s # t => revoked'[s] = revoked[s]

\* No step does anything else to them.
LEMMA ChainSteps ==
    ASSUME Inv, [Next]_vars
    PROVE  \/ UNCHANGED <<pairs, revoked>>
           \/ \E q \in Pairs : Opens(q)
           \/ \E p, q \in Pairs : Exchanges(p, q)
           \/ \E t \in Token : LogsOut(t)
<1> DEFINE Goal == \/ UNCHANGED <<pairs, revoked>>
                   \/ \E q \in Pairs : Opens(q)
                   \/ \E p, q \in Pairs : Exchanges(p, q)
                   \/ \E t \in Token : LogsOut(t)
<1>1. ASSUME NEW w \in Workers, LoginSign(w) PROVE Goal
  BY <1>1, LoginFacts DEF Opens
<1>2. ASSUME NEW w \in Workers, RefreshCommit(w) PROVE Goal
  BY <1>2, CommitFacts DEF Exchanges, Minted
<1>3. ASSUME NEW w \in Workers, LogoutRevokeAccess(w) \/ LogoutRevokeRefresh(w) PROVE Goal
  <2>1. pairs' = pairs
    BY <1>3, LogoutFacts
  <2>2. PICK t \in Token :
                 /\ Minted(t.pair)
                 /\ revoked'[t] # None
                 /\ revoked[t] = None => revoked'[t].reason = "logout"
                 /\ revoked[t] # None => revoked' = revoked
                 /\ \A s \in Token : s # t => revoked'[s] = revoked[s]
    BY <1>3, LogoutFacts
  <2>3. QED
    BY <2>1, <2>2 DEF LogsOut, Minted
<1>4. ASSUME NEW w \in Workers, Quiet(w) PROVE Goal
  BY <1>4, QuietStep
<1>5. ASSUME NEW w \in Workers, Begin(w) \/ Answer(w) PROVE Goal
  BY <1>5 DEF Begin, Answer, tables
<1>6. CASE Crash \/ (\E u \in Users : Deactivate(u)) \/ Tick \/ UNCHANGED vars
  BY <1>6 DEF Crash, Deactivate, Tick, vars, tables
<1>7. QED
  BY <1>1, <1>2, <1>3, <1>4, <1>5, <1>6 DEF Next, Proceed, Quiescent, Quiet

\* Sessions remain chains with one live refresh token.
LEMMA ChainStep ==
    ASSUME Inv, [Next]_vars
    PROVE  ChainInv'
<1> USE DEF Minted, IsRevoked
<1>0. /\ Chains /\ Successors /\ OneLiveRefresh /\ None \notin Pairs
      /\ \A o \in Pairs : pairs[o] # None =>
            pairs[o].family \in Pairs /\ pairs[o].parent \in Pairs \cup {None}
  BY NoneIsNothing, PairFields DEF Inv, ChainInv, TypeInv, TypeOK, Pairs
<1>1. CASE UNCHANGED <<pairs, revoked>>
  BY <1>0, <1>1 DEF ChainInv, Chains, Successors, OneLiveRefresh
<1>2. ASSUME NEW q \in Pairs, Opens(q) PROVE ChainInv'
  <2>1. Chains'
    BY <1>0, <1>2 DEF Opens, Chains
  <2>2. Successors'
    BY <1>0, <1>2 DEF Opens, Successors
  <2>3. OneLiveRefresh'
    <3>1. \A o \in Pairs : o # q /\ pairs'[o] # None => pairs'[o].family # q
      BY <1>0, <1>2 DEF Opens, Chains
    <3>2. QED
      BY <1>0, <1>2, <3>1 DEF Opens, OneLiveRefresh
  <2>4. QED
    BY <2>1, <2>2, <2>3 DEF ChainInv
<1>3. ASSUME NEW p \in Pairs, NEW q \in Pairs, Exchanges(p, q) PROVE ChainInv'
  <2>1. \A o \in Pairs : Refresh(o) \in Token /\ (o # p => Refresh(o) # Refresh(p))
    BY TokenFields
  <2>2. \A o \in Pairs : o # p => revoked'[Refresh(o)] = revoked[Refresh(o)]
    BY <1>3, <2>1 DEF Exchanges
  <2>3. p # q
    BY <1>3 DEF Exchanges
  <2>4. Chains'
    <3>1. ASSUME NEW o \in Pairs, pairs'[o] # None, o # q
          PROVE  /\ pairs'[pairs'[o].family] # None
                 /\ pairs'[o].parent # None =>
                       /\ pairs'[pairs'[o].parent] # None
                       /\ pairs'[o].family = pairs'[pairs'[o].parent].family
                       /\ revoked'[Refresh(pairs'[o].parent)] # None
                       /\ revoked'[Refresh(pairs'[o].parent)].reason = "refresh_rotated"
      BY <1>0, <1>3, <2>2, <3>1 DEF Exchanges, Chains
    <3>2. /\ pairs'[pairs'[q].family] # None
          /\ pairs'[pairs'[q].parent] # None
          /\ pairs'[q].family = pairs'[pairs'[q].parent].family
          /\ revoked'[Refresh(pairs'[q].parent)] # None
          /\ revoked'[Refresh(pairs'[q].parent)].reason = "refresh_rotated"
      BY <1>0, <1>3, <2>3 DEF Exchanges, Chains
    <3>3. QED
      BY <3>1, <3>2 DEF Chains
  <2>5. Successors'
    <3>1. \A o \in Pairs : o # q /\ pairs[o] # None => pairs[o].parent # p
      BY <1>0, <1>3 DEF Exchanges, Chains
    <3>2. ASSUME NEW q1 \in Pairs, NEW q2 \in Pairs, pairs'[q1] # None, pairs'[q2] # None,
                 pairs'[q1].parent = pairs'[q2].parent, pairs'[q1].parent # None
          PROVE  q1 = q2
      BY <1>0, <1>3, <3>1, <3>2 DEF Exchanges, Successors
    <3>3. ASSUME NEW o \in Pairs, revoked'[Refresh(o)] # None,
                 revoked'[Refresh(o)].reason = "refresh_rotated"
          PROVE  \E c \in Pairs : pairs'[c] # None /\ pairs'[c].parent = o
      BY <1>0, <1>3, <2>2, <3>3 DEF Exchanges, Successors
    <3>4. QED
      BY <3>2, <3>3 DEF Successors
  <2>6. OneLiveRefresh'
    BY <1>0, <1>3, <2>2, <2>3 DEF Exchanges, OneLiveRefresh
  <2>7. QED
    BY <2>4, <2>5, <2>6 DEF ChainInv
<1>4. ASSUME NEW t \in Token, LogsOut(t) PROVE ChainInv'
  <2>1. /\ \A o \in Pairs : Refresh(o) \in Token
        /\ \A s \in Token : revoked[s] # None => revoked'[s] = revoked[s]
        /\ \A s \in Token : revoked'[s] # None /\ revoked[s] = None
              => revoked'[s].reason = "logout"
    BY <1>4, TokenFields DEF LogsOut
  <2>2. Chains'
    BY <1>0, <1>4, <2>1 DEF LogsOut, Chains
  <2>3. Successors'
    BY <1>0, <1>4, <2>1 DEF LogsOut, Successors
  <2>4. OneLiveRefresh'
    BY <1>0, <1>4, <2>1 DEF LogsOut, OneLiveRefresh
  <2>5. QED
    BY <2>2, <2>3, <2>4 DEF ChainInv
<1>5. QED
  BY <1>1, <1>2, <1>3, <1>4, ChainSteps

-----------------------------------------------------------------------------
\* With empty tables and idle threads, nothing is claimed, signed or revoked.
LEMMA InitInv == Init => Inv
<1> SUFFICES ASSUME Init PROVE Inv
  OBVIOUS
<1>1. TypeOK
  BY BoundsAreNat
     DEF Init, TypeOK, ClockOK, TokensOK, HandlersOK, CountersOK, Steps
<1>2. HandlerShape /\ Claims
  BY DEF Init, HandlerShape, Claims
<1>3. SignedOnly /\ Chains /\ Successors /\ OneLiveRefresh
  BY TokenFields DEF Init, SignedOnly, Chains, Successors, OneLiveRefresh, Minted, IsRevoked
<1>4. QED
  BY <1>1, <1>2, <1>3 DEF Inv, TypeInv, ClaimInv, ChainInv

\* The inductive invariant: typing, the shape of requests, the exclusive claim
\* on a token and the chains of pairs, each of which needs the others.
THEOREM ClaimInvariant == Spec => []Inv
<1>1. Inv /\ [Next]_vars => Inv'
  BY TypeStep, ShapeStep, SignedStep, ClaimStep, ChainStep DEF Inv, TypeInv, ClaimInv
<1>2. QED
  BY InitInv, <1>1, PTL DEF Spec

\* The handlers of login, refresh, me and logout keep their tables and their
\* variables well typed, whatever fails or interleaves.
THEOREM TypeCorrect == Spec => []TypeOK
<1>1. Inv => TypeOK
  BY DEF Inv, TypeInv
<1>2. QED
  BY ClaimInvariant, <1>1, PTL

\* However many threads exchange the tokens of a session (auth_app/api.py:169),
\* at most one of its refresh tokens can still be exchanged.
THEOREM SingleLiveToken == Spec => []OneLiveRefresh
<1>1. Inv => OneLiveRefresh
  BY DEF Inv, ChainInv
<1>2. QED
  BY ClaimInvariant, <1>1, PTL

\* A refresh token is exchanged at most once, and its row says "refresh_rotated"
\* exactly if it was: claim, signature and revocation are one transaction.
THEOREM RotationIsExclusive == Spec => []RotatedOnce
<1>1. ASSUME Inv PROVE RotatedOnce
  <2>1. Chains /\ Successors /\ None \notin Pairs
    BY <1>1, NoneIsNothing DEF Inv, ChainInv, Pairs
  <2>2. QED
    BY <2>1 DEF RotatedOnce, Children, Chains, Successors
<1>2. QED
  BY ClaimInvariant, <1>1, PTL

\* Every step of the handlers is the opening, the exchange or the closing of a
\* token, or changes no chain.
LEMMA ImplementStep ==
    ASSUME Inv, [Next]_vars
    PROVE  [Chain!Next]_<<Stages, Predecessors>>
<1> USE DEF Minted, IsRevoked
<1>0. /\ \A p \in Pairs : Refresh(p) \in Token /\ Refresh(p).pair = p
      /\ \A p, q \in Pairs : Refresh(p) = Refresh(q) => p = q
      /\ \A t \in Token : t.pair \in Pairs /\ (t.kind = "refresh" => t = Refresh(t.pair))
  BY TokenFields
<1>1. CASE UNCHANGED <<pairs, revoked>>
  BY <1>1 DEF Stages, Predecessors, StageOf
<1>2. ASSUME NEW q \in Pairs, Opens(q) PROVE [Chain!Next]_<<Stages, Predecessors>>
  <2>1. /\ \A o \in Pairs : o # q => StageOf(o)' = StageOf(o)
        /\ StageOf(q) = "absent"
    BY <1>2 DEF Opens, StageOf
  <2>2. revoked[Refresh(q)] = None
    BY <1>0, <1>2 DEF Opens, Inv, ClaimInv, SignedOnly
  <2>3. StageOf(q)' = "live"
    BY <1>2, <2>2 DEF Opens, StageOf
  <2>4. Stages' = [Stages EXCEPT ![q] = "live"]
    BY <2>1, <2>3 DEF Stages
  <2>5. Predecessors' = Predecessors
    BY <1>2 DEF Opens, Predecessors
  <2>6. Chain!Open(q)
    BY <2>1, <2>4, <2>5 DEF Chain!Open, Stages
  <2>7. QED
    BY <2>6 DEF Chain!Next
<1>3. ASSUME NEW p \in Pairs, NEW q \in Pairs, Exchanges(p, q)
      PROVE  [Chain!Next]_<<Stages, Predecessors>>
  <2>1. /\ StageOf(p) = "live" /\ StageOf(q) = "absent" /\ p # q
        /\ Refresh(q) # Refresh(p)
    BY <1>0, <1>3 DEF Exchanges, StageOf
  <2>2. revoked[Refresh(q)] = None
    BY <1>0, <1>3 DEF Exchanges, Inv, ClaimInv, SignedOnly
  <2>3. StageOf(p)' = "spent"
    BY <1>3, <2>1 DEF Exchanges, StageOf
  <2>4. StageOf(q)' = "live"
    BY <1>0, <1>3, <2>1, <2>2 DEF Exchanges, StageOf
  <2>5. ASSUME NEW o \in Pairs, o # p, o # q PROVE StageOf(o)' = StageOf(o)
    BY <1>0, <1>3, <2>5 DEF Exchanges, StageOf
  <2>6. Stages' = [Stages EXCEPT ![p] = "spent", ![q] = "live"]
    BY <2>1, <2>3, <2>4, <2>5 DEF Stages
  <2>7. Predecessors' = [Predecessors EXCEPT ![q] = p]
    BY <1>3 DEF Exchanges, Predecessors
  <2>8. Chain!Exchange(p, q)
    BY <2>1, <2>6, <2>7 DEF Chain!Exchange, Stages
  <2>9. QED
    BY <2>8 DEF Chain!Next
<1>4. ASSUME NEW t \in Token, LogsOut(t) PROVE [Chain!Next]_<<Stages, Predecessors>>
  <2>1. Predecessors' = Predecessors
    BY <1>4 DEF LogsOut, Predecessors
  <2>2. \A o \in Pairs : Refresh(o) # t => StageOf(o)' = StageOf(o)
    BY <1>0, <1>4 DEF LogsOut, StageOf
  <2>3. CASE t.kind = "refresh"
    <3> DEFINE p == t.pair
    <3>1. p \in Pairs /\ t = Refresh(p)
      BY <1>0, <2>3
    <3>2. StageOf(p) = "live" /\ StageOf(p)' = "closed"
      BY <1>4, <3>1 DEF LogsOut, StageOf
    <3>3. \A o \in Pairs : o # p => StageOf(o)' = StageOf(o)
      BY <1>0, <2>2, <3>1
    <3>4. Stages' = [Stages EXCEPT ![p] = "closed"]
      BY <3>1, <3>2, <3>3 DEF Stages
    <3>5. Chain!Close(p)
      BY <2>1, <3>1, <3>2, <3>4 DEF Chain!Close, Stages
    <3>6. QED
      BY <3>1, <3>5 DEF Chain!Next
  <2>4. CASE t.kind # "refresh"
    <3>1. \A o \in Pairs : Refresh(o) # t
      BY <2>4 DEF Refresh
    <3>2. QED
      BY <2>1, <2>2, <3>1 DEF Stages
  <2>5. QED
    BY <2>3, <2>4
<1>5. QED
  BY <1>1, <1>2, <1>3, <1>4, ChainSteps

\* The tables implement TokenChain: for every number of threads, users and
\* pairs, the endpoints exchange a refresh token at most once, atomically with
\* its revocation, and never after a logout closed it.
THEOREM ImplementsChain == Spec => ChainSpec
<1>1. Init => Chain!Init
  BY DEF Init, Chain!Init, Stages, Predecessors, StageOf, Minted
<1>2. Inv /\ [Next]_vars => [Chain!Next]_<<Stages, Predecessors>>
  BY ImplementStep
<1>3. QED
  BY ClaimInvariant, <1>1, <1>2, PTL DEF Spec, ChainSpec, Chain!Spec

-----------------------------------------------------------------------------
\* A token that decode_token refuses, now and for ever.
Dead(t) == IsRevoked(t) \/ Expired(t)

\* A request that authentication has to refuse.
Gone(r) == (r.op # "login" /\ Dead(r.token)) \/ ~active[OwnerOf(r)]

LoggedOutDead == \A t \in loggedOut : Minted(t.pair) /\ Dead(t)

\* A request that was to be refused when it began does not get past the check
\* that refuses it.
Stopped(w) ==
    doomed[w] =>
        /\ pc[w] # "idle" => Gone(req[w])
        /\ pc[w] \in {"owner", "bearer"} => ~active[OwnerOf(req[w])]
        /\ pc[w] \in {"idle", "login", "refresh", "auth", "owner", "bearer", "answer"}
        /\ pc[w] = "answer" => code[w] # 200

\* A logout past its first revocation has made it; past its second, both.
Ends(w) ==
    /\ pc[w] \in {"decodeRefresh", "revokeRefresh"} => IsRevoked(req[w].token)
    /\ (pc[w] = "answer" /\ req[w].op = "logout" /\ code[w] = 200) =>
           \A t \in Named(req[w]) : Dead(t)

LogoutInv == LoggedOutDead /\ \A w \in Workers : Stopped(w) /\ Ends(w)

\* Times do not lie in the future, and a session in which a logout took the
\* last refresh token has none left to rotate.
Past == \A p \in Pairs : Minted(p) => pairs[p].issuedAt <= now
ClosedForGood ==
    \A p, q \in Pairs :
        (/\ Minted(p) /\ Minted(q) /\ pairs[p].family = pairs[q].family
         /\ IsRevoked(Refresh(p)) /\ revoked[Refresh(p)].reason = "logout")
        => IsRevoked(Refresh(q))

FadeInv == Past /\ ClosedForGood /\ ClosedSessionFades

-----------------------------------------------------------------------------
\* The clock, the rows of revoked_tokens, the signed pairs and deactivations
\* only go forward.
LEMMA Monotone ==
    ASSUME Inv, [Next]_vars
    PROVE  /\ \A p \in Pairs : Minted(p) => pairs'[p] = pairs[p]
           /\ \A t \in Token : IsRevoked(t) => revoked'[t] = revoked[t]
           /\ now \in Nat /\ now' \in Nat /\ now <= now'
           /\ \A u \in Users : ~active[u] => ~active'[u]
<1>1. /\ \A p \in Pairs : Minted(p) => pairs'[p] = pairs[p]
      /\ \A t \in Token : IsRevoked(t) => revoked'[t] = revoked[t]
  BY ChainSteps DEF Opens, Exchanges, LogsOut, Minted, IsRevoked
<1>2. now \in Nat /\ active \in [Users -> BOOLEAN]
  BY BoundsAreNat DEF Inv, TypeInv, TypeOK, ClockOK, TokensOK
<1>3. ASSUME NEW w \in Workers, Begin(w) \/ Proceed(w) \/ StatementFails(w)
      PROVE  UNCHANGED <<now, active>>
  <2>1. CASE Begin(w) \/ Answer(w) \/ StatementFails(w) \/ LoginVerify(w) \/ LoginSign(w)
    BY <2>1 DEF Begin, Answer, StatementFails, LoginVerify, LoginSign, tables
  <2>2. CASE RefreshDecode(w) \/ RefreshOwner(w) \/ RefreshClaim(w) \/ RefreshCommit(w)
    BY <2>2 DEF RefreshDecode, RefreshOwner, RefreshClaim, RefreshCommit, tables
  <2>3. CASE AuthToken(w) \/ AuthUser(w)
    BY <2>3 DEF AuthToken, AuthUser, tables
  <2>4. CASE LogoutRevokeAccess(w) \/ LogoutDecodeRefresh(w) \/ LogoutRevokeRefresh(w)
    BY <2>4 DEF LogoutRevokeAccess, LogoutDecodeRefresh, LogoutRevokeRefresh, tables
  <2>5. QED
    BY <1>3, <2>1, <2>2, <2>3, <2>4 DEF Proceed
<1>4. CASE Crash \/ UNCHANGED vars
  BY <1>1, <1>2, <1>4 DEF Crash, vars, tables
<1>5. CASE Tick
  BY <1>1, <1>2, <1>5 DEF Tick, tables
<1>6. ASSUME NEW u \in Users, Deactivate(u)
      PROVE  now' = now /\ \A v \in Users : ~active[v] => ~active'[v]
  BY <1>2, <1>6 DEF Deactivate
<1>7. QED
  BY <1>1, <1>2, <1>3, <1>4, <1>5, <1>6 DEF Next, Quiescent

\* What is refused stays refused; the owner of a signed token is fixed.
LEMMA DeadStays ==
    ASSUME Inv, [Next]_vars, NEW t \in Token, Minted(t.pair)
    PROVE  /\ UserOf(t)' = UserOf(t) /\ UserOf(t) \in Users
           /\ Dead(t) => Dead(t)'
<1>1. t.pair \in Pairs /\ pairs'[t.pair] = pairs[t.pair] /\ pairs[t.pair].issuedAt \in Nat
      /\ pairs[t.pair].user \in Users
  BY Monotone, TokenFields, PairFields DEF Inv, TypeInv, TypeOK, Pair
<1>2. Expiry(t)' = Expiry(t) /\ Expiry(t) \in Nat
  BY <1>1, TTLs DEF Expiry
<1>3. Expired(t) => Expired(t)'
  BY <1>2, Monotone DEF Expired
<1>4. IsRevoked(t) => IsRevoked(t)'
  BY Monotone DEF IsRevoked
<1>5. QED
  BY <1>1, <1>3, <1>4 DEF Dead, UserOf

LEMMA GoneStays ==
    ASSUME Inv, [Next]_vars, NEW w \in Workers, pc[w] # "idle", req'[w] = req[w]
    PROVE  /\ Gone(req[w]) => Gone(req[w])'
           /\ ~active[OwnerOf(req[w])] => ~active'[OwnerOf(req[w])']
<1>1. req[w] \in Requests /\ (req[w].op # "login" => req[w].token \in Token /\ Minted(req[w].token.pair))
  BY RequestToken DEF Inv, TypeInv, ClaimInv, SignedOnly
<1>2. OwnerOf(req[w])' = OwnerOf(req[w]) /\ OwnerOf(req[w]) \in Users
  BY <1>1, DeadStays, RequestFields DEF OwnerOf
<1>3. ~active[OwnerOf(req[w])] => ~active'[OwnerOf(req[w])']
  BY <1>2, Monotone
<1>4. ASSUME req[w].op # "login", Dead(req[w].token) PROVE Dead(req[w].token)'
  <2>1. PICK t \in Token : t = req[w].token /\ t = req'[w].token /\ Minted(t.pair)
    BY <1>1, <1>4
  <2>2. Dead(t)'
    BY <1>4, <2>1, DeadStays
  <2>3. QED
    BY <2>1, <2>2 DEF Dead, IsRevoked, Expired, Expiry
<1>5. QED
  BY <1>3, <1>4 DEF Gone

\* A thread that does not move is stopped, and ends a session, as before.
LEMMA OthersKeep ==
    ASSUME HandlersOK, NEW w \in Workers, Begin(w) \/ Proceed(w) \/ StatementFails(w),
           NEW v \in Workers, v # w
    PROVE  pc'[v] = pc[v] /\ req'[v] = req[v] /\ code'[v] = code[v] /\ doomed'[v] = doomed[v]
<1> USE DEF HandlersOK
<1>1. (\E s : Goto(w, s)) \/ (\E c, p : Reply(w, c, p)) =>
          pc'[v] = pc[v] /\ req'[v] = req[v] /\ code'[v] = code[v] /\ doomed'[v] = doomed[v]
  BY DEF Goto, Reply
<1>2. CASE Begin(w)
  BY <1>2 DEF Begin
<1>3. CASE Answer(w)
  BY <1>3 DEF Answer
<1>4. CASE LoginSign(w) \/ RefreshCommit(w) \/ LogoutRevokeRefresh(w) \/ StatementFails(w)
  BY <1>1, <1>4 DEF LoginSign, RefreshCommit, LogoutRevokeRefresh, StatementFails
<1>5. CASE LoginVerify(w) \/ RefreshDecode(w) \/ RefreshOwner(w) \/ RefreshClaim(w)
           \/ AuthToken(w) \/ AuthUser(w) \/ LogoutRevokeAccess(w) \/ LogoutDecodeRefresh(w)
  BY <1>1, <1>5 DEF LoginVerify, RefreshDecode, RefreshOwner, RefreshClaim, AuthToken, AuthUser,
                    LogoutRevokeAccess, LogoutDecodeRefresh
<1>6. QED
  BY <1>2, <1>3, <1>4, <1>5 DEF Proceed

LEMMA StoppedStays ==
    ASSUME Inv, [Next]_vars, NEW v \in Workers, Stopped(v),
           pc'[v] = pc[v], req'[v] = req[v], code'[v] = code[v], doomed'[v] = doomed[v]
    PROVE  Stopped(v)'
BY GoneStays DEF Stopped

\* The tokens that a logout in progress names are signed tokens.
LEMMA NamedTokens ==
    ASSUME Inv, NEW w \in Workers, pc[w] # "idle", req[w].op = "logout"
    PROVE  \A t \in Named(req[w]) : t \in Token /\ Minted(t.pair)
BY RequestToken DEF Inv, TypeInv, ClaimInv, SignedOnly, Named

LEMMA EndsStays ==
    ASSUME Inv, [Next]_vars, NEW v \in Workers, Ends(v),
           pc'[v] = pc[v], req'[v] = req[v], code'[v] = code[v]
    PROVE  Ends(v)'
<1>1. ASSUME pc[v] \in {"decodeRefresh", "revokeRefresh"}
      PROVE  IsRevoked(req[v].token)'
  <2>1. req[v].token \in Token /\ IsRevoked(req[v].token)
    BY <1>1, RequestToken DEF Inv, TypeInv, HandlerShape, Ends
  <2>2. revoked'[req[v].token] = revoked[req[v].token]
    BY <2>1, Monotone
  <2>3. QED
    BY <2>1, <2>2 DEF IsRevoked
<1>2. ASSUME pc[v] = "answer", req[v].op = "logout", code[v] = 200,
             NEW t \in Named(req[v])'
      PROVE  Dead(t)'
  <2>1. \A s \in Named(req[v]) : s \in Token /\ Minted(s.pair)
    BY <1>2, NamedTokens
  <2>2. req[v].token \in Token /\ Minted(req[v].token.pair)
        /\ (req[v].refresh # None => req[v].refresh \in Token /\ Minted(req[v].refresh.pair))
    BY <1>2, RequestToken DEF Inv, TypeInv, ClaimInv, SignedOnly
  <2>3. pairs'[req[v].token.pair] = pairs[req[v].token.pair]
        /\ (req[v].refresh # None => pairs'[req[v].refresh.pair] = pairs[req[v].refresh.pair])
    BY <2>2, Monotone, TokenFields
  <2>4. t \in Named(req[v])
    BY <1>2, <2>3 DEF Named, UserOf
  <2>5. QED
    BY <1>2, <2>1, <2>4, DeadStays DEF Ends
<1>3. QED
  BY <1>1, <1>2 DEF Ends

-----------------------------------------------------------------------------
\* A request that has to be refused is stopped by the first check that reads
\* what refuses it, whatever happened since it began.
LEMMA StopStep ==
    ASSUME Inv, LogoutInv, [Next]_vars
    PROVE  \A w \in Workers : Stopped(w)'
<1> USE DEF Inv, TypeInv, TypeOK, HandlersOK
<1>0. \A v \in Workers : Stopped(v)
  BY DEF LogoutInv
<1>m. ASSUME NEW w \in Workers, Begin(w) \/ Proceed(w) \/ StatementFails(w), Stopped(w)'
      PROVE  \A v \in Workers : Stopped(v)'
  BY <1>0, <1>m, OthersKeep, StoppedStays
\* The request of the thread that moves is the same, and so is what refuses it.
<1>g. ASSUME NEW w \in Workers, pc[w] # "idle", req' = req, doomed' = doomed,
             doomed[w] => /\ pc'[w] \in {"owner", "bearer"} => ~active[OwnerOf(req[w])]
                          /\ pc'[w] \in {"idle", "login", "refresh", "auth", "owner", "bearer", "answer"}
                          /\ pc'[w] = "answer" => code'[w] # 200
      PROVE  Stopped(w)'
  BY <1>0, <1>g, GoneStays DEF Stopped
<1>1. ASSUME NEW w \in Workers, Begin(w) PROVE Stopped(w)'
  <2>1. PICK r \in Requests :
            /\ req'[w] = r /\ pc'[w] = FirstStep(r.op)
            /\ doomed'[w] = ((TokensOf(r) \cap loggedOut # {}) \/ ~active[OwnerOf(r)])
    BY <1>1 DEF Begin
  <2>2. UNCHANGED <<now, pairs, revoked, active>>
    BY <1>1 DEF Begin, tables
  <2>3. pc'[w] \in {"login", "refresh", "auth"}
    BY <2>1, RequestFields DEF FirstStep
  <2>4. doomed'[w] => (r.op # "login" /\ Dead(r.token)) \/ ~active[OwnerOf(r)]
    <3>1. doomed'[w] => (TokensOf(r) \cap loggedOut # {}) \/ ~active[OwnerOf(r)]
      BY <2>1, Zenon
    <3>2. TokensOf(r) \cap loggedOut # {} => r.op # "login" /\ r.token \in loggedOut
      BY DEF TokensOf
    <3>3. QED
      BY <3>1, <3>2 DEF LogoutInv, LoggedOutDead
  <2>5. doomed'[w] => Gone(req[w])'
    BY <2>1, <2>2, <2>4 DEF Gone, Dead, IsRevoked, Expired, Expiry, OwnerOf, UserOf
  <2>6. QED
    BY <2>3, <2>5 DEF Stopped
<1>2. ASSUME NEW w \in Workers, LoginVerify(w) PROVE Stopped(w)'
  <2>1. req[w].op = "login" /\ pc[w] = "login"
    BY <1>2 DEF LoginVerify, HandlerShape
  <2>2. doomed[w] => ~active[req[w].user]
    BY <1>0, <2>1 DEF Stopped, Gone, OwnerOf
  <2>3. req' = req /\ doomed' = doomed /\ (doomed[w] => pc'[w] = "answer" /\ code'[w] = 401)
    BY <1>2, <2>2 DEF LoginVerify, Reply, Goto
  <2>4. QED
    BY <1>g, <2>1, <2>3
<1>3. ASSUME NEW w \in Workers, RefreshDecode(w) \/ AuthToken(w) PROVE Stopped(w)'
  <2>1. req[w].op # "login" /\ pc[w] \in {"refresh", "auth"}
    BY <1>3 DEF RefreshDecode, AuthToken, HandlerShape
  <2>2. (doomed[w] /\ Decodes(req[w].token)) => ~active[OwnerOf(req[w])]
    BY <1>0, <2>1 DEF Stopped, Gone, Dead, Decodes
  <2>3. /\ req' = req /\ doomed' = doomed
        /\ \/ pc'[w] = "answer" /\ code'[w] = 401
           \/ pc'[w] \in {"owner", "bearer"} /\ Decodes(req[w].token)
    BY <1>3 DEF RefreshDecode, AuthToken, Reply, Goto
  <2>4. QED
    BY <1>g, <2>1, <2>2, <2>3
<1>4. ASSUME NEW w \in Workers, RefreshOwner(w) \/ AuthUser(w) PROVE Stopped(w)'
  <2>1. req[w].op # "login" /\ pc[w] \in {"owner", "bearer"}
    BY <1>4 DEF RefreshOwner, AuthUser, HandlerShape
  <2>2. doomed[w] => ~active[UserOf(req[w].token)]
    BY <1>0, <2>1 DEF Stopped, OwnerOf
  <2>3. req' = req /\ doomed' = doomed /\ (doomed[w] => pc'[w] = "answer" /\ code'[w] = 401)
    BY <1>4, <2>2 DEF RefreshOwner, AuthUser, Reply, Goto
  <2>4. QED
    BY <1>g, <2>1, <2>3
<1>5. ASSUME NEW w \in Workers,
             LoginSign(w) \/ RefreshClaim(w) \/ RefreshCommit(w) \/ LogoutRevokeAccess(w)
             \/ LogoutDecodeRefresh(w) \/ LogoutRevokeRefresh(w)
      PROVE  Stopped(w)'
  <2>1. ~doomed[w] /\ pc[w] # "idle"
    BY <1>0, <1>5 DEF Stopped, LoginSign, RefreshClaim, RefreshCommit, LogoutRevokeAccess,
                      LogoutDecodeRefresh, LogoutRevokeRefresh
  <2>2. req' = req /\ doomed' = doomed
    BY <1>5 DEF LoginSign, RefreshClaim, RefreshCommit, LogoutRevokeAccess,
                LogoutDecodeRefresh, LogoutRevokeRefresh, Reply, Goto
  <2>3. QED
    BY <1>g, <2>1, <2>2
<1>6. ASSUME NEW w \in Workers, Answer(w) PROVE Stopped(w)'
  BY <1>6 DEF Answer, Stopped
<1>7. ASSUME NEW w \in Workers, StatementFails(w) PROVE Stopped(w)'
  <2>1. req' = req /\ doomed' = doomed /\ pc[w] # "idle" /\ pc'[w] = "answer" /\ code'[w] = 500
    BY <1>7 DEF StatementFails, Reply
  <2>2. QED
    BY <1>g, <2>1
<1>8. CASE Crash
  BY <1>8 DEF Crash, Stopped
<1>9. CASE (\E u \in Users : Deactivate(u)) \/ Tick \/ UNCHANGED vars
  <2>1. UNCHANGED <<pc, req, code, doomed>>
    BY <1>9 DEF Deactivate, Tick, vars, handler
  <2>2. QED
    BY <1>0, <2>1, StoppedStays
<1>10. QED
  BY <1>m, <1>1, <1>2, <1>3, <1>4, <1>5, <1>6, <1>7, <1>8, <1>9 DEF Next, Proceed, Quiescent

\* A logout that is about to be answered 200 has revoked what it named.
LEMMA EndStep ==
    ASSUME Inv, LogoutInv, [Next]_vars
    PROVE  \A w \in Workers : Ends(w)'
<1> USE DEF Inv, TypeInv, TypeOK, HandlersOK
<1>0. \A v \in Workers : Ends(v)
  BY DEF LogoutInv
<1>m. ASSUME NEW w \in Workers, Begin(w) \/ Proceed(w) \/ StatementFails(w), Ends(w)'
      PROVE  \A v \in Workers : Ends(v)'
  BY <1>0, <1>m, OthersKeep, EndsStays
<1>1. ASSUME NEW w \in Workers, Begin(w) PROVE Ends(w)'
  <2>1. pc'[w] \in {"login", "refresh", "auth"}
    BY <1>1, RequestFields DEF Begin, FirstStep
  <2>2. QED
    BY <2>1 DEF Ends
<1>2. ASSUME NEW w \in Workers,
             \/ LoginVerify(w) \/ LoginSign(w) \/ RefreshDecode(w) \/ RefreshOwner(w)
             \/ RefreshClaim(w) \/ RefreshCommit(w) \/ AuthToken(w) \/ AuthUser(w)
             \/ StatementFails(w)
      PROVE  Ends(w)'
  <2>1. /\ pc'[w] \notin {"decodeRefresh", "revokeRefresh"}
        /\ pc'[w] = "answer" => req'[w].op # "logout" \/ code'[w] # 200
    BY <1>2 DEF LoginVerify, LoginSign, RefreshDecode, RefreshOwner, RefreshClaim, RefreshCommit, AuthToken,
                AuthUser, StatementFails, Reply, Goto, HandlerShape
  <2>2. QED
    BY <2>1 DEF Ends
<1>3. ASSUME NEW w \in Workers, LogoutRevokeAccess(w) PROVE Ends(w)'
  <2>1. /\ req' = req /\ Revoke(req[w].token, "logout") /\ pairs' = pairs
        /\ req[w].token \in Token
        /\ \/ pc'[w] = "decodeRefresh"
           \/ pc'[w] = "answer" /\ req[w].refresh = None
    BY <1>3, RequestToken DEF LogoutRevokeAccess, Reply, Goto, HandlerShape
  <2>2. revoked'[req[w].token] # None
    BY <2>1, RevokeTyped
  <2>3. QED
    BY <2>1, <2>2 DEF Ends, Named, Dead, IsRevoked
<1>4. ASSUME NEW w \in Workers, LogoutDecodeRefresh(w) PROVE Ends(w)'
  <2>1. /\ UNCHANGED <<req, pairs, revoked, now>> /\ IsRevoked(req[w].token)
        /\ \/ pc'[w] = "revokeRefresh"
           \/ /\ pc'[w] = "answer"
              /\ ~(/\ Decodes(req[w].refresh) /\ req[w].refresh.kind = "refresh"
                   /\ UserOf(req[w].refresh) = UserOf(req[w].token))
    BY <1>0, <1>4 DEF LogoutDecodeRefresh, Reply, Goto, Ends, tables
  <2>2. CASE pc'[w] = "revokeRefresh"
    BY <2>1, <2>2 DEF Ends, IsRevoked
  <2>3. CASE pc'[w] = "answer"
    <3>1. \A t \in Named(req[w]) : Dead(t)
      BY <2>1, <2>3 DEF Named, Dead, Decodes
    <3>2. QED
      BY <2>1, <2>3, <3>1 DEF Ends, Named, UserOf, Dead, IsRevoked, Expired, Expiry
  <2>4. QED
    BY <2>1, <2>2, <2>3
<1>5. ASSUME NEW w \in Workers, LogoutRevokeRefresh(w) PROVE Ends(w)'
  <2>1. /\ req' = req /\ Revoke(req[w].refresh, "logout") /\ pc'[w] = "answer"
        /\ req[w].refresh \in Token /\ req[w].token \in Token /\ IsRevoked(req[w].token)
    BY <1>0, <1>5, RequestToken DEF LogoutRevokeRefresh, Reply, HandlerShape, Ends
  <2>2. revoked'[req[w].refresh] # None
    BY <2>1, RevokeTyped
  <2>3. revoked'[req[w].token] # None
    BY <2>1, Monotone DEF IsRevoked
  <2>4. QED
    BY <2>1, <2>2, <2>3 DEF Ends, Named, Dead, IsRevoked
<1>6. ASSUME NEW w \in Workers, Answer(w) PROVE Ends(w)'
  BY <1>6 DEF Answer, Ends
<1>7. CASE Crash
  BY <1>7 DEF Crash, Ends
<1>8. CASE (\E u \in Users : Deactivate(u)) \/ Tick \/ UNCHANGED vars
  <2>1. UNCHANGED <<pc, req, code>>
    BY <1>8 DEF Deactivate, Tick, vars, handler
  <2>2. QED
    BY <1>0, <2>1, EndsStays
<1>9. QED
  BY <1>m, <1>1, <1>2, <1>3, <1>4, <1>5, <1>6, <1>7, <1>8 DEF Next, Proceed, Quiescent

\* What a logout was answered about is dead.
LEMMA LoggedOutStep ==
    ASSUME Inv, LogoutInv, [Next]_vars
    PROVE  LoggedOutDead'
<1>1. \A t \in loggedOut : t \in Token /\ Minted(t.pair) /\ Dead(t)
  BY DEF LogoutInv, LoggedOutDead, Inv, TypeInv, TypeOK, TokensOK
<1>2. ASSUME NEW t \in Token, Minted(t.pair), Dead(t) PROVE Minted(t.pair)' /\ Dead(t)'
  BY <1>2, DeadStays, Monotone, TokenFields DEF Minted
<1>3. ASSUME NEW t \in loggedOut', t \notin loggedOut
      PROVE  t \in Token /\ Minted(t.pair) /\ Dead(t)
  <2>1. PICK w \in Workers : Answer(w)
    <3>1. ASSUME NEW w \in Workers,
             \/ Begin(w) \/ LoginVerify(w) \/ LoginSign(w) \/ RefreshDecode(w)
             \/ RefreshOwner(w) \/ RefreshClaim(w)
             \/ RefreshCommit(w) \/ AuthToken(w) \/ AuthUser(w) \/ LogoutRevokeAccess(w)
             \/ LogoutDecodeRefresh(w) \/ LogoutRevokeRefresh(w) \/ StatementFails(w)
          PROVE  loggedOut' = loggedOut
      BY <3>1 DEF Begin, LoginVerify, LoginSign, RefreshDecode, RefreshOwner, RefreshClaim,
         RefreshCommit, AuthToken, AuthUser, LogoutRevokeAccess, LogoutDecodeRefresh, LogoutRevokeRefresh,
         StatementFails
    <3>2. CASE Crash \/ (\E u \in Users : Deactivate(u)) \/ Tick \/ UNCHANGED vars
      BY <1>3, <3>2 DEF Crash, Deactivate, Tick, vars
    <3>3. QED
      BY <1>3, <3>1, <3>2 DEF Next, Proceed, Quiescent
  <2>2. pc[w] = "answer" /\ req[w].op = "logout" /\ code[w] = 200 /\ t \in Named(req[w])
    BY <1>3, <2>1 DEF Answer
  <2>3. QED
    BY <2>2, NamedTokens DEF LogoutInv, Ends
<1>4. QED
  BY <1>1, <1>2, <1>3 DEF LoggedOutDead

-----------------------------------------------------------------------------
\* What is signed or revoked carries the time of the step.
LEMMA Stamps ==
    ASSUME Inv, [Next]_vars
    PROVE  /\ \A q \in Pairs : (pairs[q] = None /\ pairs'[q] # None) => pairs'[q].issuedAt = now
           /\ \A t \in Token : (revoked[t] = None /\ revoked'[t] # None) => revoked'[t].at = now
<1> USE DEF Inv, TypeInv, TypeOK, TokensOK
<1>1. ASSUME NEW q \in Pairs, NEW u, NEW parent, NEW family, Sign(q, u, parent, family)
      PROVE  \A p \in Pairs : (pairs[p] = None /\ pairs'[p] # None) => pairs'[p].issuedAt = now
  BY <1>1 DEF Sign
<1>2. ASSUME NEW t, NEW reason, Revoke(t, reason)
      PROVE  \A s \in Token : (revoked[s] = None /\ revoked'[s] # None) => revoked'[s].at = now
  BY <1>2 DEF Revoke
<1>3. ASSUME NEW w \in Workers, LoginSign(w) \/ RefreshCommit(w)
      PROVE  \A p \in Pairs : (pairs[p] = None /\ pairs'[p] # None) => pairs'[p].issuedAt = now
  <2>1. pairs' = pairs \/ \E q \in Pairs : \E u, parent, family : Sign(q, u, parent, family)
    BY <1>3 DEF LoginSign, RefreshCommit
  <2>2. QED
    BY <1>1, <2>1
<1>4. ASSUME NEW w \in Workers,
             RefreshCommit(w) \/ LogoutRevokeAccess(w) \/ LogoutRevokeRefresh(w)
      PROVE  \A s \in Token : (revoked[s] = None /\ revoked'[s] # None) => revoked'[s].at = now
  <2>1. \E t, reason : Revoke(t, reason)
    BY <1>4 DEF RefreshCommit, LogoutRevokeAccess, LogoutRevokeRefresh
  <2>2. QED
    BY <1>2, <2>1
<1>5. ASSUME NEW w \in Workers, LogoutRevokeAccess(w) \/ LogoutRevokeRefresh(w) \/ Quiet(w)
      PROVE  pairs' = pairs
  BY <1>5, LogoutFacts, QuietStep
<1>6. ASSUME NEW w \in Workers, LoginSign(w) \/ Quiet(w) PROVE revoked' = revoked
  BY <1>6, LoginFacts, QuietStep
<1>7. ASSUME NEW w \in Workers, Begin(w) \/ Answer(w) PROVE UNCHANGED <<pairs, revoked>>
  BY <1>7 DEF Begin, Answer, tables
<1>8. CASE Crash \/ (\E u \in Users : Deactivate(u)) \/ Tick \/ UNCHANGED vars
  BY <1>8 DEF Crash, Deactivate, Tick, vars, tables
<1>9. QED
  BY <1>3, <1>4, <1>5, <1>6, <1>7, <1>8 DEF Next, Proceed, Quiescent, Quiet

\* Nothing of a closed session is rotated: a rotation needs a live token, and
\* a closed session had at most the one that the logout took.
LEMMA FadeStep ==
    ASSUME Inv, FadeInv, [Next]_vars
    PROVE  FadeInv'
<1> USE DEF Minted, IsRevoked
<1>0. /\ \A p \in Pairs : Refresh(p) \in Token
      /\ \A p, q \in Pairs : Refresh(p) = Refresh(q) => p = q
      /\ \A t \in Token : t.pair \in Pairs
      /\ OneLiveRefresh /\ Chains
      /\ \A p \in Pairs : pairs[p] # None =>
            pairs[p].family \in Pairs /\ pairs[p].issuedAt \in Nat
      /\ now \in Nat /\ now' \in Nat /\ now <= now'
      /\ \A p \in Pairs : pairs[p] # None => pairs'[p] = pairs[p]
      /\ \A t \in Token : revoked[t] # None => revoked'[t] = revoked[t]
  BY Monotone, TokenFields, PairFields DEF Inv, ChainInv, TypeInv, TypeOK, Pair
<1>1. Past'
  <2>1. ASSUME NEW p \in Pairs, pairs'[p] # None PROVE pairs'[p].issuedAt <= now'
    BY <1>0, <2>1, Stamps DEF FadeInv, Past
  <2>2. QED
    BY <2>1 DEF Past
<1>2. ClosedForGood' /\ ClosedSessionFades'
  <2>1. CASE UNCHANGED <<pairs, revoked>>
    BY <2>1 DEF FadeInv, ClosedForGood, ClosedSessionFades
  <2>2. ASSUME NEW q \in Pairs, Opens(q) PROVE ClosedForGood' /\ ClosedSessionFades'
    <3>1. revoked[Refresh(q)] = None
      BY <1>0, <2>2, TokenFields DEF Opens, Inv, ClaimInv, SignedOnly
    <3>2. \A o \in Pairs : o # q /\ pairs'[o] # None => pairs'[o].family # q
      BY <1>0, <2>2 DEF Opens, Chains
    <3>3. QED
      BY <1>0, <2>2, <3>1, <3>2 DEF Opens, FadeInv, ClosedForGood, ClosedSessionFades
  <2>3. ASSUME NEW p \in Pairs, NEW q \in Pairs, Exchanges(p, q)
        PROVE  ClosedForGood' /\ ClosedSessionFades'
    <3>1. revoked[Refresh(q)] = None /\ Refresh(q) # Refresh(p)
      BY <1>0, <2>3, TokenFields DEF Exchanges, Inv, ClaimInv, SignedOnly
    <3>2. revoked'[Refresh(q)] = None
      BY <1>0, <2>3, <3>1 DEF Exchanges
    <3>3. ASSUME NEW c \in Pairs, pairs'[c] # None, revoked'[Refresh(c)] # None,
                 revoked'[Refresh(c)].reason = "logout"
          PROVE  /\ c # p /\ c # q /\ pairs[c] # None /\ pairs'[c] = pairs[c]
                 /\ revoked'[Refresh(c)] = revoked[Refresh(c)]
                 /\ pairs[c].family # pairs[p].family
      <4>1. c # p /\ c # q
        BY <2>3, <3>2, <3>3 DEF Exchanges
      <4>2. pairs'[c] = pairs[c] /\ pairs[c] # None /\ revoked'[Refresh(c)] = revoked[Refresh(c)]
        BY <1>0, <2>3, <3>3, <4>1 DEF Exchanges
      <4>3. QED
        BY <2>3, <3>3, <4>1, <4>2 DEF Exchanges, FadeInv, ClosedForGood
    <3>4. ASSUME NEW c \in Pairs, NEW o \in Pairs, pairs'[c] # None, pairs'[o] # None,
                 pairs'[c].family = pairs'[o].family, revoked'[Refresh(c)] # None,
                 revoked'[Refresh(c)].reason = "logout"
          PROVE  /\ revoked'[Refresh(o)] # None
                 /\ pairs'[o].issuedAt <= revoked'[Refresh(c)].at
      <4>1. o # q
        BY <2>3, <3>3, <3>4 DEF Exchanges
      <4>2. pairs'[o] = pairs[o] /\ pairs[o] # None
        BY <2>3, <3>4, <4>1 DEF Exchanges
      <4>3. revoked[Refresh(o)] # None /\ pairs[o].issuedAt <= revoked[Refresh(c)].at
        BY <3>3, <3>4, <4>2 DEF FadeInv, ClosedForGood, ClosedSessionFades
      <4>4. QED
        BY <1>0, <3>3, <3>4, <4>2, <4>3
    <3>5. QED
      BY <3>4 DEF ClosedForGood, ClosedSessionFades
  <2>4. ASSUME NEW t \in Token, LogsOut(t) PROVE ClosedForGood' /\ ClosedSessionFades'
    <3>1. ASSUME NEW c \in Pairs, NEW o \in Pairs, pairs'[c] # None, pairs'[o] # None,
                 pairs'[c].family = pairs'[o].family, revoked'[Refresh(c)] # None,
                 revoked'[Refresh(c)].reason = "logout"
          PROVE  /\ revoked'[Refresh(o)] # None
                 /\ pairs'[o].issuedAt <= revoked'[Refresh(c)].at
      <4>1. CASE t = Refresh(c)
        <5>1. revoked[Refresh(c)] = None /\ revoked'[Refresh(c)].at = now
          BY <2>4, <4>1, Stamps DEF LogsOut
        <5>2. o # c => revoked[Refresh(o)] # None
          BY <2>4, <3>1, <5>1, <1>0 DEF LogsOut, OneLiveRefresh
        <5>3. pairs[o].issuedAt <= now
          BY <2>4, <3>1 DEF LogsOut, FadeInv, Past
        <5>4. QED
          BY <1>0, <2>4, <3>1, <5>1, <5>2, <5>3 DEF LogsOut
      <4>2. CASE t # Refresh(c)
        <5>1. revoked'[Refresh(c)] = revoked[Refresh(c)]
          BY <1>0, <2>4, <4>2 DEF LogsOut
        <5>2. revoked[Refresh(o)] # None /\ pairs[o].issuedAt <= revoked[Refresh(c)].at
          BY <2>4, <3>1, <5>1 DEF LogsOut, FadeInv, ClosedForGood, ClosedSessionFades
        <5>3. QED
          BY <1>0, <2>4, <5>1, <5>2 DEF LogsOut
      <4>3. QED
        BY <4>1, <4>2
    <3>2. QED
      BY <3>1 DEF ClosedForGood, ClosedSessionFades
  <2>5. QED
    BY <2>1, <2>2, <2>3, <2>4, ChainSteps
<1>3. QED
  BY <1>1, <1>2 DEF FadeInv

-----------------------------------------------------------------------------
LEMMA EndInit == Init => LogoutInv /\ FadeInv
<1>1. Init => LogoutInv
  BY DEF Init, LogoutInv, LoggedOutDead, Stopped, Ends
<1>2. Init => FadeInv
  BY DEF Init, FadeInv, Past, ClosedForGood, ClosedSessionFades, Minted
<1>3. QED
  BY <1>1, <1>2

LEMMA EndInvariant == Spec => [](Inv /\ LogoutInv /\ FadeInv)
<1>1. Inv /\ LogoutInv /\ FadeInv /\ [Next]_vars => LogoutInv' /\ FadeInv'
  BY StopStep, EndStep, LoggedOutStep, FadeStep DEF LogoutInv
<1>2. QED
  BY EndInit, ClaimInvariant, <1>1, PTL DEF Spec

\* A logout answered 200 has revoked what it named, unless that had expired:
\* its two revocations are separate statements (logout).
THEOREM LogoutIsComplete == Spec => []LogoutRevokesNamed
<1>1. LogoutInv => LogoutRevokesNamed
  BY DEF LogoutInv, Ends, LogoutRevokesNamed, Dead
<1>2. QED
  BY EndInvariant, <1>1, PTL

\* A request that began after its token was logged out or its user deactivated
\* is refused, whatever the checks of authentication interleave with.
THEOREM LateRequestsRefused == Spec => []DoomedRefused
<1>1. LogoutInv => DoomedRefused
  BY DEF LogoutInv, Stopped, DoomedRefused
<1>2. QED
  BY EndInvariant, <1>1, PTL

\* No token of a session is younger than the logout of its last refresh token.
THEOREM SessionsFade == Spec => []ClosedSessionFades
BY EndInvariant, PTL DEF FadeInv

\* After the answer to a logout, no rotation that was in progress adds a pair
\* to what it logged out (refresh_tokens against logout).
THEOREM NoneRotatesAfter == Spec => NoRotationAfterLogout
<1>1. ASSUME Inv, LogoutInv, [Next]_vars PROVE SuccessorsSettled
  <2>1. ASSUME NEW p \in Pairs, Refresh(p) \in loggedOut, ~Expired(Refresh(p))
        PROVE  Children(p)' = Children(p)
    <3>1. revoked[Refresh(p)] # None /\ None \notin Pairs
      BY <1>1, <2>1, NoneIsNothing DEF LogoutInv, LoggedOutDead, Dead, IsRevoked, Pairs
    <3>2. /\ Children(p) = {q \in Pairs : pairs[q] # None /\ pairs[q].parent = p}
          /\ Children(p)' = {q \in Pairs : pairs'[q] # None /\ pairs'[q].parent = p}
      BY DEF Children, Minted
    <3>3. \A q \in Pairs : (pairs'[q] # None /\ pairs'[q].parent = p)
                             <=> (pairs[q] # None /\ pairs[q].parent = p)
      BY <1>1, <3>1, ChainSteps DEF Opens, Exchanges, LogsOut
    <3>4. QED
      BY <3>2, <3>3
  <2>2. QED
    BY <2>1 DEF SuccessorsSettled
<1>2. QED
  BY EndInvariant, <1>1, PTL DEF Spec, NoRotationAfterLogout
=============================================================================
