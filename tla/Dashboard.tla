------------------------------ MODULE Dashboard ------------------------------
(***************************************************************************)
(* The script of templates/index.html in one browser tab.  A click runs a   *)
(* handler up to its first "await"; the handler goes on when the call is    *)
(* answered, and other handlers run in between.  setTokens keeps state and  *)
(* sessionStorage equal and sets or clears both tokens of a pair: one       *)
(* variable stands for all four.  Of the server, Tokens and Loans model     *)
(* what is left open here: which pairs it accepts, and when it fails.       *)
(***************************************************************************)
EXTENDS Naturals, Sequences

CONSTANTS Clients, Managers, Admins, \* who signs in at this browser
          None,                      \* no token, no profile, no rows
          Chains,                    \* handlers that may wait at a time
          Clicks,                    \* bound: the buttons that are used
          MaxPairs                   \* bound: token pairs issued

Users == Clients \cup Managers \cup Admins
Pairs == 1..MaxPairs

ASSUME NoneIsNothing == None \notin Users /\ None \notin Pairs
ASSUME BoundIsNat == MaxPairs \in Nat

VARIABLES
    owner,    \* the user of every pair that the server has issued
    valid,    \* pairs whose access token the server still accepts
    fresh,    \* pairs whose refresh token has not been exchanged or revoked
    pair,     \* state.accessToken and state.refreshToken
    user,     \* state.user
    loans,    \* state.loans: the user whose rows they are
    controls, \* state.user when renderLoans made the buttons of the rows
    audit,    \* state.audit: the user whose rows they are
    shell,    \* what updateShell last showed: [signedIn, user]
    status,   \* the kind of the last message
    chain,    \* the handlers that wait for an answer
    calm      \* history: since the page was loaded nobody clicked while a handler waited

server == <<owner, valid, fresh>>
table == <<loans, controls>>
page == <<pair, user, table, audit, shell, status>>
vars == <<server, page, chain, calm>>

\* The calls of each handler, in order.
CallsOf(action) ==
    CASE action = "login" -> <<"login", "me", "loans">>
      [] action = "rotate" -> <<"refresh", "me">>
      [] action = "screen" -> <<"me", "loans", "audit">>
      [] action = "decide" -> <<"decide", "loans">>
      [] action = "start" -> <<"me">>
      [] OTHER -> <<action>>

\* Buttons and forms that make one call (an apply that succeeds reaches no other).
Single == {"loans", "audit", "export", "upload", "apply", "register", "logout"}
Buttons == {"login", "rotate", "screen", "decide"} \cup Single

ASSUME ClicksAreButtons == Clicks \subseteq Buttons

\* A waiting handler: the calls it has left (the first is in flight), whose
\* password the form held, the pair the call was made with, and its answer.
Idle == [action |-> "none", calls |-> <<>>, as |-> None, used |-> None,
         answer |-> "none", got |-> None]
Chain == [action : Buttons \cup {"start", "none"},
          calls : Seq({"login", "refresh", "me", "decide"} \cup Single),
          as : Users \cup {None}, used : Pairs \cup {None},
          answer : {"none", "ok", "error"}, got : Pairs \cup {None}]

Waiting(action, calls, as, p) ==
    [Idle EXCEPT !.action = action, !.calls = calls, !.as = as, !.used = p]

\* updateShell, when the page has the tokens p and the profile u.
Shown(p, u) == [signedIn |-> p # None, user |-> u]

Init ==
    /\ owner = [p \in Pairs |-> None]
    /\ valid = {} /\ fresh = {}
    /\ pair = None
    /\ user = None /\ loans = None /\ controls = None /\ audit = None
    /\ shell = Shown(None, None)
    /\ status = "none"
    /\ chain = [c \in Chains |-> Idle]
    /\ calm = TRUE

-----------------------------------------------------------------------------
\* Clicks

\* What updateShell and renderLoans left to click on.
Enabled(action) ==
    CASE action \in {"login", "register", "rotate"} -> ~shell.signedIn
      [] action = "logout" -> shell.signedIn
      [] action = "apply" -> shell.user \in Clients
      [] action = "audit" -> shell.user \in Admins
      [] action = "upload" -> controls \in Clients
      [] action = "decide" -> controls \in Managers
      [] OTHER -> TRUE

\* Handlers that give up without a token.
NeedsToken == {"rotate", "screen", "loans", "export"}

\* The first call is made with the token that the page has now.
Click(c) ==
    /\ chain[c] = Idle
    /\ \E action \in Clicks :
          /\ Enabled(action)
          /\ action \in NeedsToken => pair # None
          /\ \E u \in IF action = "login" THEN Users ELSE {None} :
                chain' = [chain EXCEPT ![c] = Waiting(action, CallsOf(action), u, pair)]
    /\ calm' = (calm /\ \A d \in Chains : chain[d] = Idle)
    /\ UNCHANGED <<server, page>>

\* "Authentication required.", "No refresh token available."
ClickRefused ==
    /\ pair = None
    /\ \E action \in (NeedsToken \ {"screen"}) \cap Clicks : Enabled(action)
    /\ status' = "error"
    /\ UNCHANGED <<server, pair, user, table, audit, shell, chain, calm>>

\* The refresh button without a token: loadProfile returns early.
ScreenSignedOut ==
    /\ pair = None /\ "screen" \in Clicks
    /\ user' = None
    /\ shell' = Shown(None, None)
    /\ UNCHANGED <<server, pair, table, audit, status, chain, calm>>

\* The page is loaded again: sessionStorage survives, the rest does not.
Reload ==
    /\ user' = None /\ loans' = None /\ controls' = None /\ audit' = None
    /\ shell' = Shown(pair, None)
    /\ status' = "none"
    /\ \E s \in Chains :
          chain' = [c \in Chains |->
              IF c = s /\ pair # None THEN Waiting("start", CallsOf("start"), None, pair) ELSE Idle]
    /\ calm' = TRUE
    /\ UNCHANGED <<server, pair>>

-----------------------------------------------------------------------------
\* The server and the network

InFlight(c, calls) == chain[c] # Idle /\ chain[c].answer = "none" /\ Head(chain[c].calls) \in calls

\* A call that the server refuses, or that never gets there or back.
ServeError(c) ==
    /\ chain[c] # Idle /\ chain[c].answer = "none"
    /\ chain' = [chain EXCEPT ![c].answer = "error"]
    /\ fresh' \in {fresh, IF InFlight(c, {"refresh", "logout"}) THEN fresh \ {chain[c].used} ELSE fresh}
    /\ UNCHANGED <<owner, valid, page, calm>>

\* Whom the server answers: an ADMIN has no loans, for instance.
Allowed(call, u) ==
    CASE call \in {"loans", "export"} -> u \in Clients \cup Managers
      [] call = "audit" -> u \in Admins
      [] call \in {"apply", "upload"} -> u \in Clients
      [] call = "decide" -> u \in Managers
      [] OTHER -> TRUE

ServeOk(c) ==
    /\ \/ InFlight(c, {"register"})
       \/ /\ InFlight(c, Single \cup {"me", "decide"})
          /\ chain[c].used \in valid
          /\ Allowed(Head(chain[c].calls), owner[chain[c].used])
    /\ LET gone == IF InFlight(c, {"logout"}) THEN {chain[c].used} ELSE {}
       IN valid' = valid \ gone /\ fresh' = fresh \ gone
    /\ chain' = [chain EXCEPT ![c].answer = "ok"]
    /\ UNCHANGED <<owner, page, calm>>

\* A new pair for a password or for a refresh token.
ServePair(c) ==
    /\ InFlight(c, {"login"}) \/ (InFlight(c, {"refresh"}) /\ chain[c].used \in fresh)
    /\ \E p \in Pairs :
          /\ owner[p] = None /\ \A q \in Pairs : q < p => owner[q] # None
          /\ owner' = [owner EXCEPT ![p] =
                IF InFlight(c, {"login"}) THEN chain[c].as ELSE owner[chain[c].used]]
          /\ valid' = valid \cup {p}
          /\ fresh' = (fresh \ (IF InFlight(c, {"refresh"}) THEN {chain[c].used} ELSE {})) \cup {p}
          /\ chain' = [chain EXCEPT ![c].answer = "ok", ![c].got = p]
    /\ UNCHANGED <<page, calm>>

\* The token expires, or its user is deactivated.
Expire(p) ==
    /\ p \in valid
    /\ valid' = valid \ {p}
    /\ UNCHANGED <<owner, fresh, page, chain, calm>>

-----------------------------------------------------------------------------
\* The code after each await

Answered(c, calls, answer) ==
    /\ chain[c] # Idle /\ chain[c].answer = answer /\ Head(chain[c].calls) \in calls
    /\ UNCHANGED <<server, calm>>

\* The handler gives up, or has no calls left.
End(c) == chain' = [chain EXCEPT ![c] = Idle]

\* The refresh button goes on only with a profile.
NoProfile(c, u) == chain[c].action = "screen" /\ u = None

\* The handler of c comes to loadLoans when the page has no tokens.
LoansRefused(c, p, u) ==
    LET left == Tail(chain[c].calls) IN
    left # <<>> /\ Head(left) = "loans" /\ p = None /\ ~NoProfile(c, u)

\* The calls that it still makes when the page has the tokens p and the profile
\* u: the refresh button loads the audit log for an ADMIN.
Reached(c, p, u) ==
    LET left == Tail(chain[c].calls)
        lists == IF LoansRefused(c, p, u) THEN Tail(left) ELSE left
    IN CASE left = <<>> \/ NoProfile(c, u) -> <<>>
         [] lists = <<"audit">> /\ u \notin Admins -> <<>>
         [] OTHER -> lists

\* The handler goes on, and its last message is m, or "Authentication required."
GoOn(c, p, u, m) ==
    LET calls == Reached(c, p, u) IN
    /\ chain' = [chain EXCEPT ![c] =
          IF calls = <<>> THEN Idle ELSE Waiting(chain[c].action, calls, None, p)]
    /\ status' = IF LoansRefused(c, p, u) THEN "error" ELSE m

\* login and refresh: setTokens, then loadProfile.
PairReceived(c) ==
    /\ Answered(c, {"login", "refresh"}, "ok")
    /\ pair' = chain[c].got
    /\ GoOn(c, chain[c].got, user, status)
    /\ UNCHANGED <<user, table, audit, shell>>

\* loadProfile; the refresh-token button then says "Token rotated." in any case.
MeReceived(c) ==
    /\ Answered(c, {"me"}, "ok")
    /\ user' = owner[chain[c].used]
    /\ shell' = Shown(pair, owner[chain[c].used])
    /\ GoOn(c, pair, owner[chain[c].used], "ok")
    /\ UNCHANGED <<pair, table, audit>>

\* Variant: loadProfile keeps the profile when the call fails.
MeFailedKeeping(c) ==
    /\ Answered(c, {"me"}, "error")
    /\ pair' = None
    /\ shell' = Shown(None, user)
    /\ GoOn(c, None, user, IF chain[c].action = "rotate" THEN "ok" ELSE "error")
    /\ UNCHANGED <<user, table, audit>>

\* Variant: loadProfile does not reach updateShell when the call fails.
MeFailedUnshown(c) ==
    /\ Answered(c, {"me"}, "error")
    /\ pair' = None /\ user' = None
    /\ GoOn(c, None, None, IF chain[c].action = "rotate" THEN "ok" ELSE "error")
    /\ UNCHANGED <<table, audit, shell>>

MeFailed(c) ==
    /\ Answered(c, {"me"}, "error")
    /\ pair' = None /\ user' = None
    /\ shell' = Shown(None, None)
    /\ GoOn(c, None, None, IF chain[c].action = "rotate" THEN "ok" ELSE "error")
    /\ UNCHANGED <<table, audit>>

LoansReceived(c) ==
    /\ Answered(c, {"loans"}, "ok")
    /\ loans' = owner[chain[c].used] /\ controls' = user
    /\ shell' = Shown(pair, user)
    /\ GoOn(c, pair, user, "ok")
    /\ UNCHANGED <<pair, user, audit>>

AuditReceived(c) ==
    /\ Answered(c, {"audit"}, "ok")
    /\ audit' = owner[chain[c].used]
    /\ shell' = Shown(pair, user)
    /\ status' = "ok"
    /\ End(c)
    /\ UNCHANGED <<pair, user, table>>

\* loadLoans and loadAudit report a failure, keep what they had and return.
LoadFailed(c) ==
    /\ Answered(c, {"loans", "audit"}, "error")
    /\ GoOn(c, pair, user, "error")
    /\ UNCHANGED <<pair, user, table, audit, shell>>

\* submitDecision, uploadDocument, exportCsv.
CallDone(c) ==
    /\ Answered(c, {"decide", "upload", "export"}, "ok")
    /\ GoOn(c, pair, user, "ok")
    /\ UNCHANGED <<pair, user, table, audit, shell>>

\* After the await event.currentTarget is null: reset() throws, the catch of the
\* handler shows the TypeError, and loadLoans is not reached.
FormDone(c) ==
    /\ Answered(c, {"apply", "register"}, "ok")
    /\ status' = "error"
    /\ End(c)
    /\ UNCHANGED <<pair, user, table, audit, shell>>

\* Variant: the failure is shown with the message's own kind.
CallFailedWarning(c) ==
    /\ Answered(c, {"login", "refresh", "decide", "upload", "export", "apply", "register"}, "error")
    /\ status' = "warning"
    /\ End(c)
    /\ UNCHANGED <<pair, user, table, audit, shell>>

\* Any other failure ends the handler in its catch.
CallFailed(c) ==
    /\ Answered(c, {"login", "refresh", "decide", "upload", "export", "apply", "register"}, "error")
    /\ status' = "error"
    /\ End(c)
    /\ UNCHANGED <<pair, user, table, audit, shell>>

\* Variant: a logout keeps the audit rows that were loaded.
LogoutReceivedKeeping(c) ==
    /\ Answered(c, {"logout"}, "ok") \/ Answered(c, {"logout"}, "error")
    /\ pair' = None /\ user' = None
    /\ loans' = None /\ controls' = None
    /\ shell' = Shown(None, None)
    /\ status' = "signedOut"
    /\ End(c)
    /\ UNCHANGED audit

\* A failure is ignored.  The button is shown only with a token, so the handler's
\* way round the call is never taken.
LogoutReceived(c) ==
    /\ Answered(c, {"logout"}, "ok") \/ Answered(c, {"logout"}, "error")
    /\ pair' = None /\ user' = None
    /\ loans' = None /\ controls' = None /\ audit' = None
    /\ shell' = Shown(None, None)
    /\ status' = "signedOut"
    /\ End(c)

Next ==
    \/ \E c \in Chains :
          \/ Click(c)
          \/ ServeError(c) \/ ServeOk(c) \/ ServePair(c)
          \/ PairReceived(c) \/ MeReceived(c) \/ MeFailed(c)
          \/ LoansReceived(c) \/ AuditReceived(c) \/ LoadFailed(c)
          \/ CallDone(c) \/ FormDone(c) \/ CallFailed(c) \/ LogoutReceived(c)
    \/ \E p \in Pairs : Expire(p)
    \/ ClickRefused \/ ScreenSignedOut \/ Reload

Spec == Init /\ [][Next]_vars

-----------------------------------------------------------------------------
\* Every variable stays within what the handlers know.
TypeOK ==
    /\ owner \in [Pairs -> Users \cup {None}]
    /\ valid \subseteq Pairs /\ fresh \subseteq Pairs
    /\ pair \in Pairs \cup {None}
    /\ {user, loans, controls, audit} \subseteq Users \cup {None}
    /\ shell \in [signedIn : BOOLEAN, user : Users \cup {None}]
    /\ status \in {"none", "ok", "error", "signedOut"}
    /\ chain \in [Chains -> Chain]
    /\ calm \in BOOLEAN

AllIdle == \A c \in Chains : chain[c] = Idle

\* Who the page says is signed in is who its calls are made as, through expired
\* tokens, failures and reloads, as long as nobody clicks while a handler waits.
ProfileMatchesToken == (calm /\ user # None) => (pair # None /\ owner[pair] = user)

\* "Signed out." means that nothing of the last user is left on the page.
SignedOutIsClean ==
    (calm /\ AllIdle /\ status = "signedOut") => {pair, user, loans, controls, audit} = {None}

\* Whatever overlapped, when no handler waits the panels on offer are those for
\* the page's tokens and profile: no update of the state lacks its updateShell.
ShellMatches == AllIdle => shell = Shown(pair, user)

\* The rows in the table are those that the server showed to the user of the
\* page: "CLIENT sees only own applications" (loans/api.py:73).
RowsOfUser == (user # None /\ loans # None) => loans = user
=============================================================================
