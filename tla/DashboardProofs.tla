--------------------------- MODULE DashboardProofs ---------------------------
(***************************************************************************)
(* Proofs about Dashboard for every set of users, any number of overlapping *)
(* handlers and of token pairs: what the page shows agrees with the tokens  *)
(* it holds, whichever calls fail and whatever the server accepts.          *)
(***************************************************************************)
EXTENDS Dashboard, TLAPS

\* The calls that a handler may still have before it.
Plan(action, calls) ==
    \/ action = "login" /\ calls \in {<<"login", "me", "loans">>, <<"me", "loans">>, <<"loans">>}
    \/ action = "rotate" /\ calls \in {<<"refresh", "me">>, <<"me">>}
    \/ action = "screen"
       /\ calls \in {<<"me", "loans", "audit">>, <<"loans", "audit">>, <<"audit">>}
    \/ action = "decide" /\ calls \in {<<"decide", "loans">>, <<"loans">>}
    \/ action = "start" /\ calls = <<"me">>
    \/ action \in Single /\ calls = <<action>>

Calls(c, names) == chain[c] # Idle /\ Head(chain[c].calls) \in names

PlanInv == \A c \in Chains : chain[c] = Idle \/ Plan(chain[c].action, chain[c].calls)

\* A pair that the server accepts, that an answer carries or that the page holds
\* was issued; a call that needs a token is answered for an issued one.
IssuedInv ==
    /\ \A p \in valid \cup fresh : owner[p] # None
    /\ pair # None => owner[pair] # None
    /\ \A c \in Chains :
          /\ chain[c].got # None => owner[chain[c].got] # None
          /\ Calls(c, {"login"}) => chain[c].as \in Users
          /\ chain[c].answer = "ok" /\ Calls(c, {"login", "refresh"}) => chain[c].got # None
          /\ chain[c].answer = "ok" /\ ~Calls(c, {"login", "refresh", "register"}) =>
                chain[c].used \in Pairs /\ owner[chain[c].used] # None

BaseInv == TypeOK /\ PlanInv /\ IssuedInv

\* What updateShell showed is out of date only while /auth/me is on its way, after
\* which it runs again.
Loading == \E c \in Chains : Calls(c, {"me"})
ShellInv == shell = Shown(pair, user) \/ Loading

\* If nobody clicks while a handler waits, there is one, its calls are made with
\* the page's tokens, and it asks for tokens only if nobody is signed in.
CalmInv ==
    calm => /\ \A c, d \in Chains : chain[c] # Idle /\ chain[d] # Idle => c = d
            /\ \A c \in Chains : /\ chain[c] # Idle => chain[c].used = pair
                                 /\ Calls(c, {"login", "refresh"}) => user = None

\* Until the next sign-in nothing comes back after "Signed out.".
SignedOutInv ==
    (calm /\ status = "signedOut") =>
        /\ {user, loans, controls, audit} = {None}
        /\ pair = None \/ Loading

PageInv == ShellInv /\ CalmInv /\ SignedOutInv /\ ProfileMatchesToken

-----------------------------------------------------------------------------
CallNames == {"login", "refresh", "me", "decide"} \cup Single

\* Short sequences.
LEMMA OneCall ==
    ASSUME NEW S, NEW a \in S
    PROVE  <<a>> # <<>> /\ <<a>> \in Seq(S) /\ Head(<<a>>) = a /\ Tail(<<a>>) = <<>>
OBVIOUS

LEMMA TwoCalls ==
    ASSUME NEW S, NEW a \in S, NEW b \in S
    PROVE  /\ <<a, b>> # <<>> /\ <<a, b>> \in Seq(S) /\ Head(<<a, b>>) = a
           /\ Tail(<<a, b>>) = <<b>>
OBVIOUS

LEMMA ThreeCalls ==
    ASSUME NEW S, NEW a \in S, NEW b \in S, NEW d \in S
    PROVE  /\ <<a, b, d>> # <<>> /\ <<a, b, d>> \in Seq(S) /\ Head(<<a, b, d>>) = a
           /\ Tail(<<a, b, d>>) = <<b, d>>
OBVIOUS
\* What is said of a plan below.
PlanFacts(action, calls) ==
    /\ calls # <<>> /\ calls \in Seq(CallNames) /\ Head(calls) \in CallNames
    /\ action \in Buttons \cup {"start"}
    /\ Tail(calls) = <<>> \/ Plan(action, Tail(calls))
    /\ Head(calls) \in {"login", "refresh"} =>
          action \in {"login", "rotate"} /\ Tail(calls) # <<>> /\ Head(Tail(calls)) = "me"
    /\ Tail(calls) # <<>> => Head(Tail(calls)) \in {"me", "loans", "audit"}
    /\ Tail(calls) # <<>> /\ Head(Tail(calls)) = "me" => action \in {"login", "rotate"}
    /\ Tail(calls) # <<>> /\ Head(Tail(calls)) = "loans" =>
          Tail(Tail(calls)) = <<>> \/ (Tail(Tail(calls)) = <<"audit">> /\ action = "screen")

\* The first call of a plan, and the plan that is left.
LEMMA Plans ==
    ASSUME NEW action, NEW calls, Plan(action, calls)
    PROVE  PlanFacts(action, calls)
<1> USE DEF CallNames, Single, Buttons, PlanFacts, Plan
<1>1. ASSUME NEW a \in CallNames, calls = <<a>>, action \in Buttons \cup {"start"},
             a \notin {"login", "refresh"}
      PROVE  PlanFacts(action, calls)
  BY <1>1, OneCall
<1>2. CASE action \in Single
  BY <1>1, <1>2
<1>3. CASE action = "start"
  BY <1>1, <1>3
<1>4. ASSUME NEW a \in CallNames, NEW b \in CallNames, calls = <<a, b>>,
             action \in Buttons, b \in {"me", "loans", "audit"}, Plan(action, <<b>>),
             a \in {"login", "refresh"} => action \in {"login", "rotate"} /\ b = "me",
             b = "me" => action \in {"login", "rotate"}
      PROVE  PlanFacts(action, calls)
  BY <1>4, OneCall, TwoCalls
<1>5. CASE action = "decide"
  BY <1>1, <1>4, <1>5
<1>6. CASE action = "rotate"
  BY <1>1, <1>4, <1>6
<1>7. ASSUME NEW a \in CallNames, NEW b \in CallNames, NEW d \in CallNames, calls = <<a, b, d>>,
             action \in Buttons, b \in {"me", "loans"}, Plan(action, <<b, d>>),
             a \in {"login", "refresh"} => action \in {"login", "rotate"} /\ b = "me",
             b = "me" => action \in {"login", "rotate"},
             b = "loans" => d = "audit" /\ action = "screen"
      PROVE  PlanFacts(action, calls)
  BY <1>7, OneCall, TwoCalls, ThreeCalls
<1>8. CASE action = "login"
  BY <1>1, <1>4, <1>7, <1>8
<1>9. CASE action = "screen"
  BY <1>1, <1>4, <1>7, <1>9
<1>10. QED
  BY <1>2, <1>3, <1>5, <1>6, <1>8, <1>9

\* The plan of a click.
LEMMA Planned ==
    ASSUME NEW action \in Buttons \cup {"start"}
    PROVE  /\ Plan(action, CallsOf(action))
           /\ Head(CallsOf(action)) = "login" => action = "login"
           /\ Head(CallsOf(action)) = "refresh" => action = "rotate"
           /\ Head(CallsOf(action)) = "me" => action \in {"screen", "start"}
<1>1. Plan(action, CallsOf(action))
  BY DEF Plan, CallsOf, Buttons, Single
<1>2. CASE action \in {"login", "rotate", "screen", "decide", "start"}
  <2>1. Head(CallsOf(action)) = CASE action = "login" -> "login" [] action = "rotate" -> "refresh"
                                  [] action = "decide" -> "decide" [] OTHER -> "me"
    BY <1>2, OneCall, TwoCalls, ThreeCalls DEF CallsOf
  <2>2. QED
    BY <1>1, <1>2, <2>1
<1>3. CASE action \in Single
  <2>1. Head(CallsOf(action)) = action
    BY <1>3, OneCall DEF CallsOf, Single
  <2>2. QED
    BY <1>1, <1>3, <2>1 DEF Single
<1>4. QED
  BY <1>2, <1>3 DEF Buttons
-----------------------------------------------------------------------------
\* A handler that waits for the answer to a call with the tokens p.
NextCall(e, p) ==
    /\ e # Idle /\ Plan(e.action, e.calls) /\ Head(e.calls) \in {"me", "loans", "audit"}
    /\ e.as = None /\ e.used = p /\ e.answer = "none" /\ e.got = None

\* Both values that a handler's place is given are handlers.
LEMMA IdleIsChain == Idle \in Chain
<1>1. <<>> \in Seq(CallNames)
  OBVIOUS
<1>2. QED
  BY <1>1 DEF Idle, Chain, CallNames

LEMMA WaitingIsChain ==
    ASSUME NEW a \in Buttons \cup {"start"}, NEW s \in Seq(CallNames),
           NEW u \in Users \cup {None}, NEW p \in Pairs \cup {None}
    PROVE  Waiting(a, s, u, p) \in Chain
<1>1. Idle \in Chain
  BY IdleIsChain
<1>2. QED
  BY <1>1 DEF Waiting, Chain, CallNames

\* What the handler goes on with is a plan, without calls that hand out tokens.
LEMMA Goes ==
    ASSUME TypeOK, PlanInv, NEW c \in Chains, chain[c] # Idle,
           NEW p \in Pairs \cup {None}, NEW u, NEW m, GoOn(c, p, u, m)
    PROVE  /\ chain' \in [Chains -> Chain]
           /\ \A d \in Chains : d # c => chain'[d] = chain[d]
           /\ chain'[c] = Idle \/ NextCall(chain'[c], p)
           /\ Calls(c, {"login", "refresh"}) =>
                 chain'[c] # Idle /\ Head(chain'[c].calls) = "me" /\ status' = m
           /\ status' \in {"error", m}
<1> DEFINE action == chain[c].action
           left == Tail(chain[c].calls)
           calls == Reached(c, p, u)
           next == Waiting(action, calls, None, p)
<1>1. Plan(action, chain[c].calls) /\ PlanFacts(action, chain[c].calls)
  BY Plans DEF PlanInv
<1>2. \/ calls = <<>> \/ calls = left
      \/ calls = Tail(left) /\ calls = <<"audit">> /\ action = "screen"
  BY <1>1 DEF PlanFacts, Reached, LoansRefused, NoProfile
<1>3. ASSUME calls # <<>>
      PROVE  /\ Plan(action, calls) /\ Head(calls) \in {"me", "loans", "audit"}
             /\ calls \in Seq(CallNames) /\ action \in Buttons \cup {"start"}
  <2>1. CASE calls = left
    <3>1. Plan(action, left) /\ PlanFacts(action, left)
      BY <1>1, <1>3, <2>1, Plans DEF PlanFacts
    <3>2. QED
      BY <1>1, <1>3, <2>1, <3>1 DEF PlanFacts
  <2>2. CASE calls = <<"audit">> /\ action = "screen"
    BY <2>2, OneCall DEF Plan, CallNames, Single, Buttons
  <2>3. QED
    BY <1>2, <1>3, <2>1, <2>2
<1>4. chain' = [chain EXCEPT ![c] = IF calls = <<>> THEN Idle ELSE next]
  BY DEF GoOn
<1>5. /\ next.action = action /\ next.calls = calls /\ next.as = None /\ next.used = p
      /\ next.answer = "none" /\ next.got = None
  BY DEF Waiting, Idle
<1>7. calls # <<>> => next \in Chain /\ next # Idle
  <2>1. calls # <<>> => next \in Chain
    BY <1>3, WaitingIsChain
  <2>2. Idle.calls = <<>>
    BY DEF Idle
  <2>3. QED
    BY <1>5, <2>1, <2>2
<1>8. chain' \in [Chains -> Chain] /\ \A d \in Chains : d # c => chain'[d] = chain[d]
  BY <1>4, <1>7, IdleIsChain DEF TypeOK
<1>9. chain'[c] = IF calls = <<>> THEN Idle ELSE next
  BY <1>4 DEF TypeOK
<1>10. chain'[c] = Idle \/ NextCall(chain'[c], p)
  BY <1>3, <1>5, <1>7, <1>9 DEF NextCall
<1>11. status' \in {"error", m}
  BY DEF GoOn
<1>12. ASSUME Calls(c, {"login", "refresh"})
       PROVE  chain'[c] # Idle /\ Head(chain'[c].calls) = "me" /\ status' = m
  <2>1. action \in {"login", "rotate"} /\ left # <<>> /\ Head(left) = "me"
    BY <1>1, <1>12 DEF PlanFacts, Calls
  <2>2. left # <<"audit">> /\ action # "screen"
    BY <2>1, OneCall
  <2>3. calls = left
    BY <2>1, <2>2 DEF Reached, LoansRefused, NoProfile
  <2>4. status' = m
    BY <2>1, <2>3 DEF GoOn, LoansRefused
  <2>5. QED
    BY <1>5, <1>7, <1>9, <2>1, <2>3, <2>4
<1>13. QED
  BY <1>8, <1>10, <1>11, <1>12
\* The code after an await: the handler of c ends or makes its next call.
Received(c) ==
    \/ PairReceived(c) \/ MeReceived(c) \/ MeFailed(c)
    \/ LoansReceived(c) \/ AuditReceived(c) \/ LoadFailed(c)
    \/ CallDone(c) \/ FormDone(c) \/ CallFailed(c) \/ LogoutReceived(c)

Others(c) == \A d \in Chains : d # c => chain'[d] = chain[d]

\* End frees the handler's place.
LEMMA Ended ==
    ASSUME TypeOK, NEW c \in Chains, End(c)
    PROVE  chain' \in [Chains -> Chain] /\ Others(c) /\ chain'[c] = Idle
BY IdleIsChain DEF TypeOK, End, Others

\* A waiting handler has a call in flight, and what it was answered was issued.
LEMMA Waited ==
    ASSUME BaseInv, NEW c \in Chains, chain[c] # Idle
    PROVE  /\ chain[c].used \in Pairs \cup {None} /\ chain[c].got \in Pairs \cup {None}
           /\ Head(chain[c].calls) \in CallNames
           /\ chain[c].answer = "ok" =>
                 IF Head(chain[c].calls) \in {"login", "refresh"}
                 THEN chain[c].got \in Pairs /\ owner[chain[c].got] \in Users
                 ELSE Head(chain[c].calls) # "register" =>
                         chain[c].used \in Pairs /\ owner[chain[c].used] \in Users
<1>1. chain[c] \in Chain /\ owner \in [Pairs -> Users \cup {None}]
  BY DEF BaseInv, TypeOK
<1>2. chain[c].used \in Pairs \cup {None} /\ chain[c].got \in Pairs \cup {None}
  BY <1>1 DEF Chain
<1>3. Head(chain[c].calls) \in CallNames
  BY Plans DEF BaseInv, PlanInv, PlanFacts
<1>4. QED
  BY <1>1, <1>2, <1>3 DEF BaseInv, IssuedInv, Calls

\* The code after an await touches no other handler and nothing of the server.
LEMMA ReceivedMoves ==
    ASSUME BaseInv, NEW c \in Chains, Received(c)
    PROVE  /\ UNCHANGED <<server, calm>> /\ chain[c] # Idle
           /\ chain' \in [Chains -> Chain] /\ Others(c)
           /\ chain'[c] = Idle \/ NextCall(chain'[c], pair')
<1> USE DEF BaseInv
<1>1. UNCHANGED <<server, calm>> /\ chain[c] # Idle
  BY DEF Received, PairReceived, MeReceived, MeFailed, LoansReceived, AuditReceived,
         LoadFailed, CallDone, FormDone, CallFailed, LogoutReceived, Answered
<1>2. pair \in Pairs \cup {None}
  BY DEF TypeOK
<1>3. CASE PairReceived(c)
  BY <1>1, <1>3, Goes, Waited DEF PairReceived, Others
<1>4. CASE MeReceived(c)
  BY <1>1, <1>2, <1>4, Goes DEF MeReceived, Others
<1>5. CASE MeFailed(c)
  BY <1>1, <1>5, Goes DEF MeFailed, Others
<1>6. CASE LoansReceived(c)
  BY <1>1, <1>2, <1>6, Goes DEF LoansReceived, Others
<1>7. CASE LoadFailed(c)
  BY <1>1, <1>2, <1>7, Goes DEF LoadFailed, Others
<1>8. CASE CallDone(c)
  BY <1>1, <1>2, <1>8, Goes DEF CallDone, Others
<1>9. CASE AuditReceived(c) \/ FormDone(c) \/ CallFailed(c) \/ LogoutReceived(c)
  BY <1>1, <1>9, Ended DEF AuditReceived, FormDone, CallFailed, LogoutReceived
<1>10. QED
  BY <1>3, <1>4, <1>5, <1>6, <1>7, <1>8, <1>9 DEF Received

PageOK(p, u, l, k, a, s, m) ==
    /\ p \in Pairs \cup {None} /\ (p # None => owner[p] # None)
    /\ {u, l, k, a} \subseteq Users \cup {None}
    /\ s \in [signedIn : BOOLEAN, user : Users \cup {None}]
    /\ m \in {"none", "ok", "error", "signedOut"}

\* updateShell shows a flag and a profile.
LEMMA ShownType ==
    ASSUME NEW p, NEW u \in Users \cup {None}
    PROVE  Shown(p, u) \in [signedIn : BOOLEAN, user : Users \cup {None}]
BY DEF Shown

\* It leaves the page with tokens that were issued and profiles of users.
LEMMA ReceivedPage ==
    ASSUME BaseInv, NEW c \in Chains, Received(c)
    PROVE  PageOK(pair', user', loans', controls', audit', shell', status')
<1> USE DEF BaseInv
<1>1. PageOK(pair, user, loans, controls, audit, shell, status)
  BY DEF TypeOK, IssuedInv, PageOK
<1>2. chain[c] # Idle
  BY ReceivedMoves
<1>3. CASE PairReceived(c)
  <2>1. chain[c].got \in Pairs /\ owner[chain[c].got] # None
    BY <1>2, <1>3, Waited, NoneIsNothing DEF PairReceived, Answered
  <2>2. status' \in {"error", status}
    BY <1>2, <1>3, Waited, Goes DEF PairReceived
  <2>3. QED
    BY <1>1, <1>3, <2>1, <2>2 DEF PairReceived, PageOK, table
<1>4. CASE MeReceived(c)
  <2>1. owner[chain[c].used] \in Users
    BY <1>2, <1>4, Waited DEF MeReceived, Answered
  <2>2. status' \in {"error", "ok"}
    BY <1>1, <1>2, <1>4, Goes DEF MeReceived, PageOK
  <2>3. shell' \in [signedIn : BOOLEAN, user : Users \cup {None}]
    BY <1>4, <2>1, ShownType DEF MeReceived
  <2>4. QED
    BY <1>1, <1>4, <2>1, <2>2, <2>3 DEF MeReceived, PageOK, table
<1>5. CASE MeFailed(c)
  <2>1. status' \in {"error", "ok"}
    BY <1>2, <1>5, Goes DEF MeFailed
  <2>2. QED
    BY <1>1, <1>5, <2>1, ShownType DEF MeFailed, PageOK, table
<1>6. CASE LoansReceived(c)
  <2>1. owner[chain[c].used] \in Users
    BY <1>2, <1>6, Waited DEF LoansReceived, Answered
  <2>2. status' \in {"error", "ok"}
    BY <1>1, <1>2, <1>6, Goes DEF LoansReceived, PageOK
  <2>3. user \in Users \cup {None} /\ shell' \in [signedIn : BOOLEAN, user : Users \cup {None}]
    BY <1>1, <1>6, ShownType DEF LoansReceived, PageOK
  <2>4. QED
    BY <1>1, <1>6, <2>1, <2>2, <2>3 DEF LoansReceived, PageOK
<1>7. CASE AuditReceived(c)
  <2>1. owner[chain[c].used] \in Users
    BY <1>2, <1>7, Waited DEF AuditReceived, Answered
  <2>2. user \in Users \cup {None} /\ shell' \in [signedIn : BOOLEAN, user : Users \cup {None}]
    BY <1>1, <1>7, ShownType DEF AuditReceived, PageOK
  <2>3. QED
    BY <1>1, <1>7, <2>1, <2>2 DEF AuditReceived, PageOK, table
<1>8. CASE LoadFailed(c) \/ CallDone(c)
  <2>1. status' \in {"error", "ok"}
    BY <1>1, <1>2, <1>8, Goes DEF LoadFailed, CallDone, PageOK
  <2>2. QED
    BY <1>1, <1>8, <2>1 DEF LoadFailed, CallDone, PageOK, table
<1>9. CASE FormDone(c) \/ CallFailed(c)
  BY <1>1, <1>9 DEF FormDone, CallFailed, PageOK, table
<1>10. CASE LogoutReceived(c)
  BY <1>10, ShownType DEF LogoutReceived, PageOK
<1>11. QED
  BY <1>3, <1>4, <1>5, <1>6, <1>7, <1>8, <1>9, <1>10 DEF Received
\* A click makes the first call of its plan, with the page's tokens.
LEMMA ClickFacts ==
    ASSUME TypeOK, NEW c \in Chains, Click(c)
    PROVE  /\ UNCHANGED <<server, page>> /\ chain[c] = Idle
           /\ calm' = (calm /\ \A d \in Chains : chain[d] = Idle)
           /\ chain' \in [Chains -> Chain] /\ Others(c)
           /\ \E action \in Buttons :
                 /\ Enabled(action) /\ (action \in NeedsToken => pair # None)
                 /\ Plan(action, CallsOf(action)) /\ chain'[c].calls = CallsOf(action)
                 /\ chain'[c].action = action /\ chain'[c].used = pair
                 /\ chain'[c].answer = "none" /\ chain'[c].got = None
                 /\ chain'[c] # Idle
                 /\ Head(CallsOf(action)) = "login" => chain'[c].as \in Users
<1>1. PICK action \in Clicks : \E u \in IF action = "login" THEN Users ELSE {None} :
          /\ Enabled(action) /\ (action \in NeedsToken => pair # None)
          /\ chain' = [chain EXCEPT ![c] = Waiting(action, CallsOf(action), u, pair)]
  BY DEF Click
<1>2. PICK u \in Users \cup {None} :
          /\ chain' = [chain EXCEPT ![c] = Waiting(action, CallsOf(action), u, pair)]
          /\ action = "login" => u \in Users
  BY <1>1
<1>3. action \in Buttons /\ Plan(action, CallsOf(action))
  BY <1>1, ClicksAreButtons, Planned
<1>4. CallsOf(action) # <<>> /\ CallsOf(action) \in Seq(CallNames)
  BY <1>3, Plans DEF PlanFacts
<1>5. Waiting(action, CallsOf(action), u, pair) \in Chain
  BY <1>3, <1>4, WaitingIsChain DEF TypeOK
<1>6. chain' \in [Chains -> Chain] /\ Others(c)
      /\ chain'[c] = Waiting(action, CallsOf(action), u, pair)
  BY <1>2, <1>5 DEF TypeOK, Others
<1>7. /\ chain'[c].calls = CallsOf(action) /\ chain'[c].action = action
      /\ chain'[c].used = pair /\ chain'[c].answer = "none" /\ chain'[c].got = None
      /\ chain'[c].as = u
  BY <1>6 DEF Waiting, Idle
<1>8. chain'[c] # Idle
  BY <1>4, <1>7 DEF Idle
<1>9. Head(CallsOf(action)) = "login" => chain'[c].as \in Users
  BY <1>2, <1>3, <1>7, Planned
<1>10. QED
  BY <1>1, <1>3, <1>6, <1>7, <1>8, <1>9 DEF Click

\* An answer changes nothing but the answer; a pair is issued once.
Serves(c) == ServeError(c) \/ ServeOk(c) \/ ServePair(c)

LEMMA ServeFacts ==
    ASSUME BaseInv, NEW c \in Chains, Serves(c)
    PROVE  /\ UNCHANGED <<page, calm>> /\ chain[c] # Idle /\ chain'[c] # Idle
           /\ chain' \in [Chains -> Chain] /\ Others(c)
           /\ chain'[c].calls = chain[c].calls /\ chain'[c].action = chain[c].action
           /\ chain'[c].used = chain[c].used /\ chain'[c].as = chain[c].as
           /\ owner' \in [Pairs -> Users \cup {None}]
           /\ \A p \in Pairs : owner[p] # None => owner'[p] = owner[p]
           /\ valid' \subseteq Pairs /\ fresh' \subseteq Pairs
           /\ \A p \in valid' \cup fresh' : owner'[p] # None
           /\ chain'[c].got # None => owner'[chain'[c].got] # None
           /\ chain'[c].answer = "ok" /\ Calls(c, {"login", "refresh"}) => chain'[c].got # None
           /\ chain'[c].answer = "ok" /\ ~Calls(c, {"login", "refresh", "register"}) =>
                 chain[c].used \in Pairs /\ owner'[chain[c].used] # None
<1> USE DEF BaseInv
<1>1. chain[c] # Idle /\ chain[c] \in Chain /\ Idle.calls = <<>> /\ chain[c].calls # <<>>
  BY Plans DEF Serves, ServeError, ServeOk, ServePair, InFlight, TypeOK, PlanInv, PlanFacts, Idle
<1>2. chain[c].got # None => owner[chain[c].got] # None
  BY DEF IssuedInv
<1>3. CASE ServeError(c)
  <2>1. [chain[c] EXCEPT !.answer = "error"] \in Chain
    BY <1>1 DEF Chain
  <2>2. chain'[c] = [chain[c] EXCEPT !.answer = "error"]
        /\ chain' \in [Chains -> Chain] /\ Others(c)
    BY <1>3, <2>1 DEF ServeError, TypeOK, Others
  <2>3. /\ chain'[c].calls = chain[c].calls /\ chain'[c].action = chain[c].action
        /\ chain'[c].used = chain[c].used /\ chain'[c].as = chain[c].as
        /\ chain'[c].got = chain[c].got
        /\ chain'[c].answer = "error"
    BY <1>1, <2>2 DEF Chain
  <2>4. fresh' \subseteq fresh
    BY <1>3 DEF ServeError
  <2>5. QED
    BY <1>1, <1>2, <1>3, <2>2, <2>3, <2>4 DEF ServeError, TypeOK, IssuedInv
<1>4. CASE ServeOk(c)
  <2>1. [chain[c] EXCEPT !.answer = "ok"] \in Chain
    BY <1>1 DEF Chain
  <2>2. chain'[c] = [chain[c] EXCEPT !.answer = "ok"] /\ chain' \in [Chains -> Chain] /\ Others(c)
    BY <1>4, <2>1 DEF ServeOk, TypeOK, Others
  <2>3. /\ chain'[c].calls = chain[c].calls /\ chain'[c].action = chain[c].action
        /\ chain'[c].used = chain[c].used /\ chain'[c].as = chain[c].as
        /\ chain'[c].got = chain[c].got
        /\ chain'[c].answer = "ok"
    BY <1>1, <2>2 DEF Chain
  <2>4. valid' \subseteq valid /\ fresh' \subseteq fresh
    BY <1>4 DEF ServeOk
  <2>5. Head(chain[c].calls) = "register" \/ (Head(chain[c].calls) \in Single \cup {"me", "decide"}
                                              /\ chain[c].used \in valid)
    BY <1>4 DEF ServeOk, InFlight
  <2>6. /\ ~Calls(c, {"login", "refresh"})
        /\ ~Calls(c, {"login", "refresh", "register"}) => chain[c].used \in valid
    BY <1>1, <2>5 DEF Calls, Single
  <2>7. QED
    BY <1>1, <1>2, <1>4, <2>2, <2>3, <2>4, <2>6 DEF ServeOk, TypeOK, IssuedInv
<1>5. CASE ServePair(c)
  <2>1. Head(chain[c].calls) \in {"login", "refresh"} /\ Calls(c, {"login", "refresh"})
    BY <1>1, <1>5 DEF ServePair, InFlight, Calls
  <2>2. PICK p \in Pairs :
          /\ owner[p] = None
          /\ owner' = [owner EXCEPT ![p] =
                IF InFlight(c, {"login"}) THEN chain[c].as ELSE owner[chain[c].used]]
          /\ valid' = valid \cup {p}
          /\ fresh' = (fresh \ (IF InFlight(c, {"refresh"}) THEN {chain[c].used} ELSE {})) \cup {p}
          /\ chain' = [chain EXCEPT ![c].answer = "ok", ![c].got = p]
    BY <1>5 DEF ServePair
  <2>3. [chain[c] EXCEPT !.answer = "ok", !.got = p] \in Chain
    BY <1>1 DEF Chain
  <2>4. chain'[c] = [chain[c] EXCEPT !.answer = "ok", !.got = p]
        /\ chain' \in [Chains -> Chain] /\ Others(c)
    BY <2>2, <2>3 DEF TypeOK, Others
  <2>5. /\ chain'[c].calls = chain[c].calls /\ chain'[c].action = chain[c].action
        /\ chain'[c].used = chain[c].used /\ chain'[c].as = chain[c].as /\ chain'[c].got = p
        /\ chain'[c].answer = "ok"
    BY <1>1, <2>4 DEF Chain
  <2>6. valid' \subseteq Pairs /\ fresh' \subseteq Pairs
    BY <2>2 DEF TypeOK
  <2>7. owner' \in [Pairs -> Users \cup {None}] /\ owner'[p] # None
        /\ \A q \in Pairs : q # p => owner'[q] = owner[q]
    <3>1. CASE Head(chain[c].calls) = "login"
      <4>1. InFlight(c, {"login"}) /\ chain[c].as \in Users
        BY <1>1, <1>5, <3>1 DEF ServePair, InFlight, IssuedInv, Calls
      <4>2. QED
        BY <2>2, <4>1, NoneIsNothing DEF TypeOK
    <3>2. CASE Head(chain[c].calls) = "refresh"
      <4>1. ~InFlight(c, {"login"}) /\ chain[c].used \in fresh
        BY <1>1, <1>5, <3>2 DEF ServePair, InFlight
      <4>2. chain[c].used \in Pairs /\ owner[chain[c].used] \in Users
        BY <4>1 DEF TypeOK, IssuedInv
      <4>3. QED
        BY <2>2, <4>1, <4>2, NoneIsNothing DEF TypeOK
    <3>3. QED
      BY <2>1, <3>1, <3>2
  <2>8. \A q \in Pairs : owner[q] # None => owner'[q] = owner[q]
    BY <2>2, <2>7
  <2>9. \A q \in valid' \cup fresh' : owner'[q] # None
    BY <2>2, <2>6, <2>7 DEF IssuedInv
  <2>10. p # None /\ chain'[c] # Idle
    BY <1>1, <2>5, NoneIsNothing
  <2>11. UNCHANGED <<page, calm>>
    BY <1>5 DEF ServePair
  <2>12. QED
    BY <1>1, <2>1, <2>4, <2>5, <2>6, <2>7, <2>8, <2>9, <2>10, <2>11 DEF Calls
<1>6. QED
  BY <1>3, <1>4, <1>5 DEF Serves
LEMMA BaseInit == Init => BaseInv
<1> SUFFICES ASSUME Init PROVE BaseInv
  OBVIOUS
<1>1. TypeOK
  BY IdleIsChain, ShownType DEF Init, TypeOK
<1>2. PlanInv /\ IssuedInv
  BY DEF Init, PlanInv, IssuedInv, Idle, Calls
<1>3. QED
  BY <1>1, <1>2 DEF BaseInv

\* A load of the page leaves no handler but the one that it starts.
LEMMA ReloadFacts ==
    ASSUME TypeOK, Reload
    PROVE  /\ chain' \in [Chains -> Chain]
           /\ \A c \in Chains : chain'[c] = Idle \/
                 /\ chain'[c] # Idle /\ Plan(chain'[c].action, chain'[c].calls) /\ pair # None
                 /\ Head(chain'[c].calls) = "me" /\ chain'[c].used = pair
                 /\ chain'[c].answer = "none" /\ chain'[c].got = None
           /\ \A c, d \in Chains : chain'[c] # Idle /\ chain'[d] # Idle => c = d
<1> DEFINE start == Waiting("start", CallsOf("start"), None, pair)
<1>1. PICK s \in Chains :
          chain' = [c \in Chains |-> IF c = s /\ pair # None THEN start ELSE Idle]
  BY DEF Reload
<1>2. CallsOf("start") = <<"me">>
  BY DEF CallsOf
<1>3. <<"me">> \in Seq(CallNames) /\ Head(<<"me">>) = "me" /\ <<"me">> # <<>>
  BY OneCall DEF CallNames
<1>4. start \in Chain
  BY <1>2, <1>3, WaitingIsChain DEF TypeOK
<1>5. /\ start.action = "start" /\ start.calls = <<"me">> /\ start.used = pair
      /\ start.answer = "none" /\ start.got = None
  BY <1>2 DEF Waiting, Idle
<1>6. start # Idle /\ Plan(start.action, start.calls)
  BY <1>3, <1>5 DEF Idle, Plan
<1>7. chain' \in [Chains -> Chain]
  BY <1>1, <1>4, IdleIsChain
<1>8. \A c \in Chains : chain'[c] = IF c = s /\ pair # None THEN start ELSE Idle
  BY <1>1
<1>9. QED
  BY <1>3, <1>5, <1>6, <1>7, <1>8

\* One step per group of actions; what each does is stated by the lemmas above.
LEMMA BaseStep == BaseInv /\ [Next]_vars => BaseInv'
<1> SUFFICES ASSUME BaseInv, [Next]_vars PROVE BaseInv'
  OBVIOUS
<1> USE DEF BaseInv
<1>1. ASSUME NEW c \in Chains, Click(c) PROVE BaseInv'
  <2>1. TypeOK'
    <3>1. calm' \in BOOLEAN
      <4>1. calm' = (calm /\ \A d \in Chains : chain[d] = Idle)
        BY <1>1, ClickFacts
      <4>2. QED
        BY <4>1, Zenon
    <3>2. UNCHANGED <<server, page>> /\ chain' \in [Chains -> Chain]
      BY <1>1, ClickFacts
    <3>3. QED
      BY <3>1, <3>2 DEF TypeOK, server, page, table
  <2>2. PlanInv'
    BY <1>1, ClickFacts DEF PlanInv, Others
  <2>3. IssuedInv'
    <3>1. \A d \in Chains : d # c => chain'[d] = chain[d]
      BY <1>1, ClickFacts DEF Others
    <3>2. /\ chain'[c].got = None /\ chain'[c].answer = "none"
          /\ Calls(c, {"login"})' => chain'[c].as \in Users
      BY <1>1, ClickFacts DEF Calls
    <3>3. UNCHANGED <<owner, valid, fresh, pair>>
      BY <1>1, ClickFacts DEF server, page
    <3>4. QED
      BY <3>1, <3>2, <3>3 DEF IssuedInv, Calls
  <2>4. QED
    BY <2>1, <2>2, <2>3
<1>2. ASSUME NEW c \in Chains, Serves(c) PROVE BaseInv'
  <2>1. TypeOK'
    BY <1>2, ServeFacts DEF TypeOK, page, table
  <2>2. PlanInv'
    BY <1>2, ServeFacts DEF PlanInv, Others
  <2>3. IssuedInv'
    <3>1. \A d \in Chains : d # c => chain'[d] = chain[d]
      BY <1>2, ServeFacts DEF Others
    <3>2. /\ chain'[c].got # None => owner'[chain'[c].got] # None
          /\ Calls(c, {"login"})' => chain'[c].as \in Users
          /\ chain'[c].answer = "ok" /\ Calls(c, {"login", "refresh"})' => chain'[c].got # None
          /\ chain'[c].answer = "ok" /\ ~Calls(c, {"login", "refresh", "register"})' =>
                chain'[c].used \in Pairs /\ owner'[chain'[c].used] # None
      BY <1>2, ServeFacts DEF Calls, IssuedInv
    <3>3. pair' = pair /\ pair \in Pairs \cup {None}
      BY <1>2, ServeFacts DEF page, TypeOK
    <3>4. \A p \in Pairs : owner[p] # None => owner'[p] = owner[p]
      BY <1>2, ServeFacts
    <3>5. \A d \in Chains : chain[d].got \in Pairs \cup {None}
      BY DEF TypeOK, Chain
    <3>6. \A p \in valid' \cup fresh' : owner'[p] # None
      BY <1>2, ServeFacts
    <3>7. QED
      BY <3>1, <3>2, <3>3, <3>4, <3>5, <3>6 DEF IssuedInv, Calls
  <2>4. QED
    BY <2>1, <2>2, <2>3
<1>3. ASSUME NEW c \in Chains, Received(c) PROVE BaseInv'
  <2>1. TypeOK'
    BY <1>3, ReceivedMoves, ReceivedPage DEF TypeOK, PageOK, server
  <2>2. PlanInv'
    BY <1>3, ReceivedMoves DEF PlanInv, Others, NextCall
  <2>3. IssuedInv'
    <3>1. \A d \in Chains : d # c => chain'[d] = chain[d]
      BY <1>3, ReceivedMoves DEF Others
    <3>2. /\ chain'[c].got = None /\ chain'[c].answer = "none"
          /\ ~Calls(c, {"login"})'
      BY <1>3, ReceivedMoves DEF Calls, NextCall, Idle
    <3>3. UNCHANGED <<owner, valid, fresh>> /\ (pair' # None => owner[pair'] # None)
      BY <1>3, ReceivedMoves, ReceivedPage DEF server, PageOK
    <3>4. QED
      BY <3>1, <3>2, <3>3 DEF IssuedInv, Calls
  <2>4. QED
    BY <2>1, <2>2, <2>3
<1>4. ASSUME NEW p \in Pairs, Expire(p) PROVE BaseInv'
  BY <1>4 DEF Expire, page, table, TypeOK, PlanInv, IssuedInv, Calls
<1>5. CASE ClickRefused
  BY <1>5 DEF ClickRefused, server, table, TypeOK, PlanInv, IssuedInv, Calls
<1>6. CASE ScreenSignedOut
  BY <1>6, ShownType DEF ScreenSignedOut, server, table, TypeOK, PlanInv, IssuedInv, Calls
<1>7. CASE Reload
  <2>1. UNCHANGED <<owner, valid, fresh, pair>>
    BY <1>7 DEF Reload, server
  <2>2. TypeOK'
    BY <1>7, <2>1, ReloadFacts, ShownType DEF Reload, TypeOK
  <2>3. PlanInv' /\ IssuedInv'
    BY <1>7, <2>1, ReloadFacts DEF PlanInv, IssuedInv, Calls, Idle
  <2>4. QED
    BY <2>2, <2>3
<1>8. CASE UNCHANGED vars
  BY <1>8 DEF vars, server, page, table, TypeOK, PlanInv, IssuedInv, Calls
<1>9. QED
  BY <1>1, <1>2, <1>3, <1>4, <1>5, <1>6, <1>7, <1>8 DEF Next, Serves, Received

LEMMA BaseInvariant == Spec => []BaseInv
BY BaseInit, BaseStep, PTL DEF Spec

\* Pages, profiles, handlers and tokens stay what they are declared to be, for
\* every order of clicks and answers.
THEOREM TypeCorrect == Spec => []TypeOK
<1>1. BaseInv => TypeOK
  BY DEF BaseInv
<1>2. QED
  BY <1>1, BaseInvariant, PTL
-----------------------------------------------------------------------------
LEMMA PageInit == Init => PageInv
<1> SUFFICES ASSUME Init PROVE PageInv
  OBVIOUS
<1>1. ShellInv /\ ProfileMatchesToken
  BY DEF Init, ShellInv, ProfileMatchesToken
<1>2. CalmInv
  BY DEF Init, CalmInv, Calls
<1>3. SignedOutInv
  BY DEF Init, SignedOutInv
<1>4. QED
  BY <1>1, <1>2, <1>3 DEF PageInv

\* A click, an answer or the end of a token: the page is as it was.
LEMMA ClickKeeps ==
    ASSUME BaseInv, PageInv, NEW c \in Chains, Click(c)
    PROVE  PageInv'
<1> USE DEF BaseInv, PageInv
<1>1. \A d \in Chains : d # c => chain'[d] = chain[d]
  BY ClickFacts DEF Others
<1>2. UNCHANGED <<server, page>> /\ chain[c] = Idle
  BY ClickFacts
<1>3. Loading => Loading'
  BY <1>1, <1>2 DEF Loading, Calls
<1>4. ShellInv'
  BY <1>2, <1>3 DEF ShellInv, page
<1>5. calm' => calm /\ \A d \in Chains : chain[d] = Idle
  BY ClickFacts
<1>6. calm' => shell = Shown(pair, user)
  BY <1>5 DEF ShellInv, Loading, Calls
<1>7. CalmInv'
  <2> SUFFICES ASSUME calm'
               PROVE  /\ \A d, e \in Chains : chain'[d] # Idle /\ chain'[e] # Idle => d = e
                      /\ \A d \in Chains : /\ chain'[d] # Idle => chain'[d].used = pair
                                           /\ Calls(d, {"login", "refresh"})' => user = None
    BY <1>2 DEF CalmInv, page
  <2>1. PICK action \in Buttons :
          /\ Enabled(action) /\ (action \in NeedsToken => pair # None)
          /\ chain'[c].calls = CallsOf(action) /\ chain'[c].used = pair
    BY ClickFacts
  <2>2. \A d \in Chains : chain'[d] # Idle => d = c
    BY <1>1, <1>5
  <2>3. ASSUME Head(CallsOf(action)) \in {"login", "refresh"} PROVE user = None
    <3>1. action \in {"login", "rotate"}
      BY <2>3, Planned
    <3>2. ~shell.signedIn
      BY <2>1, <3>1 DEF Enabled
    <3>3. pair = None
      <4>1. Shown(pair, user).signedIn = (pair # None)
        BY DEF Shown
      <4>2. ~Shown(pair, user).signedIn
        BY <1>5, <1>6, <3>2
      <4>3. QED
        BY <4>1, <4>2, Zenon
    <3>4. QED
      BY <1>5, <3>3 DEF ProfileMatchesToken
  <2>4. QED
    BY <2>1, <2>2, <2>3 DEF Calls
<1>8. SignedOutInv'
  BY <1>2, <1>3, <1>5 DEF SignedOutInv, page, table
<1>9. ProfileMatchesToken'
  BY <1>2, <1>5 DEF ProfileMatchesToken, page, server
<1>10. QED
  BY <1>4, <1>7, <1>8, <1>9

\* An answer that has not been read does not show.
LEMMA ServeKeeps ==
    ASSUME BaseInv, PageInv, NEW c \in Chains, Serves(c)
    PROVE  PageInv'
<1> USE DEF BaseInv, PageInv
<1>1. \A d \in Chains : d # c => chain'[d] = chain[d]
  BY ServeFacts DEF Others
<1>2. /\ UNCHANGED <<page, calm>> /\ chain[c] # Idle /\ chain'[c] # Idle
      /\ chain'[c].calls = chain[c].calls /\ chain'[c].used = chain[c].used
  BY ServeFacts
<1>3. \A d \in Chains : \A names : Calls(d, names)' <=> Calls(d, names)
  BY <1>1, <1>2 DEF Calls
<1>4. Loading' <=> Loading
  BY <1>3 DEF Loading
<1>5. ShellInv'
  BY <1>2, <1>4 DEF ShellInv, page
<1>6. CalmInv'
  <2>1. \A d \in Chains : /\ chain'[d] # Idle <=> chain[d] # Idle
                          /\ chain'[d].used = chain[d].used
    BY <1>1, <1>2
  <2>2. QED
    BY <1>2, <1>3, <2>1 DEF CalmInv, page
<1>7. SignedOutInv'
  BY <1>2, <1>4 DEF SignedOutInv, page, table
<1>8. ProfileMatchesToken'
  <2>1. \A p \in Pairs : owner[p] # None => owner'[p] = owner[p]
    BY ServeFacts
  <2>2. pair \in Pairs \cup {None} /\ (pair # None => owner[pair] # None)
    BY DEF TypeOK, IssuedInv
  <2>3. QED
    BY <1>2, <2>1, <2>2 DEF ProfileMatchesToken, page
<1>9. QED
  BY <1>5, <1>6, <1>7, <1>8

\* The code after an await: it sets the shell, or another /auth/me is on its way.
LEMMA ReceivedKeeps ==
    ASSUME BaseInv, PageInv, NEW c \in Chains, Received(c)
    PROVE  PageInv'
<1> USE DEF BaseInv, PageInv
<1>1. /\ UNCHANGED <<server, calm>> /\ chain[c] # Idle
      /\ \A d \in Chains : d # c => chain'[d] = chain[d]
      /\ chain'[c] = Idle \/ NextCall(chain'[c], pair')
  BY ReceivedMoves DEF Others
<1>2. /\ chain[c].answer \in {"ok", "error"} /\ Plan(chain[c].action, chain[c].calls)
  BY <1>1 DEF PlanInv, Received, PairReceived, MeReceived, MeFailed, LoansReceived, AuditReceived,
         LoadFailed, CallDone, FormDone, CallFailed, LogoutReceived, Answered
<1>3. Loading /\ Head(chain[c].calls) # "me" => Loading'
  BY <1>1 DEF Loading, Calls
<1>4. ASSUME Head(chain[c].calls) \in {"login", "refresh"}, chain'[c] # Idle,
             Head(chain'[c].calls) = "me"
      PROVE  Loading'
  BY <1>4 DEF Loading, Calls
<1>5. calm => \A d \in Chains : d # c => chain'[d] = Idle /\ chain[d] = Idle
  BY <1>1 DEF CalmInv
<1>6. CalmInv'
  <2>1. ~Calls(c, {"login", "refresh"})' /\ (chain'[c] # Idle => chain'[c].used = pair')
    BY <1>1 DEF Calls, NextCall
  <2>2. \A d \in Chains : calm /\ chain'[d] # Idle => d = c
    BY <1>5
  <2>3. QED
    BY <1>1, <2>1, <2>2 DEF CalmInv, Calls
<1>7. CASE PairReceived(c)
  <2>1. /\ Head(chain[c].calls) \in {"login", "refresh"} /\ chain[c].answer = "ok"
        /\ pair' = chain[c].got /\ UNCHANGED <<user, table, audit, shell>>
    BY <1>7 DEF PairReceived, Answered
  <2>2. chain'[c] # Idle /\ Head(chain'[c].calls) = "me" /\ status' = status
    <3>1. chain[c].got \in Pairs
      BY <1>1, <2>1, Waited
    <3>2. Calls(c, {"login", "refresh"}) /\ GoOn(c, chain[c].got, user, status)
      BY <1>1, <1>7, <2>1 DEF Calls, PairReceived
    <3>3. QED
      BY <1>1, <3>1, <3>2, Goes
  <2>3. Loading'
    BY <1>4, <2>1, <2>2
  <2>4. ShellInv'
    BY <2>3 DEF ShellInv
  <2>5. SignedOutInv'
    BY <1>1, <2>1, <2>2, <2>3 DEF SignedOutInv, table
  <2>6. calm => user = None
    BY <1>1, <2>1 DEF CalmInv, Calls
  <2>7. ProfileMatchesToken'
    BY <1>1, <2>1, <2>6 DEF ProfileMatchesToken
  <2>8. QED
    BY <1>6, <2>4, <2>5, <2>7
<1>8. ASSUME status' # "signedOut", shell' = Shown(pair', user'),
             calm /\ user' # None => pair' # None /\ owner[pair'] = user'
      PROVE  PageInv'
  BY <1>1, <1>6, <1>8 DEF ShellInv, SignedOutInv, ProfileMatchesToken, server
<1>9. CASE MeReceived(c)
  <2>1. status' \in {"error", "ok"}
    BY <1>1, <1>9, Goes DEF MeReceived, TypeOK
  <2>2. user' = owner[chain[c].used] /\ shell' = Shown(pair, user') /\ pair' = pair
        /\ Head(chain[c].calls) = "me" /\ chain[c].answer = "ok"
    BY <1>9 DEF MeReceived, Answered
  <2>3. calm => chain[c].used = pair
    BY <1>1 DEF CalmInv
  <2>4. chain[c].used \in Pairs
    BY <1>1, <2>2, Waited
  <2>5. QED
    BY <1>8, <2>1, <2>2, <2>3, <2>4, NoneIsNothing
<1>10. CASE MeFailed(c)
  <2>1. status' \in {"error", "ok"}
    BY <1>1, <1>10, Goes DEF MeFailed
  <2>2. QED
    BY <1>8, <1>10, <2>1 DEF MeFailed
<1>11. CASE LoansReceived(c) \/ AuditReceived(c)
  <2>1. status' \in {"error", "ok"}
    BY <1>1, <1>11, Goes DEF LoansReceived, AuditReceived, TypeOK
  <2>2. pair' = pair /\ user' = user /\ shell' = Shown(pair, user)
    BY <1>11 DEF LoansReceived, AuditReceived
  <2>3. QED
    BY <1>8, <2>1, <2>2 DEF ProfileMatchesToken
<1>12. CASE LoadFailed(c) \/ CallDone(c) \/ FormDone(c) \/ CallFailed(c)
  <2>1. status' \in {"error", "ok"}
    BY <1>1, <1>12, Goes DEF LoadFailed, CallDone, FormDone, CallFailed, TypeOK
  <2>2. UNCHANGED <<pair, user, shell>> /\ Head(chain[c].calls) # "me"
    BY <1>12 DEF LoadFailed, CallDone, FormDone, CallFailed, Answered
  <2>3. ShellInv'
    BY <1>3, <2>2 DEF ShellInv
  <2>4. SignedOutInv' /\ ProfileMatchesToken'
    BY <1>1, <2>1, <2>2 DEF SignedOutInv, ProfileMatchesToken, server
  <2>5. QED
    BY <1>6, <2>3, <2>4
<1>13. CASE LogoutReceived(c)
  <2>1. /\ {pair', user', loans', controls', audit'} = {None}
        /\ shell' = Shown(None, None)
    BY <1>13 DEF LogoutReceived
  <2>2. QED
    BY <1>6, <2>1 DEF ShellInv, SignedOutInv, ProfileMatchesToken
<1>14. QED
  BY <1>7, <1>9, <1>10, <1>11, <1>12, <1>13 DEF Received

\* The other steps change no handler, or end them all.
LEMMA PageStep == BaseInv /\ PageInv /\ [Next]_vars => PageInv'
<1> SUFFICES ASSUME BaseInv, PageInv, [Next]_vars PROVE PageInv'
  OBVIOUS
<1> USE DEF BaseInv, PageInv
<1>1. ASSUME UNCHANGED <<owner, pair, chain, calm>>,
             UNCHANGED <<user, shell>> \/ (user' = None /\ shell' = Shown(pair', user')),
             UNCHANGED <<loans, controls, audit>>, status' \in {status, "error"}
      PROVE  PageInv'
  <2>1. \A d \in Chains : \A names : Calls(d, names)' <=> Calls(d, names)
    BY <1>1 DEF Calls
  <2>2. Loading' <=> Loading
    BY <2>1 DEF Loading
  <2>3. CalmInv'
    BY <1>1, <2>1 DEF CalmInv
  <2>4. ShellInv'
    BY <1>1, <2>2 DEF ShellInv
  <2>5. SignedOutInv' /\ ProfileMatchesToken'
    BY <1>1, <2>2 DEF SignedOutInv, ProfileMatchesToken
  <2>6. QED
    BY <2>3, <2>4, <2>5
<1>2. CASE (\E p \in Pairs : Expire(p)) \/ UNCHANGED vars
  BY <1>1, <1>2 DEF Expire, vars, server, page, table
<1>3. CASE ClickRefused
  BY <1>1, <1>3 DEF ClickRefused, server, table
<1>4. CASE ScreenSignedOut
  BY <1>1, <1>4 DEF ScreenSignedOut, server, table
<1>5. CASE Reload
  <2>1. /\ shell' = Shown(pair', user') /\ user' = None /\ status' = "none" /\ pair' = pair
    BY <1>5 DEF Reload
  <2>2. CalmInv'
    BY <1>5, <2>1, ReloadFacts DEF CalmInv, Calls
  <2>3. QED
    BY <2>1, <2>2 DEF ShellInv, SignedOutInv, ProfileMatchesToken
<1>6. QED
  BY <1>2, <1>3, <1>4, <1>5, ClickKeeps, ServeKeeps, ReceivedKeeps DEF Next, Serves, Received

LEMMA PageInvariant == Spec => [](BaseInv /\ PageInv)
<1>1. Init => BaseInv /\ PageInv
  BY BaseInit, PageInit
<1>2. BaseInv /\ PageInv /\ [Next]_vars => (BaseInv /\ PageInv)'
  BY BaseStep, PageStep
<1>3. QED
  BY <1>1, <1>2, PTL DEF Spec

\* The page's profile is the owner of its tokens, whatever fails or expires, as long
\* as nobody clicks while a handler waits.
THEOREM ProfileIsOwner == Spec => []ProfileMatchesToken
<1>1. PageInv => ProfileMatchesToken
  BY DEF PageInv
<1>2. QED
  BY <1>1, PageInvariant, PTL

\* "Signed out." leaves nothing of the last user behind.
THEOREM SignOutCleans == Spec => []SignedOutIsClean
<1>1. PageInv => SignedOutIsClean
  BY DEF PageInv, SignedOutInv, SignedOutIsClean, AllIdle, Loading, Calls
<1>2. QED
  BY <1>1, PageInvariant, PTL

\* However handlers overlap, what updateShell showed last fits the page when
\* the last of them is through.
THEOREM ShellFits == Spec => []ShellMatches
<1>1. PageInv => ShellMatches
  BY DEF PageInv, ShellInv, ShellMatches, AllIdle, Loading, Calls
<1>2. QED
  BY <1>1, PageInvariant, PTL
=============================================================================
