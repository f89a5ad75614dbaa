--------------------------- MODULE SessionProofs ---------------------------
(***************************************************************************)
(* Proofs about the session of the web UI, for every number of tabs,       *)
(* logins, requests, loads and faults.                                     *)
(***************************************************************************)
EXTENDS Session, TLAPS

\* What a page of a tab says of the requests in flight there: the login page has
\* at most a login, AuthGuard's blank at most its check, and only the content, or
\* what is left of it while the browser loads /login, has requests of the pages.
Fits(pg, cs) ==
  /\ pg = "login" => \A c \in cs : c.kind = "login"
  /\ pg = "checking" => \A c \in cs : c.kind = "check"
  /\ pg \in {"content", "leaving"} => \A c \in cs : c.kind = "api"
  /\ pg \in {"login", "checking"} => \A c, d \in cs : c = d

\* A request carries a token that was issued, a refused one none that is accepted
\* now or later, and a successful login brings a token.
Credible(c, n, e) ==
  /\ c \in Call
  /\ c.token <= n
  /\ c.kind /= "login" /\ c.answer = "refused" => c.token <= e
  /\ c.kind = "login" /\ c.answer = "ok" => c.token /= None

\* A tab with page pg and requests cs, when n tokens are issued and e expired.
TabOK(pg, cs, n, e) ==
  /\ pg \in Pages
  /\ Fits(pg, cs)
  /\ \A c \in cs : Credible(c, n, e)

Scalars ==
  /\ stored \in 0..issued
  /\ owner \in Tabs
  /\ issued \in 0..MaxLogins
  /\ expired \in 0..issued
  /\ front \in Tabs
  /\ loads \in 0..MaxLoads
  /\ faults \in 0..MaxFaults

AllTabs ==
  /\ page \in [Tabs -> Pages]
  /\ calls \in [Tabs -> SUBSET Call]
  /\ \A t \in Tabs : TabOK(page[t], calls[t], issued, expired)

\* The inductive invariant.
SessionInv == Scalars /\ AllTabs /\ OwnRequestsAreCurrent

\* The bounds are natural numbers.
LEMMA BoundsAreNat ==
  MaxLogins \in Nat /\ MaxRequests \in Nat /\ MaxLoads \in Nat /\ MaxFaults \in Nat
BY SessionConstants

\* A step that changes at most one tab, to one that is in order, keeps all in order.
LEMMA OneTab ==
  ASSUME Scalars, AllTabs, NEW t \in Tabs, NEW pg, NEW cs, NEW n \in Nat, NEW e \in Nat,
         TabOK(pg, cs, n, e),
         page' = [page EXCEPT ![t] = pg], calls' = [calls EXCEPT ![t] = cs],
         issued' = n, expired' = e, issued <= n, expired <= e
  PROVE  AllTabs'
<1> USE BoundsAreNat
<1>1. cs \in SUBSET Call /\ pg \in Pages
  BY DEF TabOK, Credible
<1>2. page' \in [Tabs -> Pages] /\ calls' \in [Tabs -> SUBSET Call]
  BY <1>1 DEF AllTabs
<1>3. ASSUME NEW u \in Tabs
      PROVE  TabOK(page'[u], calls'[u], issued', expired')
  <2>1. CASE u = t
    BY <2>1 DEF AllTabs
  <2>2. CASE u /= t
    <3>1. page'[u] = page[u] /\ calls'[u] = calls[u]
      BY <2>2 DEF AllTabs
    <3>2. ASSUME NEW c \in calls[u] PROVE Credible(c, issued', expired')
      <4>1. Credible(c, issued, expired)
        BY DEF AllTabs, TabOK
      <4>2. c.token \in Nat /\ issued \in Nat /\ expired \in Nat
        BY <4>1 DEF Credible, Call, Tokens, None, Scalars
      <4> QED BY <4>1, <4>2 DEF Credible
    <3> QED BY <3>1, <3>2 DEF AllTabs, TabOK
  <2> QED BY <2>1, <2>2
<1> QED BY <1>2, <1>3 DEF AllTabs

\* What the invariant says of a tab and of a request in flight.
LEMMA InFlight ==
  ASSUME SessionInv, NEW t \in Tabs, NEW c \in calls[t]
  PROVE  /\ c \in Call /\ Credible(c, issued, expired)
         /\ c.kind \in Kinds /\ c.answer \in Answers
         /\ c.token \in 0..issued
         /\ TabOK(page[t], calls[t], issued, expired)
BY BoundsAreNat DEF SessionInv, Scalars, AllTabs, TabOK, Credible, Call, Tokens, None

\* A request that gets its answer keeps the tab in order.
LEMMA AnsweredTab ==
  ASSUME SessionInv, NEW t \in Tabs, NEW c \in calls[t], NEW d, NEW n \in Nat,
         issued <= n, Credible(d, n, expired), d.kind = c.kind
  PROVE  TabOK(page[t], (calls[t] \ {c}) \cup {d}, n, expired)
<1>1. Fits(page[t], calls[t]) /\ page[t] \in Pages
  BY InFlight DEF TabOK
<1>2. Fits(page[t], (calls[t] \ {c}) \cup {d})
  BY <1>1 DEF Fits
<1>3. ASSUME NEW x \in calls[t] PROVE Credible(x, n, expired)
  <2>1. Credible(x, issued, expired) /\ x.token \in Nat /\ issued \in Nat
    BY InFlight, BoundsAreNat DEF SessionInv, Scalars
  <2> QED BY <2>1 DEF Credible
<1> QED BY <1>1, <1>2, <1>3 DEF TabOK

\* Dropping requests keeps the tab in order.
LEMMA FewerCalls ==
  ASSUME NEW pg, NEW cs, NEW ds \in SUBSET cs, NEW n, NEW e, TabOK(pg, cs, n, e)
  PROVE  TabOK(pg, ds, n, e)
BY DEF TabOK, Fits
-----------------------------------------------------------------------------
\* The state the UI starts in satisfies the invariant.
LEMMA InitSessionInv == Init => SessionInv
<1> SUFFICES ASSUME Init PROVE SessionInv
  OBVIOUS
<1>1. owner \in Tabs
  BY SessionConstants DEF Init
<1>2. Scalars
  BY <1>1, BoundsAreNat DEF Init, Scalars, None
<1>3. AllTabs
  BY DEF Init, AllTabs, TabOK, Fits, Pages
<1> QED BY <1>2, <1>3 DEF Init, SessionInv, OwnRequestsAreCurrent

\* AuthGuard's mount leaves the tab with its check, if there is a token.
LEMMA Mounted ==
  ASSUME SessionInv, NEW t \in Tabs, NEW token \in 0..issued, MountGuard(t, token, {}),
         issued' = issued, expired' = expired
  PROVE  /\ AllTabs'
         /\ \A c \in calls'[t] : c.token = token
         /\ \A u \in Tabs \ {t} : calls'[u] = calls[u]
<1> USE BoundsAreNat
<1>1. /\ issued \in Nat /\ expired \in Nat /\ issued <= MaxLogins
      /\ issued <= issued /\ expired <= expired
  BY DEF SessionInv, Scalars
<1>2. CASE token = None
  <2>1. TabOK("login", {}, issued, expired)
    BY DEF TabOK, Fits, Pages
  <2>2. page' = [page EXCEPT ![t] = "login"] /\ calls' = [calls EXCEPT ![t] = {}]
    BY <1>2 DEF MountGuard
  <2>3. AllTabs'
    BY <1>1, <2>1, <2>2, OneTab DEF SessionInv
  <2> QED BY <2>2, <2>3 DEF SessionInv, AllTabs
<1>3. CASE token /= None
  <2> DEFINE r == Request("check", token)
  <2>1. r \in Call /\ r.kind = "check" /\ r.token = token /\ r.answer = "pending"
    BY <1>1 DEF Request, Call, Kinds, Answers, Tokens, None
  <2> HIDE DEF r
  <2>2. Credible(r, issued, expired)
    BY <1>1, <2>1 DEF Credible
  <2>3. TabOK("checking", {r}, issued, expired)
    BY <2>1, <2>2 DEF TabOK, Fits, Pages
  <2>4. page' = [page EXCEPT ![t] = "checking"] /\ calls' = [calls EXCEPT ![t] = {r}]
    BY <1>3 DEF MountGuard, r
  <2>5. AllTabs'
    BY <1>1, <2>3, <2>4, OneTab DEF SessionInv
  <2> QED BY <2>1, <2>4, <2>5 DEF SessionInv, AllTabs
<1> QED BY <1>2, <1>3
\* The requests cs add to those of tab t only logins, requests with the token in
\* storage, or answers.
Extends(t, cs) ==
  \A d \in cs : \/ d.kind = "login"
                \/ d.token = stored
                \/ \E c \in calls[t] : c.kind = d.kind /\ c.token = d.token

\* While the token stays, the tab that stored it keeps requests with that token if
\* its requests are only so extended.
LEMMA KeepsOwn ==
  ASSUME SessionInv, stored' = stored, owner' = owner, NEW t \in Tabs, NEW cs,
         calls' = [calls EXCEPT ![t] = cs], Extends(t, cs)
  PROVE  OwnRequestsAreCurrent'
BY DEF Extends, SessionInv, Scalars, AllTabs, OwnRequestsAreCurrent

\* A new request of a page, or a login, keeps the invariant.
LEMMA NewRequest ==
  ASSUME SessionInv, NEW t \in Tabs, handleSubmit(t) \/ request(t)
  PROVE  SessionInv'
<1>1. PICK k \in {"login", "api"} :
        /\ calls' = [calls EXCEPT ![t] = calls[t] \cup {Request(k, stored)}]
        /\ k = "login" => page[t] = "login" /\ \A c \in calls[t] : c.kind /= "login"
        /\ k = "api" => page[t] = "content"
  BY DEF handleSubmit, request
<1>2. /\ UNCHANGED <<stored, owner, issued, expired, page, front, loads, faults>>
      /\ page' = [page EXCEPT ![t] = page[t]]
  BY DEF handleSubmit, request, server, SessionInv, AllTabs
<1> DEFINE r == Request(k, stored)
           cs == calls[t] \cup {r}
<1>3. /\ issued \in Nat /\ expired \in Nat /\ stored \in 0..issued /\ issued <= MaxLogins
      /\ MaxLogins \in Nat /\ issued <= issued /\ expired <= expired
  BY BoundsAreNat DEF SessionInv, Scalars
<1>4. r \in Call /\ r.kind = k /\ r.token = stored /\ r.answer = "pending"
  BY <1>3 DEF Request, Call, Kinds, Answers, Tokens, None
<1> HIDE DEF r
<1>5. Credible(r, issued, expired)
  BY <1>3, <1>4 DEF Credible
<1>6. TabOK(page[t], calls[t], issued, expired)
  BY DEF SessionInv, AllTabs
<1>7. TabOK(page[t], cs, issued, expired)
  <2>1. Fits(page[t], cs)
    BY <1>1, <1>4, <1>6 DEF TabOK, Fits
  <2> QED BY <2>1, <1>5, <1>6 DEF TabOK
<1>8. calls' = [calls EXCEPT ![t] = cs]
  BY <1>1 DEF r
<1> HIDE DEF cs
<1>9. AllTabs'
  BY <1>2, <1>3, <1>7, <1>8, OneTab DEF SessionInv
<1>10. OwnRequestsAreCurrent'
  <2>1. Extends(t, cs)
    BY <1>4 DEF Extends, cs
  <2> QED BY <2>1, <1>2, <1>8, KeepsOwn
<1>11. Scalars'
  BY <1>2 DEF SessionInv, Scalars
<1> QED BY <1>9, <1>10, <1>11 DEF SessionInv

\* An answer of the server, or a fault on the way, keeps the invariant.
LEMMA Served ==
  ASSUME SessionInv, NEW t \in Tabs, NEW c \in calls[t],
         ServeLogin(t, c) \/ ServeAPI(t, c) \/ Fault(t, c)
  PROVE  SessionInv'
<1> USE BoundsAreNat
<1>1. /\ c \in Call /\ Credible(c, issued, expired) /\ c.token \in 0..issued
      /\ c.kind \in Kinds /\ c.answer \in Answers
  BY InFlight
<1>2. /\ issued \in Nat /\ expired \in 0..issued /\ issued <= MaxLogins
      /\ stored \in 0..issued /\ faults \in 0..MaxFaults
  BY DEF SessionInv, Scalars
<1>3. PICK d : /\ Becomes(t, c, d)
               /\ Credible(d, issued', expired)
               /\ d.kind = c.kind
               /\ d.kind = "login" \/ d.token = c.token
  <2>1. CASE ServeLogin(t, c) /\ issued' = issued + 1
             /\ Becomes(t, c, [c EXCEPT !.answer = "ok", !.token = issued + 1])
    <3> DEFINE d == [c EXCEPT !.answer = "ok", !.token = issued + 1]
    <3>1. (issued < MaxLogins /\ c.kind = "login") \/ issued' = issued
      BY <2>1 DEF ServeLogin
    <3>2. issued + 1 \in Tokens /\ c.kind = "login"
      BY <2>1, <3>1, <1>2 DEF ServeLogin, Tokens
    <3>3. d \in Call /\ d.kind = "login" /\ d.token = issued + 1 /\ d.answer = "ok"
      BY <1>1, <3>2 DEF Call, Answers
    <3>4. Credible(d, issued', expired)
      BY <3>3, <2>1, <1>2 DEF Credible, None
    <3> QED BY <2>1, <3>2, <3>3, <3>4
  <2>2. CASE /\ issued' = issued
             /\ \E a \in Answers : /\ Becomes(t, c, [c EXCEPT !.answer = a])
                                   /\ c.kind = "login" => a /= "ok"
                                   /\ c.kind /= "login" /\ a = "refused" => Refuses(c.token)
    <3>1. PICK a \in Answers : /\ Becomes(t, c, [c EXCEPT !.answer = a])
                               /\ c.kind = "login" => a /= "ok"
                               /\ c.kind /= "login" /\ a = "refused" => Refuses(c.token)
      BY <2>2
    <3> DEFINE d == [c EXCEPT !.answer = a]
    <3>2. d \in Call /\ d.kind = c.kind /\ d.token = c.token /\ d.answer = a
      BY <1>1, <3>1 DEF Call
    <3>3. Refuses(c.token) => c.token <= expired
      BY <1>1, <1>2 DEF Refuses, Valid
    <3>4. Credible(d, issued', expired)
      BY <3>1, <3>2, <3>3, <2>2, <1>1 DEF Credible
    <3> QED BY <3>1, <3>2, <3>4
  <2> QED BY <2>1, <2>2 DEF ServeLogin, ServeAPI, Fault, Answers, server
<1>4. /\ UNCHANGED <<stored, owner, expired, page, front, loads>>
      /\ issued' \in 0..MaxLogins /\ issued <= issued' /\ faults' \in 0..MaxFaults
  BY <1>2 DEF ServeLogin, ServeAPI, Fault, server
<1> DEFINE cs == (calls[t] \ {c}) \cup {d}
<1>5. TabOK(page[t], cs, issued', expired)
  BY <1>3, <1>4, AnsweredTab
<1>6. calls' = [calls EXCEPT ![t] = cs] /\ page' = [page EXCEPT ![t] = page[t]]
  BY <1>3, <1>4 DEF Becomes, SessionInv, AllTabs
<1>7. AllTabs'
  <2> HIDE DEF cs
  <2>1. issued' \in Nat /\ expired' = expired /\ expired \in Nat /\ expired <= expired
    BY <1>2, <1>4
  <2> QED BY <2>1, <1>4, <1>5, <1>6, OneTab DEF SessionInv
<1>8. OwnRequestsAreCurrent'
  <2>1. Extends(t, cs)
    BY <1>3 DEF Extends
  <2> HIDE DEF cs
  <2> QED BY <2>1, <1>4, <1>6, KeepsOwn
<1>9. Scalars'
  BY <1>2, <1>4 DEF SessionInv, Scalars
<1> QED BY <1>7, <1>8, <1>9 DEF SessionInv

\* A load by the user keeps the invariant.
LEMMA Loaded ==
  ASSUME SessionInv, NEW t \in Tabs, Load(t)
  PROVE  SessionInv'
<1>1. /\ MountGuard(t, stored, {}) /\ stored \in 0..issued
      /\ UNCHANGED <<stored, owner, issued, expired, front, faults>>
      /\ loads' \in 0..MaxLoads
  BY BoundsAreNat DEF Load, server, SessionInv, Scalars
<1>2. /\ AllTabs'
      /\ \A c \in calls'[t] : c.token = stored
      /\ \A u \in Tabs \ {t} : calls'[u] = calls[u]
  BY <1>1, Mounted
<1>3. OwnRequestsAreCurrent'
  BY <1>1, <1>2 DEF SessionInv, Scalars, OwnRequestsAreCurrent
<1>4. Scalars'
  BY <1>1 DEF SessionInv, Scalars
<1> QED BY <1>2, <1>3, <1>4 DEF SessionInv

\* A login that succeeded keeps the invariant: the tab has no request but this one.
LEMMA LoggedIn ==
  ASSUME SessionInv, NEW t \in Tabs, NEW c \in calls[t], AnswerLogin(t, c), c.answer = "ok"
  PROVE  SessionInv' /\ stored' /= None
<1>1. /\ Credible(c, issued, expired) /\ c.token \in 0..issued /\ c.kind = "login"
      /\ TabOK(page[t], calls[t], issued, expired)
  BY InFlight DEF AnswerLogin
<1>2. calls[t] \ {c} = {}
  BY <1>1 DEF TabOK, Fits, Pages
<1>3. /\ stored' = c.token /\ owner' = t /\ MountGuard(t, c.token, {})
      /\ UNCHANGED <<issued, expired, front, faults, loads>>
  BY <1>2 DEF AnswerLogin, server
<1>4. /\ AllTabs'
      /\ \A d \in calls'[t] : d.token = c.token
  BY <1>1, <1>3, Mounted
<1>5. OwnRequestsAreCurrent'
  BY <1>3, <1>4 DEF OwnRequestsAreCurrent
<1>6. Scalars'
  BY <1>1, <1>3 DEF SessionInv, Scalars
<1>7. stored' /= None
  BY <1>1, <1>3 DEF Credible
<1> QED BY <1>4, <1>5, <1>6, <1>7 DEF SessionInv

\* A tab that takes an answer, or leaves, for another page: its requests become
\* fewer, and the token stays or goes.
LEMMA Shrinks ==
  ASSUME SessionInv, NEW t \in Tabs, NEW pg, NEW cs \in SUBSET calls[t],
         page' = [page EXCEPT ![t] = pg], calls' = [calls EXCEPT ![t] = cs],
         TabOK(pg, cs, issued, expired),
         stored' = stored \/ stored' = None,
         UNCHANGED <<owner, issued, expired, front, faults, loads>>
  PROVE  SessionInv'
<1>1. /\ issued \in Nat /\ expired \in Nat /\ issued <= issued /\ expired <= expired
      /\ issued' = issued /\ expired' = expired /\ owner' = owner
  BY BoundsAreNat DEF SessionInv, Scalars
<1>2. AllTabs'
  BY <1>1, OneTab DEF SessionInv
<1>3. OwnRequestsAreCurrent'
  <2>1. CASE stored' = None
    BY <2>1 DEF OwnRequestsAreCurrent
  <2>2. CASE stored' = stored
    <3>1. Extends(t, cs)
      BY DEF Extends
    <3> QED BY <3>1, <2>2, <1>1, KeepsOwn
  <2> QED BY <2>1, <2>2
<1>4. Scalars'
  BY BoundsAreNat DEF SessionInv, Scalars, None
<1> QED BY <1>2, <1>3, <1>4 DEF SessionInv

\* Every other answer keeps the invariant.
LEMMA Taken ==
  ASSUME SessionInv, NEW t \in Tabs, NEW c \in calls[t],
         \/ AnswerLogin(t, c) /\ c.answer /= "ok"
         \/ AnswerCheck(t, c)
         \/ AnswerAPI(t, c)
  PROVE  SessionInv'
<1> DEFINE cs == calls[t] \ {c}
<1>1. TabOK(page[t], calls[t], issued, expired) /\ page \in [Tabs -> Pages]
  BY InFlight DEF SessionInv, AllTabs
<1>2. TabOK(page[t], cs, issued, expired)
  BY <1>1, FewerCalls
<1>3. PICK pg : /\ page' = [page EXCEPT ![t] = pg]
                /\ \/ pg = page[t]
                   \/ c.kind = "check" /\ pg \in {"login", "content"}
                   \/ c.kind = "api" /\ pg = "leaving"
  <2>1. CASE page' = page
    <3>1. page' = [page EXCEPT ![t] = page[t]]
      BY <2>1, <1>1
    <3> QED BY <3>1
  <2>2. CASE AnswerCheck(t, c)
    BY <2>2 DEF AnswerCheck
  <2>3. CASE AnswerAPI(t, c) /\ c.answer = "refused"
    BY <2>3 DEF AnswerAPI, Refused
  <2> QED BY <2>1, <2>2, <2>3 DEF AnswerLogin, AnswerAPI
<1>4. TabOK(pg, cs, issued, expired)
  <2>1. CASE pg = page[t]
    BY <2>1, <1>2
  <2>2. CASE c.kind = "check" /\ pg \in {"login", "content"}
    <3>1. cs = {}
      BY <2>2, <1>1 DEF TabOK, Fits, Pages
    <3> QED BY <3>1, <2>2 DEF TabOK, Fits, Pages
  <2>3. CASE c.kind = "api" /\ pg = "leaving"
    <3>1. \A d \in cs : d.kind = "api"
      BY <2>3, <1>1 DEF TabOK, Fits, Pages
    <3> QED BY <3>1, <2>3, <1>2 DEF TabOK, Fits, Pages
  <2> QED BY <2>1, <2>2, <2>3, <1>3
<1>5. /\ calls' = [calls EXCEPT ![t] = cs]
      /\ stored' = stored \/ stored' = None
      /\ UNCHANGED <<owner, issued, expired, front, faults, loads>>
  BY DEF AnswerLogin, AnswerCheck, AnswerAPI, Refused, Take, server
<1> HIDE DEF cs
<1>6. cs \in SUBSET calls[t]
  BY DEF cs
<1> QED BY <1>3, <1>4, <1>5, <1>6, Shrinks

\* Logging out and the load of /login keep the invariant.
LEMMA Left ==
  ASSUME SessionInv, NEW t \in Tabs, logout(t) \/ Leave(t)
  PROVE  SessionInv'
<1>1. TabOK(page[t], calls[t], issued, expired) /\ calls \in [Tabs -> SUBSET Call]
  BY DEF SessionInv, AllTabs
<1>2. CASE logout(t)
  <2>1. TabOK("leaving", calls[t], issued, expired)
    BY <1>1, <1>2 DEF logout, TabOK, Fits, Pages
  <2>2. /\ page' = [page EXCEPT ![t] = "leaving"]
        /\ calls' = [calls EXCEPT ![t] = calls[t]]
        /\ stored' = None
        /\ UNCHANGED <<owner, issued, expired, front, faults, loads>>
    BY <1>1, <1>2 DEF logout, server
  <2> QED BY <2>1, <2>2, Shrinks
<1>3. CASE Leave(t)
  <2>1. TabOK("login", {}, issued, expired)
    BY DEF TabOK, Fits, Pages
  <2>2. /\ page' = [page EXCEPT ![t] = "login"]
        /\ calls' = [calls EXCEPT ![t] = {}]
        /\ stored' = stored
        /\ UNCHANGED <<owner, issued, expired, front, faults, loads>>
    BY <1>3 DEF Leave, server
  <2>3. {} \in SUBSET calls[t]
    OBVIOUS
  <2> QED BY <2>1, <2>2, <2>3, Shrinks
<1> QED BY <1>2, <1>3

\* The end of a token's 24 hours keeps the invariant.
LEMMA Expired ==
  ASSUME SessionInv, Expire
  PROVE  SessionInv'
<1>1. /\ issued \in Nat /\ expired \in Nat /\ expired < issued /\ expired' = expired + 1
      /\ UNCHANGED <<stored, owner, issued, page, calls, front, faults, loads>>
  BY BoundsAreNat DEF Expire, SessionInv, Scalars
<1>2. Scalars' /\ OwnRequestsAreCurrent'
  BY <1>1 DEF SessionInv, Scalars, OwnRequestsAreCurrent
<1>3. ASSUME NEW t \in Tabs, NEW c \in calls[t]
      PROVE  Credible(c, issued, expired')
  <2>1. Credible(c, issued, expired) /\ c.token \in Nat
    BY <1>1, InFlight
  <2> QED BY <2>1, <1>1 DEF Credible
<1>4. AllTabs'
  BY <1>1, <1>3 DEF SessionInv, AllTabs, TabOK
<1> QED BY <1>2, <1>4 DEF SessionInv
-----------------------------------------------------------------------------
\* Every step keeps the invariant.
LEMMA NextSessionInv == SessionInv /\ [Next]_vars => SessionInv'
<1> SUFFICES ASSUME SessionInv, [Next]_vars PROVE SessionInv'
  OBVIOUS
<1>1. CASE Expire
  BY <1>1, Expired
<1>2. ASSUME NEW t \in Tabs, Switch(t)
      PROVE  SessionInv'
  BY <1>2 DEF Switch, server, SessionInv, Scalars, AllTabs, OwnRequestsAreCurrent
<1>3. CASE UNCHANGED vars
  BY <1>3 DEF vars, SessionInv, Scalars, AllTabs, OwnRequestsAreCurrent
<1>4. ASSUME NEW t \in Tabs, Load(t) \/ handleSubmit(t) \/ logout(t) \/ request(t) \/ Leave(t)
      PROVE  SessionInv'
  BY <1>4, Loaded, NewRequest, Left
<1>5. ASSUME NEW t \in Tabs, Serve(t) \/ \E c \in calls[t] : Fault(t, c)
      PROVE  SessionInv'
  BY <1>5, Served DEF Serve
<1>6. ASSUME NEW t \in Tabs, Answer(t)
      PROVE  SessionInv'
  BY <1>6, LoggedIn, Taken DEF Answer
<1> QED BY <1>1, <1>2, <1>3, <1>4, <1>5, <1>6 DEF Next

\* The inductive invariant holds of every behaviour.
THEOREM SessionInvariant == Spec => []SessionInv
BY InitSessionInv, NextSessionInv, PTL DEF Spec

\* The session's state is well typed in every behaviour of tabs, server and faults.
THEOREM SessionTypeCorrect == Spec => []TypeOK
<1>1. SessionInv => TypeOK
  BY BoundsAreNat DEF SessionInv, Scalars, AllTabs, TypeOK, Tokens, None
<1> QED BY <1>1, SessionInvariant, PTL

\* The tab that stored the token has no request in flight with another one: the
\* redirect to /login of client.ts drops what an earlier session left behind.
THEOREM OwnTabIsCurrent == Spec => []OwnRequestsAreCurrent
<1>1. SessionInv => OwnRequestsAreCurrent
  BY DEF SessionInv
<1> QED BY <1>1, SessionInvariant, PTL

\* A refusal that removes the token comes late: it is not about that token, and not
\* in the tab that stored it.
LEMMA RefusalIsLate ==
  ASSUME SessionInv, NEW t \in Tabs, NEW c \in calls[t], stored \in Valid,
         c.kind /= "login", c.answer = "refused", calls' = [calls EXCEPT ![t] = @ \ {c}]
  PROVE  t /= owner /\ LateRefusalIn(t)
<1>1. Credible(c, issued, expired) /\ c.token \in 0..issued
  BY InFlight
<1>2. stored > expired /\ expired \in Nat /\ issued \in Nat /\ stored \in Nat
  BY BoundsAreNat DEF Valid, SessionInv, Scalars
<1>3. c.token /= stored
  BY <1>1, <1>2 DEF Credible
<1>4. t /= owner
  BY <1>2, <1>3 DEF SessionInv, OwnRequestsAreCurrent, None
<1>5. c \in calls[t] \ calls'[t]
  BY DEF SessionInv, AllTabs
<1> QED BY <1>3, <1>4, <1>5 DEF LateRefusalIn

\* A token the server accepts is removed only by the Logout button or by the late
\* refusal of a request that another tab sent with another token.
THEOREM OnlyLateRefusals == Spec => OnlyLateRefusalsLogOut
<1> DEFINE Justified == (stored \in Valid /\ stored' = None) =>
                          (\E t \in Tabs : LogsOut(t) \/ (t /= owner /\ LateRefusalIn(t)))
<1>1. ASSUME SessionInv, [Next]_vars
      PROVE  [Justified]_vars
  <2> SUFFICES ASSUME stored \in Valid, stored' = None
               PROVE  \E t \in Tabs : LogsOut(t) \/ (t /= owner /\ LateRefusalIn(t))
    OBVIOUS
  <2>1. stored' /= stored
    BY <1>1 DEF Valid, None, SessionInv, Scalars
  <2>2. PICK t \in Tabs : logout(t) \/ Answer(t)
    BY <1>1, <2>1 DEF Next, vars, Load, handleSubmit, Switch, request, Serve, ServeLogin,
                      ServeAPI, Leave, Fault, Expire
  <2>3. CASE logout(t)
    <3>1. page[t] = "content" /\ page'[t] = "leaving" /\ calls' = calls
      BY <1>1, <2>3 DEF logout, SessionInv, AllTabs
    <3> QED BY <3>1 DEF LogsOut
  <2>4. CASE Answer(t)
    <3>1. PICK c \in calls[t] : AnswerLogin(t, c) \/ AnswerCheck(t, c) \/ AnswerAPI(t, c)
      BY <2>4 DEF Answer
    <3>2. ~ AnswerLogin(t, c)
      BY <1>1, <2>1, LoggedIn DEF AnswerLogin
    <3>3. /\ c.kind /= "login" /\ c.answer = "refused"
          /\ calls' = [calls EXCEPT ![t] = @ \ {c}]
      BY <2>1, <3>1, <3>2 DEF AnswerCheck, AnswerAPI, Refused, Take
    <3> QED BY <1>1, <3>3, RefusalIsLate
  <2> QED BY <2>2, <2>3, <2>4
<1> QED BY <1>1, SessionInvariant, PTL DEF Spec, OnlyLateRefusalsLogOut
=============================================================================
