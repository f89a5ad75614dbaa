------------------------------ MODULE Session ------------------------------
(***************************************************************************)
(* The session of the web UI in several tabs of one browser: the token in  *)
(* localStorage (ui/src/api/client.ts), the AuthGuard and the layout       *)
(* (ui/src/App.tsx), the login page (ui/src/pages/Login.tsx), and the      *)
(* server's side of it (operator/server/handler/auth.go) with credentials  *)
(* configured.                                                             *)
(*                                                                         *)
(* The tabs share the token and nothing else.  A tab is a page and the     *)
(* requests it has in flight; a full load of a page drops the requests, a  *)
(* navigate of the router does not.  The content of the pages is not       *)
(* modelled here: it is a source of requests.                              *)
(***************************************************************************)
EXTENDS Naturals, FiniteSets

CONSTANTS
  Tabs,
  MaxLogins,    \* bound: tokens the server issues
  MaxRequests,  \* bound: requests of the pages in flight in a tab
  MaxLoads,     \* bound: loads by the user
  MaxFaults     \* bound: 5xx answers and lost connections

ASSUME SessionConstants ==
  /\ Tabs /= {}
  /\ \A bound \in {MaxLogins, MaxRequests, MaxLoads, MaxFaults} : bound \in Nat

\* Tokens are numbered in the order they are issued, which is the order in
\* which they expire.
None == 0
Tokens == 1..MaxLogins

Kinds == {"login", "check", "api"}
Answers == {"pending", "ok", "refused", "error", "lost"}
Call == [kind : Kinds, token : Tokens \cup {None}, answer : Answers]

Pages == {"login", "checking", "content", "leaving"}

VARIABLES
  stored,   \* localStorage: dtm_token
  owner,    \* history: the tab that stored it last
  issued,   \* tokens issued so far
  expired,  \* tokens 1..expired are past their Exp
  page,     \* page[t]: what the tab shows; "checking" is AuthGuard's blank
  calls,    \* calls[t]: the requests in flight
  front,    \* the tab in the foreground, the only one whose queries are repeated
  loads,    \* loads so far
  faults    \* faults so far

server == <<issued, expired>>
vars == <<stored, owner, issued, expired, page, calls, front, loads, faults>>

\* verifyJWT: Unix() > Exp is expired.
Valid == (expired + 1)..issued

\* Bearer and verifyJWT in JWTAuthMiddleware and AuthCheck.
Refuses(token) == token \notin Valid

isAuthenticated == stored /= None

Request(kind, token) == [kind |-> kind, token |-> token, answer |-> "pending"]

Init ==
  /\ stored = None
  /\ owner = CHOOSE t \in Tabs : TRUE
  /\ issued = 0
  /\ expired = 0
  /\ page = [t \in Tabs |-> "login"]
  /\ calls = [t \in Tabs |-> {}]
  /\ front = owner
  /\ loads = 0
  /\ faults = 0
-----------------------------------------------------------------------------
\* AuthGuard mounts in tab t with the given token in storage: without one it
\* navigates to /login, with one it asks the server.
MountGuard(t, token, inFlight) ==
  IF token = None
  THEN /\ page' = [page EXCEPT ![t] = "login"]
       /\ calls' = [calls EXCEPT ![t] = inFlight]
  ELSE /\ page' = [page EXCEPT ![t] = "checking"]
       /\ calls' = [calls EXCEPT ![t] = inFlight \cup {Request("check", token)}]

\* The user opens or reloads a page of the application.
Load(t) ==
  /\ loads < MaxLoads
  /\ MountGuard(t, stored, {})
  /\ loads' = loads + 1
  /\ UNCHANGED <<stored, owner, server, front, faults>>

\* handleSubmit of Login: the button is disabled while a login is in flight.
handleSubmit(t) ==
  /\ page[t] = "login"
  /\ \A c \in calls[t] : c.kind /= "login"
  /\ calls' = [calls EXCEPT ![t] = @ \cup {Request("login", stored)}]
  /\ UNCHANGED <<stored, owner, server, page, front, faults, loads>>

\* A query or a mutation of a page: the header has the token of this moment.
\* Queries are repeated every refetchInterval while the tab is in the foreground.
request(t) ==
  /\ page[t] = "content"
  /\ front = t
  /\ Cardinality(calls[t]) < MaxRequests
  /\ calls' = [calls EXCEPT ![t] = @ \cup {Request("api", stored)}]
  /\ UNCHANGED <<stored, owner, server, page, front, faults, loads>>

Becomes(t, c, d) == calls' = [calls EXCEPT ![t] = (@ \ {c}) \cup {d}]

\* The server's Login: a new token for the right credentials, a refusal else.
ServeLogin(t, c) ==
  /\ c.kind = "login" /\ c.answer = "pending"
  /\ \/ /\ issued < MaxLogins
        /\ issued' = issued + 1
        /\ Becomes(t, c, [c EXCEPT !.answer = "ok", !.token = issued + 1])
     \/ /\ Becomes(t, c, [c EXCEPT !.answer = "refused"])
        /\ UNCHANGED issued
  /\ UNCHANGED <<stored, owner, expired, page, front, faults, loads>>

\* JWTAuthMiddleware and AuthCheck.
ServeAPI(t, c) ==
  /\ c.kind /= "login" /\ c.answer = "pending"
  /\ Becomes(t, c, [c EXCEPT !.answer = IF Refuses(c.token) THEN "refused" ELSE "ok"])
  /\ UNCHANGED <<stored, owner, server, page, front, faults, loads>>

\* A handler answers with an error of its own (5xx), or the connection fails.
Fault(t, c) ==
  /\ c.answer = "pending"
  /\ faults < MaxFaults
  /\ \/ Becomes(t, c, [c EXCEPT !.answer = "lost"])
     \/ /\ ~ (c.kind /= "login" /\ Refuses(c.token))
        /\ Becomes(t, c, [c EXCEPT !.answer = "error"])
  /\ faults' = faults + 1
  /\ UNCHANGED <<stored, owner, server, page, front, loads>>

Take(t, c) == calls' = [calls EXCEPT ![t] = @ \ {c}]

\* The rest of handleSubmit: a 401 of /login is an error like any other.
AnswerLogin(t, c) ==
  /\ c.kind = "login" /\ c.answer /= "pending"
  /\ IF c.answer = "ok"
     THEN /\ stored' = c.token
          /\ owner' = t
          /\ MountGuard(t, c.token, calls[t] \ {c})
     ELSE Take(t, c) /\ UNCHANGED <<stored, owner, page>>
  /\ UNCHANGED <<server, front, faults, loads>>

\* Mutant: every answer but 200 takes the token away.
AnswerCheckStrict(t, c) ==
  /\ c.kind = "check" /\ c.answer /= "pending"
  /\ Take(t, c)
  /\ page' = [page EXCEPT ![t] = IF c.answer = "ok" THEN "content" ELSE "login"]
  /\ stored' = IF c.answer = "ok" THEN stored ELSE None
  /\ UNCHANGED <<owner, server, front, faults, loads>>

\* Mutant: without the catch, a lost connection leaves the guard checking.
AnswerCheckUncaught(t, c) ==
  /\ c.kind = "check" /\ c.answer /= "pending"
  /\ Take(t, c)
  /\ page' = [page EXCEPT ![t] = CASE c.answer = "refused" -> "login"
                                   [] c.answer = "lost" -> "checking"
                                   [] OTHER -> "content"]
  /\ stored' = IF c.answer = "refused" THEN None ELSE stored
  /\ UNCHANGED <<owner, server, front, faults, loads>>

\* The rest of checkAuth: only a 401 removes the token, any other status shows
\* the content, and a lost connection leads to the login page.
AnswerCheck(t, c) ==
  /\ c.kind = "check" /\ c.answer /= "pending"
  /\ Take(t, c)
  /\ page' = [page EXCEPT ![t] = IF c.answer \in {"refused", "lost"} THEN "login" ELSE "content"]
  /\ stored' = IF c.answer = "refused" THEN None ELSE stored
  /\ UNCHANGED <<owner, server, front, faults, loads>>

\* Mutant: the redirect is a navigate of the router, which keeps the requests.
RefusedNavigates(t, c) ==
  /\ Take(t, c)
  /\ stored' = None
  /\ page' = [page EXCEPT ![t] = "login"]

\* Mutant: the token is removed and the page stays.
RefusedStays(t, c) == Take(t, c) /\ stored' = None /\ UNCHANGED page

\* request() on a 401: whatever token is in storage goes, and the browser is
\* told to load /login.
Refused(t, c) ==
  /\ Take(t, c)
  /\ stored' = None
  /\ page' = [page EXCEPT ![t] = "leaving"]

\* The rest of request().
AnswerAPI(t, c) ==
  /\ c.kind = "api" /\ c.answer /= "pending"
  /\ IF c.answer = "refused"
     THEN Refused(t, c)
     ELSE Take(t, c) /\ UNCHANGED <<stored, page>>
  /\ UNCHANGED <<owner, server, front, faults, loads>>

\* The browser has loaded /login.
Leave(t) ==
  /\ page[t] = "leaving"
  /\ page' = [page EXCEPT ![t] = "login"]
  /\ calls' = [calls EXCEPT ![t] = {}]
  /\ UNCHANGED <<stored, owner, server, front, faults, loads>>

\* The Logout button.
logout(t) ==
  /\ page[t] = "content"
  /\ stored' = None
  /\ page' = [page EXCEPT ![t] = "leaving"]
  /\ UNCHANGED <<owner, server, calls, front, faults, loads>>

\* 24 hours after its issue.
Expire ==
  /\ expired < issued
  /\ expired' = expired + 1
  /\ UNCHANGED <<stored, owner, issued, page, calls, front, faults, loads>>

\* The user switches between the tabs.
Switch(t) ==
  /\ front' = t
  /\ UNCHANGED <<stored, owner, server, page, calls, faults, loads>>

Serve(t) == \E c \in calls[t] : ServeLogin(t, c) \/ ServeAPI(t, c)
Answer(t) == \E c \in calls[t] : AnswerLogin(t, c) \/ AnswerCheck(t, c) \/ AnswerAPI(t, c)

Next ==
  \/ \E t \in Tabs :
       \/ Load(t) \/ handleSubmit(t) \/ logout(t) \/ Switch(t)
       \/ request(t) \/ Serve(t) \/ Answer(t) \/ Leave(t)
       \/ \E c \in calls[t] : Fault(t, c)
  \/ Expire

\* Polling, the server and the browser go on; users owe nothing.
Fairness ==
  \A t \in Tabs :
    WF_vars(request(t)) /\ WF_vars(Serve(t)) /\ WF_vars(Answer(t)) /\ WF_vars(Leave(t))

Spec == Init /\ [][Next]_vars /\ Fairness
-----------------------------------------------------------------------------
\* Types of the session's state.
TypeOK ==
  /\ stored \in Tokens \cup {None}
  /\ owner \in Tabs
  /\ issued \in 0..MaxLogins
  /\ expired \in 0..issued
  /\ page \in [Tabs -> Pages]
  /\ calls \in [Tabs -> SUBSET Call]
  /\ front \in Tabs
  /\ loads \in 0..MaxLoads
  /\ faults \in 0..MaxFaults

\* A request of the tab that stored the token carries that token: no request
\* of an earlier session of the same tab is left, because the redirect to
\* /login is a full load of the page.
OwnRequestsAreCurrent ==
  stored /= None =>
    \A c \in calls[owner] : c.kind /= "login" => c.token = stored

LogsOut(t) == page[t] = "content" /\ page'[t] = "leaving" /\ calls' = calls

LateRefusalIn(t) ==
  \E c \in calls[t] \ calls'[t] : c.answer = "refused" /\ c.token /= stored

\* A token that the server accepts is removed by the Logout button or by the
\* late refusal of a request that another tab sent with another token (or with
\* none): no server error, no lost connection and no request of the tab that
\* logged in throws the user out.
OnlyLateRefusalsLogOut ==
  [][(stored \in Valid /\ stored' = None) =>
       (\E t \in Tabs : LogsOut(t) \/ (t /= owner /\ LateRefusalIn(t)))]_vars

\* Logging out, or the end of the 24 hours, reaches every tab the user looks at: content
\* without an accepted token does not stay on the screen.
LoggedOutEverywhere ==
  \A t \in Tabs :
    (page[t] = "content" /\ stored \notin Valid) ~>
      (page[t] /= "content" \/ stored \in Valid \/ front /= t)

\* AuthGuard's blank page gives way to the content or to the login page,
\* whatever becomes of its request.
GuardDecides ==
  \A t \in Tabs : (page[t] = "checking") ~> (page[t] /= "checking")
=============================================================================
