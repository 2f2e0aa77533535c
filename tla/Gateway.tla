------------------------------- MODULE Gateway -------------------------------
(***************************************************************************)
(* A request on its way through backend/src/app.ts: the middleware every   *)
(* request passes, then the guards of its route (ApiRoutes), one at a      *)
(* time.  Each guard may await the database or the cache, so the pause     *)
(* flag and the counters of the rate limiters can change between two of    *)
(* them; requests after the first find what the earlier ones left.         *)
(***************************************************************************)
EXTENDS Naturals, SequencesExt, ApiRoutes

CONSTANTS
  Callers,       \* who calls: [wallet, role, key], all from one address
  Asked,         \* the routes called, a subset of Routes' indices
  LIMIT,         \* requests a route's limiter allows in one window
  MAX_REQUESTS   \* bound: requests that are made

VARIABLES
  request,       \* the request under way, or NoRequest
  at,            \* how many guards it has passed
  answer,        \* "none", "pending", "refused", "limited" or "served"
  over,          \* the response has been sent
  logged,        \* its audit row: "no", "written" or "lost"
  paused,        \* globalPauseState.isPaused
  used,          \* per limiter and identity, requests counted this window
  spent,         \* per limiter and caller, requests that reached the limiter
  requests       \* requests made

gate_vars == <<request, at, answer, over, logged, paused, used, spent, requests>>

NoRequest == "none"
Targets == {"own", "assigned", "other", "missing"}

(* How the caller presents its token: in the header, or as the ambient     *)
(* cookie with or without the double-submit token.                         *)
Carriers == {"bearer", "cookie", "cookie and token"}

(***************************************************************************)
(* Roles and scopes (auth/rbac.ts).                                        *)
(***************************************************************************)
ROLE_SCOPES ==
  [admin       |-> {"admin:all"},
   super_admin |-> {"admin:all"},
   ops         |-> {"read:loans", "read:pool", "read:score",
                    "read:remittances", "read:notifications"},
   support     |-> {"read:loans", "read:score", "read:remittances",
                    "read:notifications"},
   agent       |-> {"read:loans", "write:loans", "read:pool", "write:pool",
                    "read:score", "read:notifications", "write:notifications",
                    "read:remittances", "write:remittances"},
   borrower    |-> {"read:loans", "write:loans", "read:score",
                    "read:notifications", "write:notifications",
                    "read:remittances", "write:remittances"},
   auditor     |-> {"read:loans", "read:score", "read:notifications",
                    "read:remittances", "read:pool"},
   lender      |-> {"read:loans", "read:pool", "write:loans", "write:pool"},
   nobody      |-> {}]

USER_ROLES == DOMAIN ROLE_SCOPES \ {"nobody"}

requireScopes(who, needed) ==
  \/ "admin:all" \in ROLE_SCOPES[who.role]
  \/ needed \in ROLE_SCOPES[who.role]

(* A key without a scope is a legacy key, good for every scope.            *)
requireApiKey(who, needed) == who.key \in {"legacy", needed}

canAccessWallet(who, target) ==
  \/ who.role \in {"admin", "auditor"}
  \/ target = "own"
  \/ who.role \in {"agent", "lender"} /\ target = "assigned"

requireLoanBorrowerAccess(who, target) ==
  \/ who.role \in {"admin", "auditor", "lender"}
  \/ target = "own"
  \/ who.role = "agent" /\ target = "assigned"

requireLoanOwner(target) == target = "own"

(***************************************************************************)
(* Middleware of every request (app.ts).                                   *)
(***************************************************************************)
GlobalChain == <<<<"cors">>, limit("global"), <<"pause">>, <<"csrf">>>>

Chains == [r \in 1..Len(Routes) |-> GlobalChain \o Routes[r].chain]
Verbs == [r \in 1..Len(Routes) |-> Routes[r].verb]
Chain(q) == Chains[q.route]
Writes(q) == Verbs[q.route] # "GET"

pauseGuard_but_patch(q) ==
  ~(paused /\ Writes(q) /\ Verbs[q.route] # "PATCH")

pauseGuard(q) == ~(paused /\ Writes(q))

Exempt == {r \in 1..Len(Routes) :
             Routes[r].path \in {"/auth/challenge", "/auth/login"}}
csrf_exempt(q) == q.route \in Exempt

csrfProtection(q) ==
  \/ q.carries # "cookie"
  \/ ~Writes(q)
  \/ csrf_exempt(q)

(***************************************************************************)
(* Rate limiters.  Some count by address, some by wallet once requireJwt-  *)
(* Auth has run, the login limiter by both, and scoreUpdateRateLimit by    *)
(* the user a score is updated for.                                        *)
(***************************************************************************)
UserKeyed == {"simulation", "audit logs", "disputes", "governance",
              "analytics", "score"}

known(q, n) == \E i \in 1..n : Chain(q)[i][1] = "jwt"

identity(q, limiter, n) ==
  CASE limiter \in UserKeyed /\ known(q, n) -> q.who.wallet
    [] limiter = "login"                    -> q.who.wallet
    [] limiter = "score update"             -> q.target
    [] OTHER                                -> "address"

(* globalRateLimiter allows more than any limiter of a route.              *)
allowance(limiter) == IF limiter = "global" THEN 2 * LIMIT ELSE LIMIT

count(table, k) == IF k \in DOMAIN table THEN table[k] ELSE 0
incremented(table, k) == [i \in DOMAIN table \cup {k} |->
                        IF i = k THEN count(table, k) + 1 ELSE table[i]]

(***************************************************************************)
(* What one guard may decide.  Validation, the origin check and the        *)
(* idempotency layer may go either way.                                    *)
(***************************************************************************)
may_pass(g, q, n) ==
  CASE g[1] = "pause"       -> pauseGuard(q)
    [] g[1] = "csrf"        -> csrfProtection(q)
    [] g[1] = "jwt"         -> q.who.role # "nobody"
    [] g[1] = "roles"       -> q.who.role \in g[2]
    [] g[1] = "scope"       -> requireScopes(q.who, g[2])
    [] g[1] = "key"         -> requireApiKey(q.who, g[2])
    [] g[1] = "tenant"      -> canAccessWallet(q.who, q.target)
    [] g[1] = "loan_reader" -> requireLoanBorrowerAccess(q.who, q.target)
    [] g[1] = "loan_owner"  -> requireLoanOwner(q.target)
    [] g[1] = "limit"       -> count(used, <<g[2], identity(q, g[2], n)>>) <
                                 allowance(g[2])
    [] OTHER                -> TRUE

may_refuse(g, q, n) ==
  g[1] \in {"cors", "valid", "once"} \/ ~may_pass(g, q, n)

GateInit ==
  /\ request = NoRequest /\ at = 0 /\ answer = "none" /\ over = TRUE /\ logged = "no"
  /\ paused = FALSE
  /\ used = <<>> /\ spent = <<>>
  /\ requests = 0

(* The wallet or loan a request names matters only to some guards.         *)
WithTarget == {r \in 1..Len(Routes) : \E i \in 1..Len(Chains[r]) :
                 Chains[r][i][1] \in {"tenant", "loan_reader", "loan_owner"}}
targets_of(r) == IF r \in WithTarget THEN Targets ELSE {"own"}

arrives(r, who, target, carries) ==
  /\ target \in targets_of(r)
  /\ who.role = "nobody" => carries = "bearer"
  /\ request' = [route |-> r, who |-> who, target |-> target,
                 carries |-> carries, paused |-> paused]
  /\ at' = 0 /\ answer' = "pending" /\ over' = FALSE /\ logged' = "no"
  /\ requests' = requests + 1
  /\ UNCHANGED <<paused, used, spent>>

guard == Chain(request)[at + 1]

(* A limiter counts every request that reaches it, refused ones included.  *)
count_request ==
  IF guard[1] = "limit"
  THEN /\ used' = incremented(used, <<guard[2], identity(request, guard[2], at)>>)
       /\ spent' = incremented(spent, <<guard[2], request.who.wallet>>)
  ELSE UNCHANGED <<used, spent>>

passes ==
  /\ answer = "pending" /\ at < Len(Chain(request))
  /\ may_pass(guard, request, at)
  /\ count_request
  /\ at' = at + 1
  /\ request' = IF guard[1] = "pause" THEN [request EXCEPT !.paused = paused]
                ELSE request
  /\ UNCHANGED <<answer, over, logged, paused, requests>>

(* A refused request never reaches the handler; errorHandler answers it.   *)
refused ==
  /\ answer = "pending" /\ at < Len(Chain(request))
  /\ may_refuse(guard, request, at)
  /\ count_request
  /\ answer' = IF guard[1] = "limit" THEN "limited" ELSE "refused"
  /\ UNCHANGED <<request, at, over, logged, paused, requests>>

served ==
  /\ answer = "pending" /\ at = Len(Chain(request))
  /\ answer' = "served"
  /\ UNCHANGED <<request, at, over, logged, paused, used, spent, requests>>

(* auditLog's callback on the response's finish: one row for every request *)
(* that passed it, whatever the answer, unless the insert fails.           *)
auditLog ==
  IF \E i \in 1..at : Chain(request)[i][1] = "audit"
  THEN logged' \in {"written", "lost"}
  ELSE UNCHANGED logged

finished ==
  /\ answer \in {"served", "refused", "limited"} /\ ~over
  /\ auditLog
  /\ over' = TRUE
  /\ UNCHANGED <<request, at, answer, paused, used, spent, requests>>

pause_changes ==
  /\ answer = "pending"
  /\ paused' = ~paused
  /\ UNCHANGED <<request, at, answer, over, logged, used, spent, requests>>

window_passes ==
  /\ used # <<>> /\ over
  /\ used' = <<>> /\ spent' = <<>>
  /\ UNCHANGED <<request, at, answer, over, logged, paused, requests>>

GateNext ==
  \/ /\ over /\ requests < MAX_REQUESTS
     /\ \E r \in Asked, who \in Callers, target \in Targets, c \in Carriers :
          arrives(r, who, target, c)
  \/ passes
  \/ refused
  \/ served
  \/ finished
  \/ pause_changes
  \/ window_passes

(***************************************************************************)
(* Properties.                                                             *)
(***************************************************************************)
Admin ==
  {r \in 1..Len(Routes) : Routes[r] \in
     Range(loan_dispute_routes \o dispute_routes \o dispute_decision_routes \o
           governance_routes \o maintenance_routes \o admin_webhook_routes \o
           operations_user_routes \o operations_system_routes)}

(* No request of the whole surface slips past the gates of app.ts, however *)
(* the pause flag moves while it waits: a write is served only if the pool *)
(* was not paused when it passed pauseGuard; a write authenticated by the  *)
(* cookie alone only with its token; and an admin write only with an audit *)
(* row, unless the insert of auditLog failed.                              *)
GatesHold ==
  answer = "served" /\ Writes(request) =>
    /\ ~request.paused
    /\ request.carries = "cookie" => csrf_exempt(request)
    /\ over /\ request.route \in Admin => logged # "no"
=============================================================================
