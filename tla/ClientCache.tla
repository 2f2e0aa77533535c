----------------------------- MODULE ClientCache -----------------------------
(***************************************************************************)
(* The web app's query cache under its optimistic mutations: pool deposits *)
(* and withdrawals (useDepositToPool, useWithdrawFromPool and the          *)
(* operations of useRepaymentOperation.ts around them) and profile saves   *)
(* (useUpdateUserProfile), with the progress store of useOptimisticUI.ts.  *)
(* A view's data is the set of attempts it counts in; the server has       *)
(* applied some of them.  TanStack Query itself is external: it is         *)
(* modelled from the calls the hooks make of it.                           *)
(***************************************************************************)
EXTENDS Naturals, ApiRoutes

(* What the web app (frontend/src/app/hooks/useApi.ts) and the SDK         *)
(* (sdk/src) ask of the backend: every query with its cache key, every     *)
(* mutation with the keys it invalidates and those it updates              *)
(* optimistically, and the route each calls.  A path is written with the   *)
(* parameter names of ApiRoutes; keys are of one user, one loan.           *)

queryKeys ==
  [loans           |-> [all          |-> <<"loans">>,
                        detail       |-> <<"loans", "id">>,
                        events       |-> <<"loans", "id", "events">>,
                        config       |-> <<"loans", "config">>,
                        liquidatable |-> <<"loans", "liquidatable">>,
                        borrowerPage |-> <<"loans", "borrower", "address", "page">>,
                        borrowerPagePrefix |-> <<"loans", "borrower", "address">>],
   remittances     |-> [all    |-> <<"remittances">>,
                        detail |-> <<"remittances", "id">>,
                        page   |-> <<"remittances", "page", "params">>],
   user            |-> [profile |-> <<"user", "profile">>],
   notifications   |-> [all  |-> <<"notifications">>,
                        list |-> <<"notifications", "params">>],
   adminUsers      |-> [all    |-> <<"admin", "users">>,
                        list   |-> <<"admin", "users", "params">>,
                        detail |-> <<"admin", "users", "publicKey">>],
   adminSystemHealth |-> [all |-> <<"admin", "system", "health">>],
   adminFeatureFlags |-> [all |-> <<"admin", "feature-flags">>],
   adminDisputes   |-> [all    |-> <<"admin", "disputes">>,
                        detail |-> <<"admin", "disputes", "id">>],
   auth            |-> [verify |-> <<"auth", "verify">>],
   score           |-> [breakdown |-> <<"scoreBreakdown", "user">>],
   borrowerLoans   |-> [byAddress |-> <<"borrowerLoans", "address">>],
   creditScore     |-> [byUser |-> <<"creditScore", "user">>],
   creditScoreHistory |-> [byUser |-> <<"creditScoreHistory", "user">>],
   yieldHistory    |-> [byUser |-> <<"yieldHistory", "user", "days">>],
   remittanceNft   |-> [byAddress |-> <<"remittanceNft", "address">>],
   notificationPreferences |-> [all |-> <<"notificationPreferences">>],
   amortization    |-> [schedule |-> <<"loans", "id", "amortization">>,
                        preview  |-> <<"loans", "amortization-preview", "params">>],
   pool            |-> [stats     |-> <<"pool", "stats">>,
                        depositor |-> <<"pool", "depositor", "address">>],
   transactions    |-> [mine |-> <<"transactions", "me", "params">>],
   governance      |-> [pending |-> <<"admin", "governance", "pending">>],
   agent           |-> [dashboard |-> <<"agent", "dashboard">>]]

Q(hook, view, verb, path) == [hook |-> hook, view |-> view, verb |-> verb, path |-> path]

(* refreshes: the keys invalidated on success; optimistic: the keys that   *)
(* are changed before the answer, restored on an error, and invalidated    *)
(* whatever the answer; sets: the keys the answer itself is written to.    *)
M(hook, verb, path, refreshes, optimistic, sets) ==
  [hook |-> hook, verb |-> verb, path |-> path, refreshes |-> refreshes,
   optimistic |-> optimistic, sets |-> sets]

(* A helper that only makes a call.                                        *)
Call(hook, verb, path) == [hook |-> hook, verb |-> verb, path |-> path]

loan_queries == <<
  Q("useLoans", queryKeys.loans.all, "GET", "/loans"),
  Q("useLoan", queryKeys.loans.detail, "GET", "/loans/:loanId"),
  Q("useLoanAmortizationSchedule", queryKeys.amortization.schedule,
    "GET", "/loans/:loanId/amortization-schedule"),
  Q("useLoanAmortizationPreview", queryKeys.amortization.preview,
    "POST", "/loans/amortization-preview"),
  Q("useLiquidatableLoans", queryKeys.loans.liquidatable, "GET", "/loans/liquidatable") >>

loan_event_queries == <<
  Q("useLoanEvents", queryKeys.loans.events, "GET", "/loans/:loanId/events"),
  Q("useMinimumScore", queryKeys.loans.config, "GET", "/loans/config") >>

remittance_queries == <<
  Q("useRemittances", queryKeys.remittances.all, "GET", "/remittances"),
  Q("useRemittancesPage", queryKeys.remittances.page, "GET", "/remittances"),
  Q("useRemittance", queryKeys.remittances.detail, "GET", "/remittances/:id") >>

score_queries == <<
  Q("useUserProfile", queryKeys.user.profile, "GET", "/user/profile"),
  Q("useCreditScoreHistory", queryKeys.creditScoreHistory.byUser,
    "GET", "/score/:walletAddress/history"),
  Q("useScoreBreakdown", queryKeys.score.breakdown, "GET", "/score/:userId/breakdown"),
  Q("useRemittanceNft", queryKeys.remittanceNft.byAddress,
    "GET", "/score/:walletAddress/nft"),
  Q("useCreditScore", queryKeys.creditScore.byUser, "GET", "/score/:userId") >>

pool_queries == <<
  Q("useYieldHistory", queryKeys.yieldHistory.byUser,
    "GET", "/pool/depositor/:address/yield-history"),
  Q("useBorrowerLoans", queryKeys.borrowerLoans.byAddress,
    "GET", "/loans/borrower/:borrower"),
  Q("useBorrowerLoansPage", queryKeys.loans.borrowerPage,
    "GET", "/loans/borrower/:borrower"),
  Q("usePoolStats", queryKeys.pool.stats, "GET", "/pool/stats"),
  Q("useDepositorPortfolio", queryKeys.pool.depositor, "GET", "/pool/depositor/:address") >>

notification_queries == <<
  Q("useNotifications", queryKeys.notifications.list, "GET", "/notifications"),
  Q("useNotificationPreferences", queryKeys.notificationPreferences.all,
    "GET", "/notifications/preferences") >>

dispute_queries == <<
  Q("useVerifySession", queryKeys.auth.verify, "GET", "/auth/verify"),
  Q("useAdminDisputes", queryKeys.adminDisputes.all, "GET", "/admin/disputes"),
  Q("useAdminDispute", queryKeys.adminDisputes.detail,
    "GET", "/admin/disputes/:disputeId") >>

admin_queries == <<
  Q("useMyTransactions", queryKeys.transactions.mine, "GET", "/transactions/me"),
  Q("useAdminUsers", queryKeys.adminUsers.list, "GET", "/admin/users"),
  Q("useAdminUser", queryKeys.adminUsers.detail, "GET", "/admin/users/:publicKey"),
  Q("useAdminSystemHealth", queryKeys.adminSystemHealth.all, "GET", "/admin/system/health"),
  Q("useFeatureFlags", queryKeys.adminFeatureFlags.all, "GET", "/admin/feature-flags"),
  Q("useAdminGovernancePending", queryKeys.governance.pending,
    "GET", "/admin/governance/pending"),
  Q("useAgentDashboard", queryKeys.agent.dashboard, "GET", "/agents/dashboard") >>

Queries == loan_queries \o loan_event_queries \o remittance_queries \o score_queries \o
           pool_queries \o notification_queries \o dispute_queries \o admin_queries

record_mutations == <<
  M("useCreateLoan", "POST", "/loans",
    {queryKeys.loans.all, queryKeys.borrowerLoans.byAddress}, {}, {}),
  M("useCreateRemittance", "POST", "/remittances", {queryKeys.remittances.all}, {}, {}) >>

useUpdateUserProfile ==
  M("useUpdateUserProfile", "PATCH", "/user/profile",
    {}, {queryKeys.user.profile}, {queryKeys.user.profile})

notification_mutations == <<
  M("useUpdateNotificationPreferences", "PUT", "/notifications/preferences",
    {queryKeys.notificationPreferences.all}, {}, {}),
  M("useMarkNotificationsRead", "POST", "/notifications/mark-read",
    {queryKeys.notifications.all}, {}, {}),
  M("useMarkAllNotificationsRead", "POST", "/notifications/mark-all-read",
    {queryKeys.notifications.all}, {}, {}) >>

useResolveAdminDispute == <<
  M("useResolveAdminDispute", "POST", "/admin/disputes/:disputeId/resolve",
    {queryKeys.adminDisputes.all, queryKeys.adminDisputes.detail}, {}, {}),
  M("useResolveAdminDispute", "POST", "/admin/disputes/:disputeId/reject",
    {queryKeys.adminDisputes.all, queryKeys.adminDisputes.detail}, {}, {}) >>

useDepositToPool ==
  M("useDepositToPool", "POST", "/pool/build-deposit", {},
    {queryKeys.pool.stats, queryKeys.pool.depositor}, {})

useWithdrawFromPool ==
  M("useWithdrawFromPool", "POST", "/pool/build-withdraw", {},
    {queryKeys.pool.stats, queryKeys.pool.depositor}, {})

admin_mutations == <<
  M("useUpdateUserStatus", "PATCH", "/admin/users/:publicKey/status",
    {queryKeys.adminUsers.all}, {}, {}),
  M("useUpdateUserRole", "PATCH", "/admin/users/:publicKey/role",
    {queryKeys.adminUsers.all}, {}, {}),
  M("useKycOverride", "POST", "/admin/kyc/override", {queryKeys.adminUsers.all}, {}, {}) >>

system_mutations == <<
  M("useTriggerSettlement", "POST", "/admin/settlement/trigger", {}, {}, {}),
  M("useUpdateFeatureFlag", "PUT", "/admin/feature-flags/:key",
    {queryKeys.adminFeatureFlags.all}, {}, {}) >>

collateral_mutations == <<
  M("useDepositCollateral", "POST", "/loans/:loanId/deposit-collateral", {}, {}, {}),
  M("useReleaseCollateral", "POST", "/loans/:loanId/release-collateral", {}, {}, {}) >>

Mutations ==
  record_mutations \o <<useUpdateUserProfile>> \o notification_mutations \o
  useResolveAdminDispute \o <<useDepositToPool, useWithdrawFromPool>> \o
  admin_mutations \o system_mutations \o collateral_mutations

transaction_calls == <<
  Call("submitPoolTransaction", "POST", "/pool/submit"),
  Call("buildRepaymentTx", "POST", "/loans/:loanId/repay"),
  Call("buildLoanRequestTx", "POST", "/loans/request"),
  Call("submitLoanTransaction", "POST", "/loans/submit"),
  Call("buildRefinanceLoanTransaction", "POST", "/loans/:loanId/build-refinance"),
  Call("buildExtendLoanTransaction", "POST", "/loans/:loanId/build-extend"),
  Call("buildLiquidateLoanTransaction", "POST", "/loans/:loanId/liquidate/build") >>

other_calls == <<
  Call("clearAgentDashboardCache", "DELETE", "/agents/dashboard/cache"),
  Call("getCsrfToken", "GET", "/auth/csrf"),
  Call("useLogout", "POST", "/auth/logout"),
  Call("signIn", "POST", "/auth/challenge"),
  Call("signIn", "POST", "/auth/login") >>

(***************************************************************************)
(* The SDK's resources (sdk/src/resources.ts) and client (sdk/src/client.ts). *)
(***************************************************************************)
AuthResource == <<
  Call("auth.challenge", "POST", "/auth/challenge"),
  Call("auth.login", "POST", "/auth/login"),
  Call("auth.verify", "GET", "/auth/verify"),
  Call("auth.logout", "POST", "/auth/logout") >>

LoansResource == <<
  Call("loans.config", "GET", "/loans/config"),
  Call("loans.list", "GET", "/loans/borrower/:borrower"),
  Call("loans.get", "GET", "/loans/:loanId"),
  Call("loans.buildRepay", "POST", "/loans/:loanId/repay"),
  Call("loans.buildCancel", "POST", "/loans/:loanId/build-cancel"),
  Call("loans.submit", "POST", "/loans/:loanId/submit") >>

PoolResource == <<
  Call("pool.stats", "GET", "/pool/stats"),
  Call("pool.analytics", "GET", "/pool/analytics"),
  Call("pool.depositor", "GET", "/pool/depositor/:address"),
  Call("pool.yieldHistory", "GET", "/pool/depositor/:address/yield-history"),
  Call("pool.sharePrice", "GET", "/pool/:token/share-price"),
  Call("pool.buildDeposit", "POST", "/pool/build-deposit"),
  Call("pool.buildWithdraw", "POST", "/pool/build-withdraw") >>

ScoresResource == << Call("scores.get", "GET", "/score/:userId") >>

RemittanceResource == <<
  Call("remittance.list", "GET", "/remittances"),
  Call("remittance.get", "GET", "/remittances/:id"),
  Call("remittance.buildSend", "POST", "/remittances"),
  Call("remittance.submit", "POST", "/remittances/:id/submit") >>

simulate == Call("simulate", "POST", "/transactions/simulate")

Calls(list) == {<<list[i].hook, list[i].verb, list[i].path>> : i \in DOMAIN list}

SdkCalls == Calls(AuthResource \o LoansResource \o PoolResource \o ScoresResource \o
                  RemittanceResource \o <<simulate>>)

AppCalls == Calls(Queries) \cup Calls(Mutations) \cup Calls(transaction_calls \o other_calls)

(* A parameter such as :loanId also matches "liquidatable", but the route  *)
(* then refuses it as a loan id; only a route of the same shape answers.   *)
served(verb, path) == \E i \in DOMAIN Routes : Routes[i].verb = verb /\ Routes[i].path = path

-----------------------------------------------------------------------------
(* The cache. *)

CONSTANTS
  Attempts,   \* identifiers of the submissions the user makes
  KindOf      \* each one's kind: "deposit", "withdraw" or "save"

Kinds == {"deposit", "withdraw", "save"}

CacheConstants == KindOf \in [Attempts -> Kinds]

VARIABLES
  page,      \* the page that is open: it mounts the hooks
  cache,     \* view -> its entry of the query cache
  ops,       \* attempt -> where its asynchronous function is, and its snapshot
  status,    \* kind -> the transaction's status in the progress store
  profile,   \* the saves that the user store's name and e-mail show
  applied    \* the attempts the backend or the ledger has carried out

cacheVars == <<page, cache, ops, status, profile, applied>>

mutation(kind) == CASE kind = "deposit"  -> useDepositToPool
                    [] kind = "withdraw" -> useWithdrawFromPool
                    [] kind = "save"     -> useUpdateUserProfile

(* The lend page has the pool's operations, the settings page the profile. *)
offered(p) == IF p = "lend" THEN {"deposit", "withdraw"} ELSE {"save"}

Views == UNION {mutation(k).optimistic : k \in Kinds}

counted_in(v) == {a \in Attempts : v \in mutation(KindOf[a]).optimistic}

Absent == [has |-> FALSE, data |-> {}, invalid |-> FALSE, fetch |-> "idle"]

Nothing == [has |-> FALSE, data |-> {}]

Step(phase) == [at |-> phase, before |-> [v \in Views |-> Nothing], user |-> {}]

CacheInit == /\ page \in {"lend", "settings"}
             /\ cache = [v \in Views |-> Absent]
             /\ ops = [a \in Attempts |-> Step("new")]
             /\ status = [k \in Kinds |-> "none"]
             /\ profile = {}
             /\ applied = {}

pending(a) == ops[a].at \in {"building", "signing", "submitting", "confirming"}

(***************************************************************************)
(* TanStack Query (external)                                               *)
(***************************************************************************)
setQueryData(entry, d) == [entry EXCEPT !.has = TRUE, !.data = d, !.invalid = FALSE]

(* The keys given match every view they are a prefix of.                   *)
matches(keys, v) == \E k \in keys : Len(k) <= Len(v) /\ SubSeq(v, 1, Len(k)) = k

(* A fetch under way is abandoned, unless it is the view's first.          *)
invalidateQueries(c, keys) ==
  [v \in Views |-> IF ~ matches(keys, v) THEN c[v]
                   ELSE IF c[v].has THEN [c[v] EXCEPT !.invalid = TRUE, !.fetch = "idle"]
                   ELSE [c[v] EXCEPT !.invalid = TRUE]]

cancelQueries(c, keys) ==
  [v \in Views |-> IF matches(keys, v) THEN [c[v] EXCEPT !.fetch = "idle"] ELSE c[v]]

(* A mounted view is fetched when it has no data, is invalid or has gone   *)
(* stale (60 s): focus, mount and reconnection all come to this.           *)
query_starts(v) ==
  /\ \E k \in offered(page) : v \in mutation(k).optimistic
  /\ cache[v].fetch = "idle"
  /\ cache' = [cache EXCEPT ![v].fetch = "sent"]
  /\ UNCHANGED <<page, ops, status, profile, applied>>

query_lands(v) ==
  /\ cache[v].fetch = "sent"
  /\ cache' = [cache EXCEPT ![v] = [setQueryData(@, applied \intersect counted_in(v))
                                      EXCEPT !.fetch = "idle"]]
  /\ UNCHANGED <<page, ops, status, profile, applied>>

(* After the retries: the data that is there is marked.                    *)
query_fails(v) ==
  /\ cache[v].fetch = "sent"
  /\ cache' = [cache EXCEPT ![v].fetch = "idle", ![v].invalid = @ \/ cache[v].has]
  /\ UNCHANGED <<page, ops, status, profile, applied>>

(***************************************************************************)
(* The mutations                                                           *)
(***************************************************************************)
snapshot(c, kind) ==
  [v \in Views |-> IF v \in mutation(kind).optimistic
                     THEN [has |-> c[v].has, data |-> c[v].data] ELSE Nothing]

(* onMutate: queries are cancelled, the views remembered, and those that   *)
(* have data changed at once.                                              *)
optimistic(c, a) ==
  [v \in Views |-> IF v \in mutation(KindOf[a]).optimistic /\ c[v].has
                     THEN setQueryData(c[v], c[v].data \union {a}) ELSE c[v]]

onMutate(a) ==
  LET kind == KindOf[a]
      quiet == cancelQueries(cache, mutation(kind).optimistic) IN
  /\ cache' = optimistic(quiet, a)
  /\ ops' = [ops EXCEPT ![a] = [at |-> "building", before |-> snapshot(quiet, kind),
                                user |-> profile]]

(* onError: a view is put back as it was remembered, if it had data.       *)
restored(c, a) ==
  [v \in Views |-> IF ops[a].before[v].has
                     THEN setQueryData(c[v], ops[a].before[v].data) ELSE c[v]]

(* onSettled of the pool mutations; a save invalidates nothing.            *)
settled_nothing(c, a) == c
settled(c, a) ==
  IF KindOf[a] = "save" THEN c
  ELSE invalidateQueries(c, mutation(KindOf[a]).optimistic)

(* useOptimisticUI: every status but the first replaces an entry that is   *)
(* still there; a profile save has none.                                   *)
becomes(kind, new) ==
  IF kind = "save" \/ (status[kind] = "none" /\ new # "pending") THEN status
  ELSE [status EXCEPT ![kind] = new]

isLoading(kind) == status[kind] \in {"pending", "signing", "submitted", "confirming"}

(* The button is disabled while the operation is loading, and the save     *)
(* button while a save is pending.                                         *)
may_start(kind) ==
  /\ kind \in offered(page)
  /\ ~ isLoading(kind)
  /\ kind = "save" => \A a \in Attempts : KindOf[a] = "save" => ~ pending(a)

(* executeDeposit, executeWithdrawal: the pool's token comes with the      *)
(* stats; without it the operation fails before it calls anything.         *)
execute(a) ==
  /\ ops[a].at = "new"
  /\ may_start(KindOf[a])
  /\ IF KindOf[a] # "save" /\ ~ cache[queryKeys.pool.stats].has
       THEN /\ status' = [status EXCEPT ![KindOf[a]] = "failed"]
            /\ ops' = [ops EXCEPT ![a] = Step("failed")]
            /\ UNCHANGED <<cache, profile>>
       ELSE /\ onMutate(a)
            /\ status' = becomes(KindOf[a], "pending")
            /\ profile' = IF KindOf[a] = "save" THEN profile \union {a} ELSE profile
  /\ UNCHANGED <<page, applied>>

(* The unsigned transaction is there: the mutation is settled although     *)
(* nothing is on the ledger yet.                                           *)
built(a) ==
  /\ ops[a].at = "building" /\ KindOf[a] # "save"
  /\ cache' = settled(cache, a)
  /\ ops' = [ops EXCEPT ![a] = Step("signing")]
  /\ status' = becomes(KindOf[a], "signing")
  /\ UNCHANGED <<page, profile, applied>>

saved(a) ==
  /\ ops[a].at = "building" /\ KindOf[a] = "save" /\ a \in applied
  /\ cache' = [v \in Views |->
                 IF v \in mutation("save").sets
                   THEN setQueryData(cache[v], applied \intersect counted_in(v)) ELSE cache[v]]
  /\ profile' = applied \intersect counted_in(queryKeys.user.profile)
  /\ ops' = [ops EXCEPT ![a] = Step("confirmed")]
  /\ UNCHANGED <<page, status, applied>>

(* Refused, or the answer was lost.                                        *)
mutation_fails(a) ==
  /\ ops[a].at = "building"
  /\ cache' = settled(restored(cache, a), a)
  /\ profile' = IF KindOf[a] = "save" THEN ops[a].user ELSE profile
  /\ ops' = [ops EXCEPT ![a] = Step("failed")]
  /\ status' = becomes(KindOf[a], "failed")
  /\ UNCHANGED <<page, applied>>

signed(a) ==
  /\ ops[a].at = "signing"
  /\ ops' = [ops EXCEPT ![a] = Step("submitting")]
  /\ UNCHANGED <<page, cache, status, profile, applied>>

submitPoolTransaction(a) ==
  /\ ops[a].at = "submitting"
  /\ ops' = [ops EXCEPT ![a] = Step("confirming")]
  /\ status' = becomes(KindOf[a], "confirming")
  /\ UNCHANGED <<page, cache, profile, applied>>

(* The wallet refuses, or the submission does.                             *)
operation_fails(a) ==
  /\ ops[a].at \in {"signing", "submitting"}
  /\ ops' = [ops EXCEPT ![a] = Step("failed")]
  /\ status' = becomes(KindOf[a], "failed")
  /\ UNCHANGED <<page, cache, profile, applied>>

(* Two seconds later.                                                      *)
complete(a) ==
  /\ ops[a].at = "confirming"
  /\ ops' = [ops EXCEPT ![a] = Step("confirmed")]
  /\ status' = becomes(KindOf[a], "confirmed")
  /\ cache' = invalidateQueries(cache, mutation(KindOf[a]).optimistic)
  /\ UNCHANGED <<page, profile, applied>>

(* A confirmed transaction is dismissed after three seconds.               *)
clearTransaction(kind) ==
  /\ status[kind] = "confirmed"
  /\ status' = [status EXCEPT ![kind] = "none"]
  /\ UNCHANGED <<page, cache, ops, profile, applied>>

(* /pool/events says the pool changed, or the fallback poll is due.        *)
useInvalidatePoolStats ==
  /\ page = "lend"
  /\ ~ cache[queryKeys.pool.stats].invalid
  /\ cache' = invalidateQueries(cache, {queryKeys.pool.stats})
  /\ UNCHANGED <<page, ops, status, profile, applied>>

(* The backend carries out a save it was sent, the ledger a transaction    *)
(* that was submitted: even when the page has given up on it.              *)
server_applies(a) ==
  /\ a \notin applied
  /\ \/ KindOf[a] = "save" /\ ops[a].at = "building"
     \/ KindOf[a] # "save" /\ ops[a].at \in {"submitting", "confirming", "confirmed"}
  /\ applied' = applied \union {a}
  /\ UNCHANGED <<page, cache, ops, status, profile>>

(* A 401: the stores and the cache are cleared and the page is left, with  *)
(* every operation on it.                                                  *)
logoutUser ==
  /\ \E v \in Views : cache[v].fetch = "sent" \/ \E a \in Attempts : pending(a)
  /\ cache' = [v \in Views |-> Absent]
  /\ ops' = [a \in Attempts |-> IF pending(a) THEN Step("failed") ELSE ops[a]]
  /\ status' = [k \in Kinds |-> "none"]
  /\ profile' = {}
  /\ UNCHANGED <<page, applied>>

CacheNext ==
  \/ \E v \in Views : query_starts(v) \/ query_lands(v) \/ query_fails(v)
  \/ \E a \in Attempts :
       \/ execute(a) \/ built(a) \/ saved(a) \/ mutation_fails(a) \/ signed(a)
       \/ submitPoolTransaction(a) \/ operation_fails(a) \/ complete(a) \/ server_applies(a)
  \/ \E k \in Kinds : clearTransaction(k)
  \/ useInvalidatePoolStats
  \/ logoutUser

CacheSpec == CacheInit /\ [][CacheNext]_cacheVars

(* Once no operation is under way, no view goes on showing a deposit, a    *)
(* withdrawal or a name that the backend never took: what an optimistic    *)
(* update left behind, also when two overlapped and one put back what the  *)
(* other had changed, is marked to be fetched again.                       *)
NoOptimisticResidue ==
  (\A a \in Attempts : ~ pending(a)) =>
    /\ \A v \in Views : cache[v].data \subseteq applied \/ cache[v].invalid
    /\ profile \subseteq applied

(* The calls of the web app and of the SDK that no route of the backend    *)
(* answers; all others are answered.                                       *)
CallsServed ==
  \A c \in AppCalls \cup SdkCalls : served(c[2], c[3]) <=>
    c[1] \notin {"useLoans", "useLiquidatableLoans", "useCreateLoan",
                "useDepositCollateral", "useReleaseCollateral", "simulate"}
=============================================================================
