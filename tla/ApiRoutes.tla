------------------------------ MODULE ApiRoutes ------------------------------
(***************************************************************************)
(* The HTTP surface of the backend: every route of backend/src/routes/     *)
(* with its verb, the credential its API documentation asks for, and the   *)
(* chain of guards it is mounted behind, in order.                         *)
(***************************************************************************)
EXTENDS Sequences

(* Guards.  A guard is a tuple: its name and what it is configured with.   *)
jwt == <<"jwt">>
roles(allowed) == <<"roles", allowed>>
scope(needed) == <<"scope", needed>>
key(needed) == <<"key", needed>>
limit(limiter) == <<"limit", limiter>>
tenant == <<"tenant">>
loan_reader == <<"loan_reader">>
loan_owner == <<"loan_owner">>
valid == <<"valid">>
audit == <<"audit">>
once == <<"once">>

requireLender == roles({"lender", "agent", "admin"})
ALL_ADMINS == {"admin", "super_admin", "ops", "support"}
PRIVILEGED_ADMINS == {"admin", "super_admin"}
KYC_ADMINS == {"admin", "super_admin", "support"}

R(verb, path, doc, chain) ==
  [verb |-> verb, path |-> path, doc |-> doc, chain |-> chain]

(***************************************************************************)
(* The routes, file by file.  doc is the security scheme of the route's    *)
(* API documentation: "bearer", "apikey", or "none" when it names none.    *)
(***************************************************************************)
loan_dispute_routes == <<
  R("GET", "/admin/audit-logs", "none",
        <<jwt, limit("audit logs"), roles({"admin"}), valid>>),
  R("POST", "/admin/loans/:loanId/build-reject", "none",
        <<jwt, roles({"admin"}), audit, once>>),
  R("GET", "/admin/loan-disputes", "apikey", <<key("admin:disputes"), valid>>),
  R("POST", "/admin/loan-disputes/:disputeId/resolve", "none",
        <<key("admin:disputes"), audit, once, valid>>) >>

dispute_routes == <<
  R("GET", "/admin/disputes", "bearer",
        <<jwt, limit("disputes"), roles({"admin"}), valid>>),
  R("GET", "/admin/disputes/:disputeId", "bearer",
        <<jwt, limit("disputes"), roles({"admin"}), valid>>) >>

dispute_decision_routes == <<
  R("POST", "/admin/disputes/:disputeId/resolve", "bearer",
        <<jwt, roles({"admin"}), audit, once, valid>>),
  R("POST", "/admin/disputes/:disputeId/reject", "bearer",
        <<jwt, roles({"admin"}), audit, once, valid>>) >>

governance_routes == <<
  R("GET", "/admin/governance/pending", "bearer",
        <<jwt, limit("governance"), roles({"admin"})>>) >>

maintenance_routes == <<
  R("POST", "/admin/check-defaults", "apikey",
        <<key("admin:loans"), limit("strict"), audit, once, valid>>),
  R("POST", "/admin/reindex", "apikey",
        <<key("admin:indexer"), limit("strict"), audit>>),
  R("GET", "/admin/quarantine-events", "apikey", <<key("admin:indexer")>>),
  R("POST", "/admin/quarantine-events/reprocess", "apikey",
        <<key("admin:indexer"), limit("strict"), audit>>) >>

admin_webhook_routes == <<
  R("POST", "/admin/webhooks", "apikey",
        <<key("admin:webhooks"), limit("strict"), audit>>),
  R("GET", "/admin/webhooks", "apikey", <<key("admin:webhooks")>>),
  R("DELETE", "/admin/webhooks/:id", "apikey",
        <<key("admin:webhooks"), limit("strict"), audit>>),
  R("GET", "/admin/webhooks/:id/deliveries", "apikey", <<key("admin:webhooks")>>),
  R("GET", "/admin/webhooks/retry-status", "apikey", <<key("admin:webhooks")>>) >>

operations_user_routes == <<
  R("GET", "/admin/users", "apikey", <<jwt, roles(ALL_ADMINS)>>),
  R("GET", "/admin/users/:publicKey", "apikey", <<jwt, roles(ALL_ADMINS)>>),
  R("PATCH", "/admin/users/:publicKey/status", "apikey",
        <<jwt, roles(PRIVILEGED_ADMINS), audit, once>>),
  R("PATCH", "/admin/users/:publicKey/role", "apikey",
        <<jwt, roles(PRIVILEGED_ADMINS), audit, once>>),
  R("POST", "/admin/kyc/override", "apikey", <<jwt, roles(KYC_ADMINS), audit, once>>) >>

operations_system_routes == <<
  R("GET", "/admin/system/health", "apikey", <<jwt, roles(ALL_ADMINS)>>),
  R("POST", "/admin/settlement/trigger", "apikey",
        <<jwt, roles(PRIVILEGED_ADMINS), audit, once>>),
  R("GET", "/admin/feature-flags", "apikey", <<jwt, roles(ALL_ADMINS)>>),
  R("PUT", "/admin/feature-flags/:key", "apikey",
        <<jwt, roles(PRIVILEGED_ADMINS), audit, once>>) >>

agentFloatRoutes == <<
  R("POST", "/agents/float-transfer", "none", <<jwt>>),
  R("POST", "/agents/float-transfer/:id/approve", "none", <<jwt>>),
  R("POST", "/agents/float-transfer/:id/reject", "none", <<jwt>>),
  R("GET", "/agents/float-transfer/limits", "none", <<jwt>>),
  R("PUT", "/agents/float-transfer/limits", "none", <<jwt, roles({"admin"})>>) >>

assignment_routes == <<
  R("GET", "/agents/my-assignments", "bearer",
        <<jwt, roles({"agent", "lender", "admin"})>>),
  R("POST", "/agents/:agentPublicKey/assignees", "bearer",
        <<jwt, roles({"admin"}), audit>>),
  R("DELETE", "/agents/:agentPublicKey/assignees/:borrowerPublicKey", "bearer",
        <<jwt, roles({"admin"}), audit>>) >>

agent_dashboard_routes == <<
  R("GET", "/agents/dashboard", "bearer", <<jwt>>),
  R("DELETE", "/agents/dashboard/cache", "bearer", <<jwt>>) >>

auditRoutes == <<
  R("GET", "/audit/proof/:logId", "apikey", <<key("admin:audit")>>) >>

login_routes == <<
  R("POST", "/auth/challenge", "none", <<limit("challenge"), valid>>),
  R("POST", "/auth/login", "none", <<limit("login ip"), limit("login"), valid>>),
  R("POST", "/auth/refresh", "none", <<>>),
  R("GET", "/auth/csrf", "none", <<>>) >>

session_routes == <<
  R("POST", "/auth/kyc", "bearer", <<jwt, valid>>),
  R("GET", "/auth/verify", "bearer", <<jwt>>),
  R("POST", "/auth/logout", "bearer", <<jwt>>),
  R("POST", "/auth/logout-all", "bearer", <<jwt>>) >>

eventRoutes == <<
  R("GET", "/events/stream", "bearer", <<jwt>>),
  R("GET", "/events/status", "apikey", <<key("admin:indexer")>>) >>

indexer_event_routes == <<
  R("GET", "/indexer/status", "none", <<>>),
  R("GET", "/indexer/events/borrower/:borrower", "bearer",
        <<jwt, scope("read:loans"), tenant>>),
  R("GET", "/indexer/events/loan/:loanId", "bearer",
        <<jwt, scope("read:loans"), loan_reader>>),
  R("GET", "/indexer/events/recent", "apikey", <<key("admin:indexer")>>) >>

indexer_webhook_routes == <<
  R("GET", "/indexer/webhooks", "apikey", <<key("admin:webhooks")>>),
  R("POST", "/indexer/webhooks", "apikey",
        <<key("admin:webhooks"), limit("strict"), audit>>),
  R("DELETE", "/indexer/webhooks/:subscriptionId", "apikey",
        <<key("admin:webhooks"), limit("strict"), audit>>) >>

loan_cancel_routes == <<
  R("GET", "/loans/config", "none", <<>>),
  R("POST", "/loans/:loanId/build-cancel", "bearer",
        <<limit("strict"), jwt, scope("write:loans"), loan_owner>>) >>

loan_contest_routes == <<
  R("POST", "/loans/amortization-preview", "bearer", <<jwt, valid>>),
  R("POST", "/loans/:loanId/contest-default", "bearer",
        <<limit("strict"), jwt, scope("write:loans"), loan_owner>>) >>

loan_list_routes == <<
  R("GET", "/loans/borrower/:borrower", "bearer",
        <<jwt, scope("read:loans"), tenant, valid>>),
  R("GET", "/loans/:loanId", "bearer", <<jwt, scope("read:loans"), loan_reader>>) >>

loan_schedule_routes == <<
  R("GET", "/loans/:loanId/amortization-schedule", "bearer",
        <<jwt, scope("read:loans"), loan_reader>>) >>

loan_view_routes == <<
  R("GET", "/loans/:loanId/repayment-preview", "bearer",
        <<jwt, scope("read:loans"), loan_reader>>),
  R("GET", "/loans/:loanId/events", "bearer", <<jwt, scope("read:loans"), loan_reader>>) >>

loan_request_routes == <<
  R("POST", "/loans/request", "bearer",
        <<limit("strict"), jwt, scope("write:loans"), valid, once>>),
  R("POST", "/loans/:loanId/build-deposit-collateral", "bearer",
        <<limit("strict"), jwt, scope("write:loans"), loan_owner, valid, once>>) >>

loan_collateral_routes == <<
  R("POST", "/loans/:loanId/build-release-collateral", "bearer",
        <<limit("strict"), jwt, scope("write:loans"), loan_owner, valid, once>>),
  R("POST", "/loans/:loanId/build-refinance", "bearer",
        <<limit("strict"), jwt, scope("write:loans"), loan_owner, valid, once>>) >>

loan_change_routes == <<
  R("POST", "/loans/:loanId/build-extend", "bearer",
        <<limit("strict"), jwt, scope("write:loans"), loan_owner, valid, once>>),
  R("POST", "/loans/:loanId/liquidate/build", "bearer",
        <<limit("strict"), jwt, scope("write:loans"), valid, once>>) >>

loan_repayment_routes == <<
  R("POST", "/loans/submit", "bearer",
        <<limit("strict"), jwt, scope("write:loans"), valid, once>>),
  R("POST", "/loans/:loanId/repay", "bearer",
        <<limit("strict"), jwt, scope("write:loans"), loan_owner, valid, once>>) >>

loan_submit_routes == <<
  R("POST", "/loans/:loanId/submit", "bearer",
        <<limit("strict"), jwt, scope("write:loans"), loan_owner, valid, once>>) >>

notification_view_routes == <<
  R("GET", "/notifications", "bearer", <<jwt, scope("read:notifications")>>),
  R("GET", "/notifications/preferences", "bearer", <<jwt>>),
  R("PUT", "/notifications/preferences", "bearer", <<jwt>>),
  R("GET", "/notifications/stream", "bearer", <<jwt, scope("read:notifications")>>) >>

notification_mark_routes == <<
  R("POST", "/notifications/mark-read", "bearer", <<jwt, scope("write:notifications")>>),
  R("POST", "/notifications/mark-all-read", "bearer",
        <<jwt, scope("write:notifications")>>) >>

pool_view_routes == <<
  R("GET", "/pool/analytics", "none", <<limit("analytics")>>),
  R("GET", "/pool/agent/dashboard/:agentAddress", "bearer",
        <<jwt, roles({"agent", "lender", "admin", "auditor"}), tenant>>),
  R("GET", "/pool/stats", "bearer", <<jwt, requireLender, scope("read:pool")>>) >>

depositor_routes == <<
  R("GET", "/pool/depositor/:address", "bearer",
        <<jwt, requireLender, scope("read:pool"), tenant, valid>>),
  R("GET", "/pool/depositor/:address/yield-history", "bearer",
        <<jwt, requireLender, scope("read:pool"), tenant, valid>>),
  R("GET", "/pool/:token/share-price", "bearer",
        <<jwt, requireLender, scope("read:pool")>>) >>

pool_build_routes == <<
  R("POST", "/pool/build-deposit", "bearer",
        <<jwt, requireLender, scope("write:pool"), valid, once>>),
  R("POST", "/pool/build-withdraw", "bearer",
        <<jwt, requireLender, scope("write:pool"), valid, once>>) >>

pool_submit_routes == <<
  R("POST", "/pool/build-emergency-withdraw", "bearer",
        <<jwt, requireLender, scope("write:pool"), valid, once>>),
  R("POST", "/pool/submit", "bearer",
        <<jwt, requireLender, scope("write:pool"), valid, once>>) >>

dsar_routes == <<
  R("POST", "/privacy/dsar/access", "bearer", <<limit("strict"), jwt, valid>>),
  R("POST", "/privacy/dsar/delete", "bearer", <<limit("strict"), jwt, valid>>),
  R("POST", "/privacy/anonymize", "bearer", <<limit("strict"), jwt, valid>>) >>

export_routes == <<
  R("GET", "/privacy/export/:publicKey", "bearer", <<limit("strict"), jwt, valid>>),
  R("GET", "/privacy/dsar/pending", "apikey", <<key("admin:privacy")>>),
  R("GET", "/privacy/dsar/:dsarId", "bearer", <<jwt>>) >>

remittance_create_routes == <<
  R("POST", "/remittances", "bearer",
        <<limit("strict"), jwt, scope("write:remittances"), valid, once>>),
  R("GET", "/remittances", "bearer", <<jwt, scope("read:remittances"), valid>>) >>

remittance_submit_routes == <<
  R("GET", "/remittances/:id", "bearer", <<jwt, scope("read:remittances"), valid>>),
  R("POST", "/remittances/:id/submit", "bearer",
        <<limit("strict"), jwt, scope("write:remittances"), valid, once>>) >>

score_view_routes == <<
  R("GET", "/score/:userId", "bearer",
        <<jwt, limit("score"), scope("read:score"), tenant, valid>>),
  R("GET", "/score/:walletAddress/history", "bearer",
        <<jwt, limit("score"), scope("read:score"), tenant, valid>>) >>

score_detail_routes == <<
  R("GET", "/score/:walletAddress/nft", "bearer",
        <<jwt, limit("score"), scope("read:score"), tenant, valid>>),
  R("GET", "/score/:userId/breakdown", "bearer",
        <<jwt, limit("score"), scope("read:score"), tenant, valid>>) >>

score_update_routes == <<
  R("POST", "/score/update", "apikey",
        <<key("admin:loans"), limit("score update"), valid>>) >>

history_routes == <<
  R("GET", "/history/:userId", "bearer", <<limit("simulation"), jwt, tenant, valid>>),
  R("POST", "/simulate", "bearer", <<limit("simulation"), jwt, valid>>) >>

simulation_routes == <<
  R("POST", "/simulate/transaction", "bearer", <<limit("simulation"), jwt, valid>>) >>

transactionRoutes == <<
  R("GET", "/transactions/me", "bearer", <<jwt>>) >>

userRoutes == <<
  R("GET", "/user/profile", "bearer", <<jwt>>),
  R("PATCH", "/user/profile", "bearer", <<jwt, valid>>) >>

(* Routes of app.ts and statusRoutes.ts themselves.                        *)
app_routes == <<
  R("GET", "/", "none", <<>>),
  R("GET", "/version", "none", <<>>),
  R("GET", "/health", "none", <<>>),
  R("GET", "/health/indexer", "none", <<>>),
  R("GET", "/health/deep", "none", <<>>),
  R("GET", "/metrics", "none", <<key("admin:indexer")>>),
  R("GET", "/api/status/pause", "none", <<>>) >>

Routes ==
  loan_dispute_routes \o dispute_routes \o dispute_decision_routes \o
  governance_routes \o maintenance_routes \o admin_webhook_routes \o
  operations_user_routes \o operations_system_routes \o agentFloatRoutes \o
  assignment_routes \o agent_dashboard_routes \o auditRoutes \o
  login_routes \o session_routes \o eventRoutes \o indexer_event_routes \o
  indexer_webhook_routes \o loan_cancel_routes \o loan_contest_routes \o
  loan_list_routes \o loan_schedule_routes \o loan_view_routes \o
  loan_request_routes \o loan_collateral_routes \o loan_change_routes \o
  loan_repayment_routes \o loan_submit_routes \o notification_view_routes \o
  notification_mark_routes \o pool_view_routes \o depositor_routes \o
  pool_build_routes \o pool_submit_routes \o dsar_routes \o export_routes \o
  remittance_create_routes \o remittance_submit_routes \o
  score_view_routes \o score_detail_routes \o score_update_routes \o
  history_routes \o simulation_routes \o transactionRoutes \o userRoutes \o
  app_routes
=============================================================================
