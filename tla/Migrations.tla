----------------------------- MODULE Migrations -----------------------------
(***************************************************************************)
(* The database schema, as backend/migrations/*.cjs build it: fifty-one    *)
(* migrations that node-pg-migrate applies in filename order (up) and      *)
(* undoes from the last one back (down).  The schema is the set of its     *)
(* facts, <<kind, relation, name>>: a table or a view, a column, an index, *)
(* a unique key, a check, a policy; a function belongs to no relation.     *)
(* Types, defaults and the rewriting of old rows are left out.             *)
(*                                                                         *)
(* node-pg-migrate itself is external.  One "up" is one transaction over   *)
(* all that is pending, save that a migration that asks for no transaction *)
(* commits what came before it; a down undoes one migration.               *)
(***************************************************************************)
EXTENDS Naturals, SequencesExt

tables(T) == {<<"table", t, t>> : t \in T}
view_facts(V) == {<<"view", v, v>> : v \in V}
columns(t, C) == {<<"column", t, c>> : c \in C}
indexes(t, N) == {<<"index", t, n>> : n \in N}
uniques(t, N) == {<<"unique", t, n>> : n \in N}
checks(t, N) == {<<"check", t, n>> : n \in N}
functions(N) == {<<"function", "public", n>> : n \in N}

(* What one statement of a migration does: it is skipped unless the facts   *)
(* "given" hold and none of "unless" does (IF EXISTS, IF NOT EXISTS and the *)
(* DO blocks); it fails when a fact it needs is missing or one it would     *)
(* collide with is there.  A loop over tables adds, for "each" pair, the    *)
(* second fact where the first holds.                                       *)
Statement == [given |-> {}, unless |-> {}, needs |-> {}, clear |-> {},
              drops |-> {}, wipes |-> {}, moves |-> <<"", "">>, adds |-> {}, each |-> {}]

createTable(t, C, keys) ==
    [Statement EXCEPT !.clear = tables({t}) \cup view_facts({t}),
                      !.adds = tables({t}) \cup columns(t, C) \cup keys]
createTableIfNotExists(t, C, keys) ==
    [createTable(t, C, keys) EXCEPT !.unless = tables({t}), !.clear = view_facts({t})]
dropTable(t) == [Statement EXCEPT !.needs = tables({t}), !.wipes = {t}]
dropTableIfExists(t) == [Statement EXCEPT !.given = tables({t}), !.wipes = {t}]
renameTable(t, u) ==
    [Statement EXCEPT !.needs = tables({t}), !.clear = tables({u}) \cup view_facts({u}), !.moves = <<t, u>>]
addColumns(t, C) ==
    [Statement EXCEPT !.needs = tables({t}), !.clear = columns(t, C), !.adds = columns(t, C)]
addColumnIfNotExists(t, c) ==
    [addColumns(t, {c}) EXCEPT !.unless = columns(t, {c})]
dropColumns(t, C) == [Statement EXCEPT !.needs = columns(t, C), !.drops = columns(t, C)]
dropColumnIfExists(t, c) == [Statement EXCEPT !.given = columns(t, {c}), !.drops = columns(t, {c})]
renameColumn(t, c, d) ==
    [Statement EXCEPT !.needs = columns(t, {c}), !.clear = columns(t, {d}),
                      !.drops = columns(t, {c}), !.adds = columns(t, {d})]
renameColumnIfExists(t, c, d) == [renameColumn(t, c, d) EXCEPT !.given = columns(t, {c})]
createIndex(t, n) ==
    [Statement EXCEPT !.needs = tables({t}), !.clear = indexes(t, {n}), !.adds = indexes(t, {n})]
createIndexIfNotExists(t, n) == [createIndex(t, n) EXCEPT !.unless = indexes(t, {n})]
dropIndex(t, n) == [Statement EXCEPT !.needs = indexes(t, {n}), !.drops = indexes(t, {n})]
dropIndexIfExists(t, n) == [dropIndex(t, n) EXCEPT !.given = indexes(t, {n})]
renameIndexIfExists(t, n, m) ==
    [Statement EXCEPT !.given = indexes(t, {n}), !.clear = indexes(t, {m}),
                      !.drops = indexes(t, {n}), !.adds = indexes(t, {m})]
addConstraint(keys, t) ==
    [Statement EXCEPT !.needs = tables({t}), !.clear = keys, !.adds = keys]
dropConstraint(keys) == [Statement EXCEPT !.needs = keys, !.drops = keys]
dropConstraintIfExists(keys) == [Statement EXCEPT !.given = keys, !.drops = keys]
createView(v, t, C, selected) ==
    [Statement EXCEPT !.needs = columns(t, selected), !.clear = tables({v}) \cup view_facts({v}),
                      !.adds = view_facts({v}) \cup columns(v, C)]
dropViewIfExists(v) == [Statement EXCEPT !.given = view_facts({v}), !.wipes = {v}]
createFunctions(N) == [Statement EXCEPT !.adds = functions(N)]
\* PostgreSQL retypes no column that a view reads.
alterColumn(t, c, v) == [Statement EXCEPT !.needs = columns(t, {c}), !.clear = view_facts({v})]

createIndexes(t, names) ==
    LET all == indexes(t, {names[i] : i \in DOMAIN names})
    IN  <<[Statement EXCEPT !.needs = tables({t}), !.clear = all, !.adds = all]>>

-----------------------------------------------------------------------------
(* The migrations, in filename order. *)

M(up, down) == [up |-> up, down |-> down, transaction |-> TRUE]

initial_schema == M(
    <<createTable("scores", {"id", "user_id", "current_score", "updated_at"}, uniques("scores", {"user_id"})),
      createTable("remittance_history", {"id", "user_id", "amount", "month", "status", "created_at"}, {}),
      createIndex("remittance_history", "remittance_history_user_id_index")>>,
    <<dropTable("remittance_history"), dropTable("scores")>>)

LoanEventColumns ==
    {"id", "event_id", "event_type", "loan_id", "borrower", "amount", "ledger", "ledger_closed_at",
     "tx_hash", "contract_id", "topics", "value", "created_at"}

loan_events_schema == M(
    <<createTable("loan_events", LoanEventColumns, uniques("loan_events", {"event_id"}))>>
    \o createIndexes("loan_events",
         <<"loan_events_event_type_index", "loan_events_borrower_index", "loan_events_loan_id_index",
           "loan_events_ledger_index", "loan_events_tx_hash_index">>)
    \o <<createTable("indexer_state", {"id", "last_indexed_ledger", "last_indexed_cursor", "updated_at"}, {})>>,
    <<dropTable("indexer_state"), dropTable("loan_events")>>)

webhook_subscriptions == M(
    <<createTable("webhook_subscriptions",
        {"id", "callback_url", "event_types", "secret", "is_active", "created_at", "updated_at"}, {}),
      createTable("webhook_deliveries",
        {"id", "subscription_id", "event_id", "event_type", "payload", "attempt_count", "last_status_code",
         "last_error", "delivered_at", "next_retry_at", "created_at", "updated_at"}, {}),
      createIndex("webhook_subscriptions", "webhook_subscriptions_is_active_index")>>
    \o createIndexes("webhook_deliveries",
         <<"webhook_deliveries_event_id_index", "webhook_deliveries_subscription_id_index",
           "webhook_deliveries_next_retry_at_delivered_at_index">>),
    <<dropTable("webhook_deliveries"), dropTable("webhook_subscriptions")>>)

user_profiles == M(
    <<createTable("user_profiles",
        {"id", "public_key", "display_name", "email", "phone", "email_enabled", "sms_enabled",
         "created_at", "updated_at", "metadata"}, uniques("user_profiles", {"public_key"})),
      createIndex("user_profiles", "user_profiles_public_key_index")>>,
    <<dropTable("user_profiles")>>)

loan_history == M(
    <<createTable("loan_history",
        {"id", "loan_id", "borrower_public_key", "lender_public_key", "principal_amount", "interest_rate_bps",
         "principal_paid", "interest_paid", "accrued_interest", "status", "due_date", "requested_at",
         "approved_at", "repaid_at", "defaulted_at", "created_at", "updated_at", "metadata"}, {})>>
    \o createIndexes("loan_history",
         <<"loan_history_loan_id_index", "loan_history_borrower_public_key_index",
           "loan_history_lender_public_key_index", "loan_history_status_index">>),
    <<dropTable("loan_history")>>)

indexed_events == M(
    <<createTable("indexed_events",
        {"id", "event_id", "event_type", "contract_id", "tx_hash", "ledger", "ledger_closed_at", "topics",
         "value", "processed", "created_at", "updated_at"}, uniques("indexed_events", {"event_id"}))>>
    \o createIndexes("indexed_events",
         <<"indexed_events_event_type_index", "indexed_events_contract_id_index", "indexed_events_ledger_index",
           "indexed_events_tx_hash_index", "indexed_events_processed_index">>),
    <<dropTable("indexed_events")>>)

scores_add_created_at == M(<<addColumnIfNotExists("scores", "created_at")>>,
                           <<dropColumnIfExists("scores", "created_at")>>)

notifications == M(
    <<createTable("notifications",
        {"id", "user_id", "type", "title", "message", "loan_id", "read", "created_at"}, {})>>
    \o createIndexes("notifications",
         <<"notifications_user_id_index", "notifications_read_index", "notifications_user_id_read_index",
           "notifications_created_at_index">>),
    <<dropTable("notifications")>>)

add_interest_rate_to_loan_events == M(
    <<addColumns("loan_events", {"interest_rate_bps", "term_ledgers"})>>,
    <<dropColumns("loan_events", {"interest_rate_bps", "term_ledgers"})>>)

\* The ledger index of an earlier migration has another name: this one adds a
\* second, and its down leaves it.
loan_events_composite_indexes == M(
    <<createIndexIfNotExists("loan_events", "idx_loan_events_borrower_event_type"),
      createIndexIfNotExists("loan_events", "idx_loan_events_loan_id_event_type"),
      createIndexIfNotExists("loan_events", "idx_loan_events_event_type_loan_id"),
      createIndexIfNotExists("loan_events", "idx_loan_events_ledger"),
      createIndexIfNotExists("loan_events", "idx_loan_events_pool_deposits_withdraws")>>,
    <<dropIndexIfExists("loan_events", "idx_loan_events_pool_deposits_withdraws"),
      dropIndexIfExists("loan_events", "idx_loan_events_event_type_loan_id"),
      dropIndexIfExists("loan_events", "idx_loan_events_loan_id_event_type"),
      dropIndexIfExists("loan_events", "idx_loan_events_borrower_event_type")>>)

StatusKey == uniques("loan_events", {"loan_events_unique_status_event_per_loan"})

unique_loan_status_events == M(<<addConstraint(StatusKey, "loan_events")>>,
                               <<dropConstraintIfExists(StatusKey)>>)

quarantine_events == M(
    <<createTable("quarantine_events",
        {"id", "event_id", "ledger", "tx_hash", "contract_id", "raw_xdr", "error_message", "quarantined_at"},
        uniques("quarantine_events", {"event_id"})),
      createIndex("quarantine_events", "quarantine_events_ledger_index"),
      createIndex("quarantine_events", "quarantine_events_quarantined_at_index")>>,
    <<dropTable("quarantine_events")>>)

transaction_submissions == M(
    <<createFunctions({"update_updated_at_column"}),
      createTable("transaction_submissions",
        {"id", "tx_hash", "status", "submitted_at", "submitted_by", "transaction_type", "result_xdr",
         "created_at", "updated_at"}, uniques("transaction_submissions", {"tx_hash"}))>>
    \o createIndexes("transaction_submissions",
         <<"transaction_submissions_submitted_at_index", "transaction_submissions_submitted_by_index",
           "transaction_submissions_status_index", "transaction_submissions_transaction_type_index">>),
    <<dropTable("transaction_submissions")>>)

create_remittances_table == M(
    <<createTable("remittances",
        {"id", "sender_id", "recipient_address", "amount", "from_currency", "to_currency", "memo", "status",
         "transaction_hash", "xdr", "error_message", "created_at", "updated_at"},
        checks("remittances", {"status"}))>>
    \o createIndexes("remittances",
         <<"remittances_sender_id_index", "remittances_sender_id_status_index",
           "remittances_created_at_index", "remittances_transaction_hash_index">>),
    <<dropTable("remittances")>>)

audit_logs == M(
    <<createTable("audit_logs", {"id", "actor", "action", "target", "payload", "ip_address", "created_at"}, {})>>
    \o createIndexes("audit_logs",
         <<"audit_logs_actor_index", "audit_logs_action_index", "audit_logs_created_at_index">>),
    <<dropTable("audit_logs")>>)

RetryIndexesDropped ==
    <<dropIndexIfExists("webhook_deliveries", "webhook_deliveries_subscription_id_event_id_index"),
      dropIndexIfExists("webhook_deliveries", "webhook_deliveries_next_retry_at_index")>>

RetryColumnsEnsured ==
    <<addColumnIfNotExists("webhook_deliveries", "payload"),
      addColumnIfNotExists("webhook_deliveries", "next_retry_at"),
      createIndexIfNotExists("webhook_deliveries", "webhook_deliveries_next_retry_at_index"),
      createIndexIfNotExists("webhook_deliveries", "webhook_deliveries_subscription_id_event_id_index")>>

webhook_retry_logic_dropping == M(
    RetryColumnsEnsured,
    RetryIndexesDropped \o <<dropColumnIfExists("webhook_deliveries", "next_retry_at")>>)

webhook_retry_logic == M(RetryColumnsEnsured, RetryIndexesDropped)

ApprovedKey == uniques("loan_events", {"loan_events_unique_approved_event_per_loan"})

ensure_unique_loan_approved_events == M(
    <<[addConstraint(ApprovedKey, "loan_events") EXCEPT !.unless = StatusKey \cup ApprovedKey]>>,
    <<dropConstraintIfExists(ApprovedKey)>>)

notifications_add_status == M(
    <<addColumns("notifications", {"status"}),
      addConstraint(checks("notifications", {"notifications_status_check"}), "notifications"),
      createIndexIfNotExists("notifications", "notifications_status_index"),
      createIndexIfNotExists("notifications", "idx_notifications_status_created_at")>>,
    <<dropIndexIfExists("notifications", "idx_notifications_status_created_at"),
      dropIndexIfExists("notifications", "notifications_status_index"),
      dropConstraintIfExists(checks("notifications", {"notifications_status_check"})),
      dropColumns("notifications", {"status"})>>)

add_loan_disputes == M(
    <<createTableIfNotExists("loan_disputes",
        {"id", "loan_id", "borrower", "reason", "status", "admin_note", "resolution", "created_at",
         "resolved_at"}, {}),
      createIndexIfNotExists("loan_disputes", "idx_loan_disputes_status"),
      createIndexIfNotExists("loan_disputes", "idx_loan_disputes_borrower"),
      createIndexIfNotExists("loan_disputes", "idx_loan_disputes_loan_id")>>,
    <<dropTableIfExists("loan_disputes")>>)

eventIdTables == <<"loan_events", "indexed_events", "quarantine_events">>

event_id_unique_constraints == M(
    [i \in DOMAIN eventIdTables |->
        [addConstraint(uniques(eventIdTables[i], {"event_id_unique_idx"}), eventIdTables[i])
         EXCEPT !.unless = uniques(eventIdTables[i], {"event_id", "event_id_unique_idx"})]],
    [i \in DOMAIN eventIdTables |-> dropConstraintIfExists(uniques(eventIdTables[i], {"event_id_unique_idx"}))])

ensure_loan_events_loan_id_index == M(
    <<[createIndex("loan_events", "idx_loan_events_loan_id")
       EXCEPT !.unless = StatusKey \cup indexes("loan_events",
           {"loan_events_loan_id_index", "idx_loan_events_loan_id", "idx_loan_events_loan_id_event_type"})]>>,
    <<dropIndexIfExists("loan_events", "idx_loan_events_loan_id")>>)

webhook_max_attempts == M(<<addColumns("webhook_subscriptions", {"max_attempts"})>>,
                          <<dropColumns("webhook_subscriptions", {"max_attempts"})>>)

user_notification_preferences == M(
    <<[createTable("user_notification_preferences",
         {"user_id", "email_enabled", "sms_enabled", "phone", "created_at", "updated_at"},
         uniques("user_notification_preferences", {"user_id"}))
       EXCEPT !.needs = uniques("user_profiles", {"public_key"})]>>,
    <<dropTable("user_notification_preferences")>>)

add_loan_events_missing_indexes == M(
    <<createIndexIfNotExists("loan_events", "idx_loan_events_borrower"),
      createIndexIfNotExists("loan_events", "idx_loan_events_event_type"),
      createIndexIfNotExists("loan_events", "idx_loan_events_loan_id_event_type"),
      createIndexIfNotExists("loan_events", "idx_loan_events_created_at")>>,
    <<dropIndexIfExists("loan_events", "idx_loan_events_created_at"),
      dropIndexIfExists("loan_events", "idx_loan_events_loan_id_event_type"),
      dropIndexIfExists("loan_events", "idx_loan_events_event_type"),
      dropIndexIfExists("loan_events", "idx_loan_events_borrower")>>)

RenamedIndexes ==
    <<<<"idx_loan_events_borrower_event_type", "idx_contract_events_address_event_type">>,
      <<"idx_loan_events_loan_id_event_type", "idx_contract_events_loan_id_event_type">>,
      <<"idx_loan_events_event_type_loan_id", "idx_contract_events_event_type_loan_id">>,
      <<"idx_loan_events_ledger", "idx_contract_events_ledger">>,
      <<"idx_loan_events_pool_deposits_withdraws", "idx_contract_events_pool_deposits_withdraws">>,
      <<"loan_events_event_type_index", "contract_events_event_type_index">>,
      <<"loan_events_borrower_index", "contract_events_address_index">>,
      <<"loan_events_loan_id_index", "contract_events_loan_id_index">>,
      <<"loan_events_ledger_index", "contract_events_ledger_index">>,
      <<"loan_events_tx_hash_index", "contract_events_tx_hash_index">>>>

\* The view that keeps the old name: "address AS borrower", and neither the
\* interest rate nor the term.
LoanEventsView ==
    createView("loan_events", "contract_events", LoanEventColumns,
               (LoanEventColumns \ {"borrower"}) \cup {"address"})

unified_contract_events == M(
    <<renameTable("loan_events", "contract_events"),
      renameColumn("contract_events", "borrower", "address")>>
    \o [i \in DOMAIN RenamedIndexes |->
          renameIndexIfExists("contract_events", RenamedIndexes[i][1], RenamedIndexes[i][2])]
    \o <<LoanEventsView>>,
    <<dropViewIfExists("loan_events"),
      renameColumn("contract_events", "address", "borrower"),
      renameTable("contract_events", "loan_events")>>
    \o [i \in DOMAIN RenamedIndexes |->
          renameIndexIfExists("loan_events", RenamedIndexes[i][2], RenamedIndexes[i][1])])

\* Its down renames the columns back and leaves indexer_state.contract.
ensure_core_tables == M(
    <<createTableIfNotExists("scores", {"id", "borrower", "score", "updated_at"}, uniques("scores", {"borrower"})),
      renameColumnIfExists("scores", "user_id", "borrower"),
      renameColumnIfExists("scores", "current_score", "score"),
      [createTable("loan_events", {"id", "loan_id", "borrower", "event_type", "amount", "ledger", "created_at"}, {})
       EXCEPT !.unless = tables({"loan_events"}) \cup view_facts({"loan_events"}), !.clear = {}],
      createTableIfNotExists("indexer_state", {"id", "contract", "last_ledger", "updated_at"},
                             uniques("indexer_state", {"contract"})),
      renameColumnIfExists("indexer_state", "last_indexed_ledger", "last_ledger"),
      [addConstraint(columns("indexer_state", {"contract"})
                       \cup uniques("indexer_state", {"contract"}), "indexer_state")
       EXCEPT !.unless = columns("indexer_state", {"contract"})]>>,
    <<renameColumnIfExists("scores", "borrower", "user_id"),
      renameColumnIfExists("scores", "score", "current_score"),
      renameColumnIfExists("indexer_state", "last_ledger", "last_indexed_ledger")>>)

EventKey(t) == uniques(t, {"loan_type_ledger"})

idempotent_loan_events == M(
    <<[Statement EXCEPT !.needs = columns("contract_events", {"loan_id", "event_type", "ledger"})],
      [addConstraint(EventKey("contract_events"), "contract_events")
         EXCEPT !.unless = EventKey("contract_events"), !.given = tables({"contract_events"})],
      [addConstraint(EventKey("loan_events"), "loan_events")
         EXCEPT !.unless = tables({"contract_events"}) \cup EventKey("loan_events"),
                !.given = tables({"loan_events"})]>>,
    <<dropConstraintIfExists(EventKey("contract_events")),
      dropConstraintIfExists(EventKey("loan_events"))>>)

borrower_loans_filter_index == M(
    <<createIndexIfNotExists("contract_events", "idx_contract_events_address_type_closed_at")>>,
    <<dropIndexIfExists("contract_events", "idx_contract_events_address_type_closed_at")>>)

remittance_filters_index == M(
    createIndexes("remittances", <<"idx_remittances_sender_status_created", "idx_remittances_sender_created">>),
    <<dropIndex("remittances", "idx_remittances_sender_status_created"),
      dropIndex("remittances", "idx_remittances_sender_created")>>)

notification_filters_index == M(
    createIndexes("notifications",
        <<"idx_notifications_user_type_status_created", "idx_notifications_user_created">>),
    <<dropIndex("notifications", "idx_notifications_user_type_status_created"),
      dropIndex("notifications", "idx_notifications_user_created")>>)

add_digest_frequency == M(<<addColumns("user_notification_preferences", {"digest_frequency"})>>,
                          <<dropColumns("user_notification_preferences", {"digest_frequency"})>>)

add_action_url_to_notifications == M(<<addColumns("notifications", {"action_url"})>>,
                                     <<dropColumns("notifications", {"action_url"})>>)

\* CREATE INDEX CONCURRENTLY: pgm.noTransaction().
loan_events_type_index ==
    [M(<<createIndexIfNotExists("contract_events", "idx_contract_events_type_created_at")>>,
       <<dropIndexIfExists("contract_events", "idx_contract_events_type_created_at")>>)
     EXCEPT !.transaction = FALSE]

add_status_to_audit_logs == M(<<addColumns("audit_logs", {"status"})>>,
                              <<dropColumns("audit_logs", {"status"})>>)

cross_contract_reconciliation == M(
    <<createTable("cross_contract_reconciliation",
        {"id", "intent_key", "loan_id", "borrower", "operation", "disbursement_ledger",
         "disbursement_tx_hash", "expected_score_delta", "score_applied", "score_ledger", "state",
         "attempts", "last_checked_at", "created_at", "updated_at"},
        uniques("cross_contract_reconciliation", {"intent_key"})
          \cup checks("cross_contract_reconciliation", {"operation_check", "state_check"}))>>
    \o createIndexes("cross_contract_reconciliation",
         <<"cross_contract_reconciliation_state_index", "cross_contract_reconciliation_borrower_index",
           "cross_contract_reconciliation_loan_id_index">>),
    <<dropTable("cross_contract_reconciliation")>>)

pii_field_encryption == M(
    <<createTable("pii_access_log",
        {"id", "actor", "record_id", "field", "reason", "request_id", "created_at"}, {})>>
    \o createIndexes("pii_access_log", <<"idx_pii_access_log_record_created", "idx_pii_access_log_actor_created">>),
    <<dropTable("pii_access_log")>>)

PagedTables ==
    <<<<"contract_events", "idx_contract_events_seek">>, <<"remittances", "idx_remittances_seek">>,
      <<"loan_disputes", "idx_loan_disputes_seek">>>>

\* The disputes are paged only where the table exists.
if_paged(t, statement) ==
    [statement EXCEPT !.given = IF t = "loan_disputes" THEN tables({t}) ELSE {}]

keyset_pagination_seq_columns == M(
    [i \in DOMAIN PagedTables |-> if_paged(PagedTables[i][1], addColumns(PagedTables[i][1], {"seq"}))]
    \o [i \in DOMAIN PagedTables |->
          if_paged(PagedTables[i][1], createIndex(PagedTables[i][1], PagedTables[i][2]))],
    [i \in DOMAIN PagedTables |-> if_paged(PagedTables[i][1], dropIndex(PagedTables[i][1], PagedTables[i][2]))]
    \o [i \in DOMAIN PagedTables |-> if_paged(PagedTables[i][1], dropColumns(PagedTables[i][1], {"seq"}))])

create_pause_state_table == M(
    <<createTableIfNotExists("pause_state",
        {"id", "is_paused", "paused_at", "reason", "contracts", "updated_at"}, {})>>,
    <<dropTableIfExists("pause_state")>>)

create_ledger_checkpoints == M(
    <<createTable("ledger_checkpoints", {"id", "contract", "range_start", "range_end", "status", "created_at"}, {}),
      addConstraint(checks("ledger_checkpoints", {"status_check", "range_check"}), "ledger_checkpoints")>>
    \o createIndexes("ledger_checkpoints",
         <<"idx_ledger_checkpoints_contract_range_end", "idx_ledger_checkpoints_contract_status">>),
    <<dropTable("ledger_checkpoints")>>)

MONEY_COLUMNS ==
    <<<<"contract_events", "amount">>, <<"loan_history", "principal_amount">>,
      <<"loan_history", "principal_paid">>, <<"loan_history", "interest_paid">>,
      <<"loan_history", "accrued_interest">>>>

retyped(m) == alterColumn(m[1], m[2], "loan_events")

money_stroops_integer == M(
    <<dropViewIfExists("loan_events")>>
    \o [i \in DOMAIN MONEY_COLUMNS |-> retyped(MONEY_COLUMNS[i])]
    \o [i \in DOMAIN MONEY_COLUMNS |->
          addConstraint(checks(MONEY_COLUMNS[i][1], {MONEY_COLUMNS[i][2]}), MONEY_COLUMNS[i][1])]
    \o <<LoanEventsView>>,
    <<dropViewIfExists("loan_events")>>
    \o [i \in DOMAIN MONEY_COLUMNS |-> dropConstraint(checks(MONEY_COLUMNS[i][1], {MONEY_COLUMNS[i][2]}))]
    \o [i \in DOMAIN MONEY_COLUMNS |-> retyped(MONEY_COLUMNS[i])]
    \o <<LoanEventsView>>)

create_dsar_requests == M(
    <<createTable("dsar_requests",
        {"id", "public_key", "type", "status", "reason", "created_at", "completed_at"},
        checks("dsar_requests", {"type", "status"}))>>
    \o createIndexes("dsar_requests",
         <<"dsar_requests_public_key_index", "dsar_requests_status_index", "dsar_requests_created_at_index">>),
    <<dropTable("dsar_requests")>>)

agent_float_transfers == M(
    <<createTable("agent_float_transfer_limits",
        {"id", "from_agent", "to_agent", "daily_limit", "weekly_limit", "created_at", "updated_at"}, {}),
      addConstraint(uniques("agent_float_transfer_limits", {"unique_agent_pair_limits"}),
                    "agent_float_transfer_limits")>>
    \o createIndexes("agent_float_transfer_limits",
         <<"agent_float_transfer_limits_from_agent_index", "agent_float_transfer_limits_to_agent_index">>)
    \o <<createTable("agent_float_transfers",
        {"id", "from_agent", "to_agent", "amount", "reason", "status", "required_approvals",
         "approval_count", "created_by", "tx_hash", "created_at", "updated_at"}, {})>>
    \o createIndexes("agent_float_transfers",
         <<"agent_float_transfers_from_agent_index", "agent_float_transfers_to_agent_index",
           "agent_float_transfers_status_index", "agent_float_transfers_created_at_index">>)
    \o <<createTable("agent_float_transfer_approvals",
        {"id", "transfer_id", "approver", "role", "approved_at"}, {}),
      addConstraint(uniques("agent_float_transfer_approvals", {"unique_transfer_approver"}),
                    "agent_float_transfer_approvals"),
      createIndex("agent_float_transfer_approvals", "agent_float_transfer_approvals_transfer_id_index")>>,
    <<dropTable("agent_float_transfer_approvals"), dropTable("agent_float_transfers"),
      dropTable("agent_float_transfer_limits")>>)

reorg_safe_indexer == M(
    <<addColumns("indexer_state", {"last_finalized_ledger"}),
      [Statement EXCEPT !.needs = columns("indexer_state", {"last_ledger"})],
      addColumns("ledger_checkpoints", {"range_digest"})>>,
    <<dropColumns("ledger_checkpoints", {"range_digest"}),
      dropColumns("indexer_state", {"last_finalized_ledger"})>>)

kyc_aml_compliance == M(
    <<createTable("compliance_profiles",
        {"subject_id", "provider", "provider_reference", "status", "country_code", "sanctions_match",
         "pep_match", "adverse_media_match", "screened_at", "next_screening_at", "created_at",
         "updated_at"}, uniques("compliance_profiles", {"subject_id"})),
      addConstraint(checks("compliance_profiles", {"status"}), "compliance_profiles"),
      createTable("compliance_audit_log",
        {"id", "subject_id", "event_type", "decision", "provider_reference", "reason_codes", "metadata",
         "created_at"}, {}),
      createIndex("compliance_audit_log", "compliance_audit_log_subject_id_created_at_index"),
      [createFunctions({"prevent_compliance_audit_mutation"})
         EXCEPT !.clear = functions({"prevent_compliance_audit_mutation"})],
      createTable("transaction_monitoring_alerts",
        {"id", "subject_id", "transaction_reference", "risk_score", "rule_codes", "status", "created_at"}, {}),
      createIndex("transaction_monitoring_alerts", "transaction_monitoring_alerts_subject_id_created_at_index"),
      createTable("sar_reports",
        {"id", "alert_id", "subject_id", "narrative", "filing_status", "provider_reference",
         "generated_at", "filed_at"}, {})>>,
    <<dropTable("sar_reports"), dropTable("transaction_monitoring_alerts"), dropTable("compliance_audit_log"),
      [Statement EXCEPT !.drops = functions({"prevent_compliance_audit_mutation"})],
      dropTable("compliance_profiles")>>)

tamper_proof_audit == M(
    <<createTable("audit_epochs",
        {"id", "epoch_start", "epoch_end", "merkle_root", "leaf_count", "anchor_status",
         "stellar_tx_hash", "anchored_at", "created_at"}, uniques("audit_epochs", {"epoch_start"})),
      addConstraint(checks("audit_epochs", {"audit_epochs_status_check"}), "audit_epochs"),
      [createTable("audit_merkle_leaves", {"epoch_id", "log_id", "leaf_index", "leaf_hash"},
                   uniques("audit_merkle_leaves", {"log_id"}))
       EXCEPT !.needs = tables({"audit_logs"})],
      addConstraint(uniques("audit_merkle_leaves", {"epoch_index"}), "audit_merkle_leaves"),
      [createFunctions({"protect_audit_history"}) EXCEPT !.clear = functions({"protect_audit_history"})]>>,
    <<[Statement EXCEPT !.drops = functions({"protect_audit_history"})],
      dropTable("audit_merkle_leaves"), dropTable("audit_epochs")>>)

\* Each index of a table that is there; agent_vaults is in no migration.
PerfIndexes ==
    <<<<"scores", "borrower", "idx_scores_borrower_date">>,
      <<"contract_events", "address", "idx_contract_events_address_created">>,
      <<"agent_vaults", "agent_address", "idx_agent_vaults_agent">>,
      <<"agent_vaults", "is_active", "idx_agent_vaults_active">>,
      <<"user_notification_preferences", "user_id", "idx_notif_prefs_user">>>>

perf_indexes == M(
    [i \in DOMAIN PerfIndexes |->
        [createIndexIfNotExists(PerfIndexes[i][1], PerfIndexes[i][3])
         EXCEPT !.given = tables({PerfIndexes[i][1]}), !.needs = columns(PerfIndexes[i][1], {PerfIndexes[i][2]})]],
    [i \in DOMAIN PerfIndexes |-> dropIndexIfExists(PerfIndexes[i][1], PerfIndexes[i][3])])

-----------------------------------------------------------------------------
(* 1808000000000_enable-rls: row-level security. *)

policies(t, N) == {<<"policy", t, n>> : n \in N}

ClaimFunctions ==
    {"dukapay_request_claim", "dukapay_request_wallet", "dukapay_request_role", "dukapay_request_is_admin",
     "dukapay_request_is_agent", "dukapay_request_is_auditor", "dukapay_request_is_lender"}

AssignmentTable ==
    <<createTableIfNotExists("agent_assignments",
        {"id", "agent_public_key", "borrower_public_key", "created_by", "created_at"},
        uniques("agent_assignments", {"agent_assignments_unique"})),
      createIndex("agent_assignments", "idx_agent_assignments_borrower"),
      createIndex("agent_assignments", "idx_agent_assignments_agent")>>

\* Table, owner column, whether assigned agents read it, whether owners write it.
OWNED_TABLES ==
    <<<<"scores", "borrower", FALSE, FALSE>>, <<"remittance_history", "user_id", TRUE, TRUE>>,
      <<"remittances", "sender_id", TRUE, TRUE>>, <<"loan_history", "borrower_public_key", TRUE, FALSE>>,
      <<"contract_events", "address", TRUE, FALSE>>, <<"notifications", "user_id", FALSE, TRUE>>,
      <<"user_profiles", "public_key", TRUE, TRUE>>,
      <<"user_notification_preferences", "user_id", FALSE, TRUE>>,
      <<"transaction_submissions", "submitted_by", FALSE, FALSE>>, <<"dsar_requests", "public_key", TRUE, TRUE>>,
      <<"compliance_profiles", "subject_id", FALSE, FALSE>>,
      <<"transaction_monitoring_alerts", "subject_id", FALSE, FALSE>>,
      <<"cross_contract_reconciliation", "borrower", TRUE, FALSE>>, <<"loans", "borrower", TRUE, FALSE>>,
      <<"agent_vaults", "agent_address", FALSE, FALSE>>, <<"loan_disputes", "borrower", TRUE, TRUE>>>>

SUBJECT_TABLES ==
    <<<<"compliance_audit_log", "subject_id">>, <<"sar_reports", "subject_id">>, <<"pii_access_log", "actor">>>>

INTERNAL_TABLES ==
    <<"audit_logs", "audit_epochs", "audit_merkle_leaves", "quarantine_events", "indexed_events",
      "indexer_state", "ledger_checkpoints", "webhook_subscriptions", "webhook_deliveries", "pause_state">>

allTables == [i \in DOMAIN OWNED_TABLES |-> OWNED_TABLES[i][1]]
             \o [i \in DOMAIN SUBJECT_TABLES |-> SUBJECT_TABLES[i][1]]
             \o INTERNAL_TABLES \o <<"agent_assignments">>

there(t) == <<"table", t, t>>

AdminAndAuditor ==
    {<<there(allTables[i]), <<"policy", allTables[i], n>> >> : i \in DOMAIN allTables, n \in {"admin", "auditor_read"}}

OwnerPolicies ==
    UNION {LET o == OWNED_TABLES[i]
               kinds == {IF o[4] THEN "own" ELSE "own_read"} \cup (IF o[3] THEN {"agent_assigned"} ELSE {})
           IN  {<< <<"column", o[1], o[2]>>, <<"policy", o[1], n>> >> : n \in kinds} : i \in DOMAIN OWNED_TABLES}

SubjectPolicies ==
    {<< <<"column", SUBJECT_TABLES[i][1], SUBJECT_TABLES[i][2]>>, <<"policy", SUBJECT_TABLES[i][1], "subject_own">> >>
        : i \in DOMAIN SUBJECT_TABLES}

LenderPolicies ==
    {<<there(t), <<"policy", t, "lender_assigned">> >> : t \in {"loan_history", "contract_events"}}
    \cup {<< <<"column", "agent_vaults", "agent_address">>, <<"policy", "agent_vaults", "lender_own">> >>}
    \cup {<<there("agent_assignments"), <<"policy", "agent_assignments", n>> >> : n \in {"agent_own", "lender_own"}}

\* CREATE POLICY: an error where the policy exists.
createPolicies(each) ==
    [Statement EXCEPT !.needs = functions(ClaimFunctions), !.clear = {p[2] : p \in each}, !.each = each]

PolicyNames == {"admin", "auditor_read", "own", "own_read", "agent_assigned", "subject_own",
                "lender_assigned", "lender_own", "agent_own"}

\* Drops every policy of every table, then the functions, which PostgreSQL
\* refuses while a policy still calls them.
rls_down ==
    LET all == UNION {policies(allTables[i], PolicyNames) : i \in DOMAIN allTables}
    IN  <<[Statement EXCEPT !.drops = all],
          dropTableIfExists("agent_assignments"),
          [Statement EXCEPT !.clear = all, !.drops = functions(ClaimFunctions)]>>

enable_rls == M(
    <<createFunctions(ClaimFunctions)>> \o AssignmentTable
    \o <<createPolicies(AdminAndAuditor), createPolicies(OwnerPolicies), createPolicies(SubjectPolicies),
         createPolicies(LenderPolicies)>>,
    rls_down)

-----------------------------------------------------------------------------

create_decay_events == M(
    <<createTable("decay_events",
        {"id", "borrower", "event_type", "event_timestamp", "initial_score", "half_life_days",
         "decay_factor", "decayed_score", "created_at"}, {}),
      createIndex("decay_events", "decay_events_borrower_event_timestamp_index"),
      createIndex("decay_events", "decay_events_event_type_index"),
      addConstraint(uniques("decay_events", {"decay_events_unique"}), "decay_events"),
      [Statement EXCEPT !.needs = columns("contract_events", {"address", "event_type", "ledger_closed_at"})
                                    \cup columns("scores", {"score", "borrower"})]>>,
    <<dropTable("decay_events")>>)

\* The try/catch surrounds the queueing of the statement, never its execution:
\* the constraint must be there.  The down does not put it back.
saga_settlement_state ==
    LET t == "cross_contract_reconciliation"
        added == {"settlement_state", "compensation_attempts", "partial_since"}
    IN  M(<<dropConstraint(checks(t, {"state_check"})),
            addColumns(t, added),
            createIndex(t, "cross_contract_reconciliation_settlement_state_index"),
            addConstraint(checks(t, {"settlement_state_check", "state_check2"}), t)>>,
          <<dropConstraint(checks(t, {"settlement_state_check"})),
            dropConstraint(checks(t, {"state_check2"})),
            [dropColumns(t, added) EXCEPT
               !.drops = columns(t, added)
                 \cup indexes(t, {"cross_contract_reconciliation_settlement_state_index"})]>>)

LongSecret == {<<"value", "webhook_subscriptions", "a secret over 255 characters">>}

\* Back to varchar(255): refused while a longer ciphertext is stored.
encrypt_webhook_secrets == M(
    <<[Statement EXCEPT !.needs = columns("webhook_subscriptions", {"secret"})]>>,
    <<[Statement EXCEPT !.needs = columns("webhook_subscriptions", {"secret"}), !.clear = LongSecret]>>)

index_contract_id_and_audit_target == M(
    <<createIndexIfNotExists("contract_events", "idx_contract_events_contract_id_ledger"),
      createIndexIfNotExists("audit_logs", "idx_audit_logs_target")>>,
    <<dropIndexIfExists("audit_logs", "idx_audit_logs_target"),
      dropIndexIfExists("contract_events", "idx_contract_events_contract_id_ledger")>>)

\* Filename order; a shared timestamp is ordered by the name after it.
MigrationFiles ==
    <<initial_schema, loan_events_schema, webhook_subscriptions, user_profiles, loan_history, indexed_events,
      scores_add_created_at, notifications, add_interest_rate_to_loan_events, loan_events_composite_indexes,
      unique_loan_status_events, quarantine_events, transaction_submissions, create_remittances_table,
      audit_logs, webhook_retry_logic, ensure_unique_loan_approved_events, notifications_add_status,
      add_loan_disputes, event_id_unique_constraints, ensure_loan_events_loan_id_index, webhook_max_attempts,
      user_notification_preferences, add_loan_events_missing_indexes, unified_contract_events,
      ensure_core_tables, idempotent_loan_events, borrower_loans_filter_index, remittance_filters_index,
      notification_filters_index, add_digest_frequency, add_action_url_to_notifications,
      loan_events_type_index, add_status_to_audit_logs, cross_contract_reconciliation, pii_field_encryption,
      keyset_pagination_seq_columns, create_pause_state_table, create_ledger_checkpoints,
      money_stroops_integer, create_dsar_requests, agent_float_transfers, reorg_safe_indexer,
      kyc_aml_compliance, tamper_proof_audit, perf_indexes, enable_rls, create_decay_events,
      saga_settlement_state, encrypt_webhook_secrets, index_contract_id_and_audit_target>>

LAST == Len(MigrationFiles)

-----------------------------------------------------------------------------
(* Running them. *)

skipped(s, o) == ~(o.given \subseteq s) \/ o.unless \cap s # {}
fails(s, o) == ~skipped(s, o) /\ (~(o.needs \subseteq s) \/ o.clear \cap s # {})

effect(s, o) ==
    IF skipped(s, o) THEN s
    ELSE {IF f[2] = o.moves[1]
          THEN <<f[1], o.moves[2], IF f[1] = "table" THEN o.moves[2] ELSE f[3]>>
          ELSE f : f \in {g \in s \ o.drops : g[2] \notin o.wipes} \cup o.adds
                        \cup {p[2] : p \in {q \in o.each : q[1] \in s}}}

\* One statement after another; the first that fails ends the migration.
then(before, o) ==
    IF ~before.ok \/ fails(before.schema, o) THEN [before EXCEPT !.ok = FALSE]
    ELSE [before EXCEPT !.schema = effect(before.schema, o)]

executed(s, statements) == FoldLeft(then, [ok |-> TRUE, schema |-> s], statements)

\* The schema of an empty database after its first n migrations.
fresh[n \in 0..LAST] ==
    IF n = 0 THEN {} ELSE UNION {executed(s, MigrationFiles[n].up).schema : s \in {fresh[n - 1]}}

VARIABLES schema, applied, migrating, saved, broken

schemaVars == <<schema, applied, migrating, saved, broken>>

MigrationsInit ==
    /\ schema = {} /\ applied = 0 /\ migrating = FALSE
    /\ saved = [schema |-> {}, applied |-> 0]
    /\ broken = FALSE

commit(s, n) == schema' = s /\ applied' = n /\ saved' = [schema |-> s, applied |-> n]

rollback == schema' = saved.schema /\ applied' = saved.applied /\ UNCHANGED saved

migrate_up ==
    /\ ~migrating /\ applied < LAST
    /\ migrating' = TRUE /\ UNCHANGED <<schema, applied, saved, broken>>

up_applies ==
    /\ migrating /\ applied < LAST
    /\ LET m == MigrationFiles[applied + 1]
           after == executed(schema, m.up)
       IN  /\ after.ok
           /\ IF m.transaction /\ applied + 1 < LAST
              THEN /\ schema' = after.schema /\ applied' = applied + 1
                   /\ UNCHANGED saved
              ELSE commit(after.schema, applied + 1)
    /\ migrating' = (applied + 1 < LAST)
    /\ UNCHANGED broken

\* An error ends "npm run migrate:up" and rolls its transaction back.
up_fails ==
    /\ migrating /\ applied < LAST
    /\ ~executed(schema, MigrationFiles[applied + 1].up).ok
    /\ rollback /\ migrating' = FALSE /\ broken' = TRUE

migrate_down ==
    /\ ~migrating /\ applied > 0
    /\ LET after == executed(schema, MigrationFiles[applied].down)
       IN  /\ after.ok
           /\ commit(after.schema, applied - 1)
    /\ UNCHANGED <<migrating, broken>>

\* The process dies, or the connection: the open transaction goes with it.
migrate_killed == migrating /\ rollback /\ migrating' = FALSE /\ UNCHANGED broken

\* Outside a transaction the index is built, and its row in pgmigrations is not
\* yet written.
killed_unrecorded ==
    /\ migrating /\ applied < LAST /\ ~MigrationFiles[applied + 1].transaction
    /\ commit(executed(schema, MigrationFiles[applied + 1].up).schema, applied)
    /\ migrating' = FALSE /\ UNCHANGED broken

\* A running backend stores an encrypted webhook secret, of any length.
secret_stored ==
    /\ ~migrating /\ applied = LAST /\ schema \cap LongSecret = {}
    /\ commit(schema \cup LongSecret, applied)
    /\ UNCHANGED <<migrating, broken>>

MigrationsNext ==
    \/ migrate_up \/ up_applies \/ up_fails \/ migrate_down
    \/ migrate_killed \/ killed_unrecorded \/ secret_stored

MigrationsSpec == MigrationsInit /\ [][MigrationsNext]_schemaVars

-----------------------------------------------------------------------------
(* Properties. *)

(* However far the schema is rolled back and brought up again, and wherever *)
(* a run of the migrations is killed, the tables, views, columns and unique *)
(* keys that the applied migrations create in an empty database are there:  *)
(* no down takes what an earlier migration made.                            *)
EarlierWorkKept ==
    \A f \in fresh[applied] : f[1] \in {"table", "view", "column", "unique"} => f \in schema

\* The statements that still name loan_events: the indexer's INSERT and the
\* loan-access lookup.
LoanEventStatements ==
    {{"event_id", "event_type", "loan_id", "address", "amount", "ledger", "ledger_closed_at", "tx_hash",
      "contract_id", "topics", "value", "interest_rate_bps", "term_ledgers"},
     {"address", "loan_id"}}

(* Once every migration is applied, the statements of the backend that name *)
(* loan_events find their columns in the view kept "for backward            *)
(* compatibility with existing code that still queries 'loan_events'".      *)
LoanEventsServed ==
    (applied = LAST /\ ~migrating) =>
        \A C \in LoanEventStatements : columns("loan_events", C) \subseteq schema
=============================================================================
