----------------------------- MODULE LoanManager -----------------------------
(***************************************************************************)
(* contracts/loan_manager/src/lib.rs on top of the lending pool it lends   *)
(* from and the credit score it reads and writes.  A call of the manager   *)
(* runs its calls of the pool, of the NFT and of the token inside the same *)
(* transaction, so each entry point is one action that changes all three.  *)
(*                                                                         *)
(* The system starts as the deployment leaves it: the manager is known to  *)
(* the pool and is a minter of the NFT.  Amounts in wallets of borrowers   *)
(* and liquidators are not tracked: a call they cannot fund is a call not  *)
(* made.  check_defaults is check_default for each loan of a list, as      *)
(* consecutive steps.  term_ledgers is only reported, and is left out.     *)
(* LoanDebt.tla has the arithmetic of one loan.                            *)
(***************************************************************************)
EXTENDS LendingPool, RemittanceNFT, LoanDebt

CONSTANTS
    Manager,                     \* the manager's address as a minter of the NFT
    MAX_LOANS,                   \* bound: loans requested
    Terms,                       \* the configuration of the deployment
    MIN_DEFAULT_WINDOW, MAX_LATE_FEE_CAP_BPS, MIN_COLLATERAL_RATIO_BPS, MAX_LIQUIDATION_BONUS_BPS,
    LATE_REPAYMENT_SCORE_PENALTY, DEFAULT_SCORE_PENALTY_POINTS,
    EXTENSION_FEE_BPS, PRICE_SCALE,
    LoanAmounts, Collaterals, Quotes, Prices, NewTerms, Extras, Settings,    \* arguments
    StopSets,                    \* answers of the breaker for the manager: sets of functions
    InitialScores,               \* scores minted before the deployment
    MAX_COLLATERAL               \* bound: collateral of one loan

Limits == {"min_score", "max_loan_amount", "min_repayment", "max_loans"}
Windows == {"grace", "window"}
TermNames == {"default_term", "min_term", "max_term"}
RateNames == {"interest_rate", "late_fee_rate", "min_rate", "max_rate"}
LiquidationNames == {"liquidation_threshold", "liquidation_bonus"}

ASSUME ManagerAssumption ==
    /\ Manager \in NftAccounts /\ Users # {} /\ MAX_LOANS \in Nat /\ MAX_COLLATERAL \in Nat
    /\ Terms \in [Limits \cup Windows \cup TermNames \cup RateNames \cup LiquidationNames -> Nat]
    /\ Terms.grace <= Terms.window /\ Terms.min_rate <= Terms.max_rate
    /\ Terms.default_term > 0 /\ Terms.min_term <= Terms.max_term
    /\ Terms.interest_rate > 0 /\ Terms.min_rate > 0
    /\ PRICE_SCALE \in Nat \ {0}
    /\ \A c \in {MIN_DEFAULT_WINDOW, MAX_LATE_FEE_CAP_BPS, MIN_COLLATERAL_RATIO_BPS,
                 MAX_LIQUIDATION_BONUS_BPS, LATE_REPAYMENT_SCORE_PENALTY,
                 DEFAULT_SCORE_PENALTY_POINTS, EXTENSION_FEE_BPS} : c \in Nat
    /\ LoanAmounts \subseteq Nat /\ Collaterals \subseteq Nat /\ Quotes \subseteq Nat
    /\ Prices \subseteq Nat /\ NewTerms \subseteq Nat /\ Extras \subseteq Nat
    /\ InitialScores \subseteq NoNft..MAX_SCORE
    /\ Settings \subseteq (DOMAIN Terms) \X Nat

VARIABLES
    loans,                       \* Loan(id)
    loan_counter,                \* LoanCounter
    loan_count,                  \* BorrowerLoanCount
    total_outstanding,           \* TotalOutstanding
    terms,                       \* the configuration keys
    lm_paused,                   \* Paused
    stopped,                     \* functions the breaker blocks; {} also where none is configured
    custody,                     \* the token's balance of the manager (external)
    donated                      \* history: tokens sent to the pool past its entry points

lm_config == <<terms, lm_paused, stopped>>
lm_state == <<loans, loan_counter, loan_count, total_outstanding, custody>>
pool_rest == <<pool_config, positions, pool_outstanding, blocked>>
credit_vars == <<lm_state, lm_config, donated, pool_vars, nft_vars>>

LoanIds == 1..MAX_LOANS

no_loan == [status |-> "None", borrower |-> CHOOSE u \in Users : TRUE, amount |-> 0,
            collateral_amount |-> 0, principal_paid |-> 0, income_paid |-> 0,
            accrued_interest |-> 0, interest_residual |-> 0, accrued_late_fee |-> 0,
            interest_rate |-> 0, due_date |-> 0, last_interest_ledger |-> 0,
            last_late_fee_ledger |-> 0, extension_count |-> 0]

ManagerInit ==
    /\ loans = [id \in LoanIds |-> no_loan]
    /\ loan_counter = 0
    /\ loan_count = [u \in Users |-> 0]
    /\ total_outstanding = 0
    /\ terms = Terms
    /\ lm_paused = FALSE /\ stopped = {}
    /\ custody = 0
    /\ donated = 0

DeployedInit ==
    /\ pool_admin \in Accounts /\ proposed_admin = NoAccount
    /\ pool_paused = FALSE /\ breaker = FALSE /\ loan_manager = TRUE
    /\ withdrawal_cooldown = DEFAULT_WITHDRAWAL_COOLDOWN /\ max_pool_size = 0
    /\ shares = [p \in Providers |-> 0] /\ deposit_ledger = [p \in Providers |-> 0]
    /\ depositor_count = 0 /\ total_shares = 0 /\ total_deposits = 0
    /\ total_managed_assets = 0 /\ total_yield_distributed = 0 /\ lossy = FALSE
    /\ pool_outstanding = 0 /\ pool_balance = 0 /\ blocked = {}
    /\ nft_admin \in NftAccounts \ {Manager} /\ nft_proposed = NoNftAccount /\ nft_paused = FALSE
    /\ minters = {nft_admin, Manager}
    /\ burn_threshold = DEFAULT_BURN_THRESHOLD /\ nft_min_repayment = 0
    /\ score \in [Users -> InitialScores]
    /\ seized = [u \in Users |-> FALSE] /\ burned = [u \in Users |-> FALSE]
    /\ default_count = [u \in Users |-> 0]
    /\ remint_approved = [u \in Users |-> FALSE] /\ transfer_after = [u \in Users |-> 0]
    /\ ManagerInit
    /\ LedgerInit

-----------------------------------------------------------------------------
(* Checks and helpers the entry points share.                              *)

\* MUTANT of require_not_paused: the pause of the NFT is not asked for.
require_not_paused_but_nft == ~lm_paused /\ ~pool_paused /\ "any" \notin stopped

require_not_paused == ~lm_paused /\ ~pool_paused /\ ~nft_paused /\ "any" \notin stopped

\* An answer of the rate oracle outside the bounds is replaced; so is no answer, written 0.
compute_interest_rate(quote) ==
    IF quote \in terms.min_rate..terms.max_rate THEN quote ELSE terms.interest_rate

\* The loan with interest and late fees up to now: current_total_debt is its debt.
accrued(id) ==
    accrue_late_fee(accrue_interest(loans[id], ledger), ledger, terms.grace, terms.late_fee_rate)

default_ends(loan) == loan.due_date + terms.window

\* record_pool_recovery: cash against the principal it replaces; the rest is income or loss.
record_pool_recovery(principal, recovered) ==
    settle(recovered, larger(recovered - principal, 0), larger(principal - recovered, 0))

\* What a repayment does to the score.  A late final payment costs points, any other earns some.
score_repayment(u, amount, late_and_final) ==
    IF amount >= STROOPS_PER_SCORE_POINT /\ get_score(u) > 0
    THEN /\ Manager \in minters
         /\ score' = [score EXCEPT ![u] =
                        IF late_and_final THEN decreased(@, LATE_REPAYMENT_SCORE_PENALTY)
                        ELSE adjusted(@, amount \div STROOPS_PER_SCORE_POINT)]
    ELSE score' = score

\* decrease_score, then record_default, which may burn.
score_default(u) ==
    /\ Manager \in minters
    /\ IF ~has_active_nft(u) THEN UNCHANGED nft_records
       ELSE /\ default_count' = [default_count EXCEPT ![u] = @ + 1]
            /\ IF default_count[u] + 1 >= burn_threshold
               THEN burn_internal(u)
               ELSE /\ score' = [score EXCEPT ![u] = decreased(@, DEFAULT_SCORE_PENALTY_POINTS)]
                    /\ seized' = [seized EXCEPT ![u] = TRUE]
                    /\ UNCHANGED <<burned, remint_approved, transfer_after>>

-----------------------------------------------------------------------------
(* The life of a loan.                                                     *)

request_loan(u, amount, quote) ==
    /\ require_not_paused /\ "request_loan" \notin stopped
    /\ amount > 0 /\ amount <= terms.max_loan_amount
    /\ get_score(u) >= terms.min_score
    /\ ~seized[u]
    /\ loan_count[u] < terms.max_loans
    /\ loan_counter' = loan_counter + 1
    /\ loans' = [loans EXCEPT ![loan_counter + 1] =
                    [no_loan EXCEPT !.status = "Pending", !.borrower = u, !.amount = amount,
                                    !.interest_rate = compute_interest_rate(quote)]]
    /\ loan_count' = [loan_count EXCEPT ![u] = @ + 1]
    /\ UNCHANGED <<total_outstanding, custody, lm_config, donated, pool_vars, nft_vars>>

\* The liquidity test takes what is lent from a balance it has already left.
approve_loan(id) ==
    LET loan == loans[id]
        due == ledger + terms.default_term
    IN  /\ require_not_paused /\ "approve_loan" \notin stopped
        /\ loan.status = "Pending"
        /\ pool_balance - total_outstanding >= loan.amount
        /\ loans' = [loans EXCEPT ![id] =
                        [loan EXCEPT !.status = "Approved", !.due_date = due,
                                     !.last_interest_ledger = ledger,
                                     !.last_late_fee_ledger = due + terms.grace]]
        /\ total_outstanding' = total_outstanding + loan.amount
        /\ disburse(loan.amount)
        /\ UNCHANGED <<loan_counter, loan_count, custody, lm_config, donated, pool_rest, nft_vars>>

\* MUTANT of forgiven_principal: the dust that is forgiven is not reported to the pool.
forgiven_unreported(paid, dust) == 0

\* A debt no larger than the minimum repayment is closed by any payment: the principal that
\* is forgiven is a loss of the pool.
forgiven_principal(paid, dust) == IF dust THEN remaining_principal(paid) ELSE 0

repay(id, amount) ==
    LET loan == accrued(id)
        payment == proportional_repayment_split(dues_of(loan), amount)
        dust == debt(loan) <= terms.min_repayment
        paid == apply_debt_recovery(loan, amount)
        completed == dust \/ debt(paid) = 0
    IN  /\ require_not_paused /\ "repay" \notin stopped
        /\ amount > 0
        /\ loans[id].status = "Approved"
        /\ ledger <= default_ends(loans[id])
        /\ amount <= debt(loan)
        /\ amount < debt(loan) /\ amount < terms.min_repayment => dust
        /\ loans' = [loans EXCEPT ![id] =
                        IF completed THEN [paid EXCEPT !.status = "Repaid", !.principal_paid = loan.amount,
                                                       !.accrued_interest = 0, !.accrued_late_fee = 0,
                                                       !.collateral_amount = 0]
                        ELSE paid]
        /\ total_outstanding' = total_outstanding - (IF completed THEN loan.amount ELSE 0)
        /\ loan_count' = IF completed THEN count_down(loan_count, loan.borrower) ELSE loan_count
        /\ settle(amount, payment[2] + payment[3], forgiven_principal(paid, dust))
        /\ custody' = custody - (IF completed THEN loan.collateral_amount ELSE 0)
        /\ score_repayment(loan.borrower, amount, completed /\ ledger > loan.due_date + terms.grace)
        /\ UNCHANGED <<loan_counter, lm_config, donated, pool_rest, nft_config, seized, burned,
                       default_count, remint_approved, transfer_after, ledger>>

deposit_collateral(id, amount) ==
    /\ require_not_paused
    /\ amount > 0
    /\ loans[id].status = "Approved"
    /\ ~seized[loans[id].borrower]
    /\ loans' = [loans EXCEPT ![id].collateral_amount = @ + amount]
    /\ custody' = custody + amount
    /\ UNCHANGED <<loan_counter, loan_count, total_outstanding, lm_config, donated, pool_vars, nft_vars>>

\* release_collateral_internal: nothing stops it, neither a pause nor the breaker.
release_collateral(id) ==
    /\ loans[id].status = "Repaid"
    /\ loans' = [loans EXCEPT ![id].collateral_amount = 0]
    /\ custody' = custody - loans[id].collateral_amount
    /\ UNCHANGED <<loan_counter, loan_count, total_outstanding, lm_config, donated, pool_vars, nft_vars>>

\* Price 0 stands for no oracle, no collateral token or an answer that is not positive.
collateral_value_units(collateral, price) ==
    IF price = 0 THEN collateral ELSE (collateral * price) \div PRICE_SCALE

is_collateral_ratio_below_threshold(value, owed, threshold) ==
    owed > 0 /\ (value <= 0 \/ value * BPS < owed * threshold)

\* Collateral repays the debt; of a surplus the liquidator gets the bonus and the borrower
\* the rest.
liquidation_payout(collateral, owed, bonus) ==
    LET repaid == smaller(collateral, owed)
        paid_bonus == smaller(bonus, collateral - repaid)
    IN  [repaid |-> repaid, bonus |-> paid_bonus, refund |-> collateral - repaid - paid_bonus]

liquidate(id, price) ==
    LET loan == accrued(id)
        collateral == loan.collateral_amount
        payout == liquidation_payout(collateral, debt(loan),
                                     (collateral * terms.liquidation_bonus) \div BPS)
    IN  /\ require_not_paused
        /\ loan.status = "Approved"
        /\ is_collateral_ratio_below_threshold(collateral_value_units(collateral, price), debt(loan),
                                               terms.liquidation_threshold)
        /\ loans' = [loans EXCEPT ![id] = [apply_debt_recovery(loan, payout.repaid) EXCEPT
                                              !.status = "Liquidated", !.collateral_amount = 0]]
        /\ total_outstanding' = total_outstanding - loan.amount
        /\ loan_count' = count_down(loan_count, loan.borrower)
        /\ record_pool_recovery(remaining_principal(loan), payout.repaid)
        /\ custody' = custody - payout.repaid - payout.bonus - payout.refund
        /\ UNCHANGED <<loan_counter, lm_config, donated, pool_rest, nft_vars>>

\* A request withdrawn or refused goes on counting against the borrower's limit.
close_request(id, status) ==
    /\ loans[id].status = "Pending"
    /\ loans' = [loans EXCEPT ![id] = [loans[id] EXCEPT !.status = status, !.collateral_amount = 0]]
    /\ custody' = custody - loans[id].collateral_amount
    /\ UNCHANGED <<loan_counter, loan_count, total_outstanding, lm_config, donated, pool_vars, nft_vars>>

cancel_loan(id) == close_request(id, "Cancelled")
reject_loan(id) == close_request(id, "Rejected")

still_counted(status) == status \in {"Cancelled", "Rejected"}

purge_loan(id) ==
    LET loan == loans[id]
    IN  /\ loan.status \in {"Repaid", "Cancelled", "Rejected"}
        /\ loans' = [loans EXCEPT ![id] = no_loan]
        /\ custody' = custody - loan.collateral_amount
        /\ loan_count' = IF still_counted(loan.status) THEN count_down(loan_count, loan.borrower)
                         ELSE loan_count
        /\ UNCHANGED <<loan_counter, total_outstanding, lm_config, donated, pool_vars, nft_vars>>

outstanding_delta(loan, new_amount) == new_amount - loan.amount

\* Accrued interest and fees are struck off as paid; no cash moves for them.
refinance_loan(id, new_amount, new_term, quote) ==
    LET loan == accrued(id)
        rest == remaining_principal(loan)
        returned == IF new_amount < rest
                    THEN (loan.collateral_amount * (rest - new_amount)) \div rest ELSE 0
    IN  /\ require_not_paused
        /\ loan.status = "Approved"
        /\ ledger <= default_ends(loan)
        /\ new_amount > 0 /\ new_amount <= terms.max_loan_amount
        /\ new_term \in terms.min_term..terms.max_term
        /\ get_score(loan.borrower) >= terms.min_score
        /\ loan.collateral_amount >= new_amount
        /\ IF new_amount > rest
           THEN /\ pool_balance - (total_outstanding - loan.amount) >= new_amount - rest
                /\ disburse(new_amount - rest)
           ELSE settle(rest - new_amount, 0, 0)
        /\ custody' = custody - returned
        /\ total_outstanding' = total_outstanding + outstanding_delta(loan, new_amount)
        /\ loans' = [loans EXCEPT ![id] =
                        [loan EXCEPT !.income_paid = @ + loan.accrued_interest + loan.accrued_late_fee,
                                     !.accrued_interest = 0, !.accrued_late_fee = 0,
                                     !.collateral_amount = @ - returned,
                                     !.amount = new_amount, !.principal_paid = 0,
                                     !.interest_rate = compute_interest_rate(quote),
                                     !.last_interest_ledger = ledger, !.due_date = ledger + new_term,
                                     !.last_late_fee_ledger = ledger + new_term]]
        /\ UNCHANGED <<loan_counter, loan_count, lm_config, donated, pool_rest, nft_vars>>

\* All the collateral goes to the pool, a surplus over the principal as income.
check_default(id) ==
    LET loan == loans[id]
    IN  /\ require_not_paused
        /\ loan.status = "Approved"
        /\ ledger > default_ends(loan)
        /\ loans' = [loans EXCEPT ![id] = [loan EXCEPT !.status = "Defaulted", !.collateral_amount = 0]]
        /\ total_outstanding' = total_outstanding - loan.amount
        /\ loan_count' = count_down(loan_count, loan.borrower)
        /\ custody' = custody - loan.collateral_amount
        /\ record_pool_recovery(remaining_principal(loan), loan.collateral_amount)
        /\ score_default(loan.borrower)
        /\ UNCHANGED <<loan_counter, lm_config, donated, pool_rest, nft_config, ledger>>

\* Interest and fees are not brought up to date first.
extend_loan(id, extra) ==
    LET loan == loans[id]
        fee == (remaining_principal(loan) * EXTENSION_FEE_BPS) \div BPS
    IN  /\ require_not_paused
        /\ extra > 0
        /\ loan.status = "Approved"
        /\ ledger <= default_ends(loan)
        /\ loan.extension_count < MAX_EXTENSIONS
        /\ settle(fee, fee, 0)
        /\ loans' = [loans EXCEPT ![id] = [loan EXCEPT !.due_date = @ + extra, !.extension_count = @ + 1]]
        /\ UNCHANGED <<loan_counter, loan_count, total_outstanding, custody, lm_config, donated,
                       pool_rest, nft_vars>>

-----------------------------------------------------------------------------
(* Administration.                                                         *)

other_than_lm_config == <<lm_state, donated, pool_vars, nft_vars>>

\* MUTANT of acceptable_rate: the bounds are not compared with each other.
acceptable_any_rate(name, v) == name \in {"interest_rate", "min_rate", "max_rate"} => v # 0

acceptable_rate(name, v) ==
    /\ name = "late_fee_rate" => v <= MAX_LATE_FEE_CAP_BPS
    /\ name \in {"interest_rate", "min_rate", "max_rate"} => v # 0
    /\ name = "min_rate" => v <= terms.max_rate
    /\ name = "max_rate" => v >= terms.min_rate

acceptable_liquidation(name, v) ==
    /\ name = "liquidation_threshold" => v >= MIN_COLLATERAL_RATIO_BPS
    /\ name = "liquidation_bonus" => v <= MAX_LIQUIDATION_BONUS_BPS

acceptable_window(name, v) ==
    /\ name = "grace" => v <= terms.window
    /\ name = "window" => v >= MIN_DEFAULT_WINDOW /\ v >= terms.grace

acceptable_limit(name, v) ==
    /\ name = "min_score" => v <= MAX_SCORE
    /\ name \in {"max_loan_amount", "max_loans"} => v > 0

acceptable_term(name, v) ==
    /\ name \in TermNames => v # 0
    /\ name = "min_term" => v <= terms.max_term
    /\ name = "max_term" => v >= terms.min_term

\* The numeric setters: each writes one key after the test of its own.
configure(name, v) ==
    /\ acceptable_rate(name, v) /\ acceptable_liquidation(name, v) /\ acceptable_window(name, v)
    /\ acceptable_limit(name, v) /\ acceptable_term(name, v)
    /\ terms' = [terms EXCEPT ![name] = v]
    /\ UNCHANGED <<lm_paused, stopped, other_than_lm_config>>

lm_set_paused(flag) ==
    /\ lm_paused' = flag
    /\ UNCHANGED <<terms, stopped, other_than_lm_config>>

\* A breaker is configured or cleared, or one that is configured changes its answer.
lm_set_circuit_breaker(fns) ==
    /\ stopped' = fns
    /\ UNCHANGED <<terms, lm_paused, other_than_lm_config>>

-----------------------------------------------------------------------------

\* Bounds: payments and fees stop where the books would leave MAX_ASSETS.
fits == total_managed_assets' <= MAX_ASSETS /\ pool_balance' <= MAX_ASSETS
        /\ total_yield_distributed' <= MAX_YIELD

LoanNext ==
    \/ \E u \in Users, amount \in LoanAmounts, quote \in Quotes :
          loan_counter < MAX_LOANS /\ request_loan(u, amount, quote)
    \/ \E id \in LoanIds :
          \/ approve_loan(id)
          \/ \E amount \in 1..MAX_ASSETS : repay(id, amount) /\ fits
          \/ \E amount \in Collaterals :
                loans[id].collateral_amount + amount <= MAX_COLLATERAL /\ deposit_collateral(id, amount)
          \/ release_collateral(id)
          \/ \E price \in Prices : liquidate(id, price) /\ fits
          \/ cancel_loan(id) \/ reject_loan(id) \/ purge_loan(id)
          \/ \E amount \in LoanAmounts, term \in NewTerms, quote \in Quotes :
                refinance_loan(id, amount, term, quote) /\ fits
          \/ check_default(id) /\ fits
          \/ \E extra \in Extras : extend_loan(id, extra) /\ fits

SettingNext == \E setting \in Settings : configure(setting[1], setting[2])

\* The pool's own operations beside the manager's.
PoolSideNext ==
    /\ \/ ProviderNext /\ donated' = donated
       \/ \E amount \in Amounts : room(amount) /\ token_transfer(amount) /\ donated' = donated + amount
    /\ UNCHANGED <<lm_state, lm_config, nft_vars>>

PauseNext ==
    \/ \E flag \in BOOLEAN : lm_set_paused(flag)
    \/ \E fns \in StopSets : lm_set_circuit_breaker(fns)
    \/ \E flag \in BOOLEAN :
          \/ pool_set_paused(flag) /\ UNCHANGED <<lm_state, lm_config, donated, nft_vars>>
          \/ nft_set_paused(flag) /\ UNCHANGED <<lm_state, lm_config, donated, pool_vars>>

\* What the NFT's admin does to the tokens of borrowers and to the manager's right to write.
NftSideNext ==
    /\ \E u \in Users :
          \/ seize_collateral(nft_admin, u) \/ burn(nft_admin, u)
          \/ approve_remint(u)
          \/ \E s \in MintScores : mint(nft_admin, u, s) \/ admin_remint(u, s)
          \/ revoke_minter(Manager) \/ authorize_minter(Manager)
    /\ UNCHANGED <<lm_state, lm_config, donated, pool_vars>>

ledger_closes ==
    ledger_advances /\ UNCHANGED <<lm_state, lm_config, donated, pool_config, positions, books,
                                   pool_outstanding, blocked, nft_config, nft_records>>

\* The manager and the pool, with a fixed configuration; the score changes only through the
\* manager.
CreditNext == LoanNext \/ PoolSideNext \/ ledger_closes
\* The same with the setters, and with the switches and the NFT's admin as well.
ConfiguredNext == CreditNext \/ SettingNext
SwitchedNext == ConfiguredNext \/ PauseNext \/ NftSideNext

LendingSpec == DeployedInit /\ [][SwitchedNext]_credit_vars
-----------------------------------------------------------------------------
(* Properties.                                                             *)

Approved == {id \in LoanIds : loans[id].status = "Approved"}

\* The types of the manager's storage; in particular no loan is paid more principal than it
\* has, and none accrues from a ledger to come.
LoanTypeOK ==
    /\ loan_counter \in 0..MAX_LOANS
    /\ loan_count \in [Users -> Nat] /\ total_outstanding \in Nat /\ custody \in Nat
    /\ \A id \in LoanIds :
          LET loan == loans[id]
          IN  /\ loan.status \in {"None", "Pending", "Approved", "Repaid", "Defaulted", "Liquidated",
                                  "Cancelled", "Rejected"}
              /\ loan.borrower \in Users
              /\ loan.principal_paid \in 0..loan.amount /\ loan.collateral_amount \in Nat
              /\ loan.accrued_interest \in Nat /\ loan.accrued_late_fee \in Nat
              /\ loan.interest_residual \in 0..PRECISION - 1 /\ loan.income_paid \in Nat
              /\ loan.last_interest_ledger <= ledger
              /\ loan.extension_count \in 0..MAX_EXTENSIONS

\* Whatever the order in which the admin sets them, the bounds stay usable: the late fee
\* starts no later than the default window ends, and the bounds on rates and terms do not
\* cross, which would refuse every quote of the oracle and every refinancing.
TermsCoherent ==
    /\ terms.grace <= terms.window
    /\ 0 < terms.min_rate /\ terms.min_rate <= terms.max_rate
    /\ terms.min_term <= terms.max_term /\ terms.default_term > 0

\* The pool's books, which only ever move by increments reported from another contract, are
\* its cash and the principal out on approved loans (less gifts, which they do not see).
BooksBalance ==
    total_managed_assets + donated =
        pool_balance + SumFunctionOnSet([id \in LoanIds |-> principal_out(loans[id])], LoanIds)

\* adjust_total_outstanding follows the original amounts of the approved loans through
\* approval, refinancing and each of the ways a loan ends.
OutstandingAgrees ==
    total_outstanding = SumFunctionOnSet([id \in LoanIds |-> amount_out(loans[id])], LoanIds)

\* The count behind max_loans_per_borrower is that of the borrower's requests not yet
\* closed, where a cancelled or rejected one is closed by purge_loan: no sequence of
\* requests, settlements and purges lets a slot leak or be freed twice.
LoanCountAgrees ==
    \A u \in Users : loan_count[u] = Cardinality({id \in LoanIds : takes_slot(loans[id], u)})

\* The manager holds exactly the collateral of the loans, and only approved loans have any:
\* every way a loan ends pays its collateral out, once.
CustodyMatches ==
    /\ custody = SumFunctionOnSet([id \in LoanIds |-> loans[id].collateral_amount], LoanIds)
    /\ \A id \in LoanIds : loans[id].collateral_amount > 0 => id \in Approved

\* Without gifts a loss never exceeds the pool's books, so record_loan_loss cannot make
\* check_default or liquidate revert, and a bad loan can always be written off.
LossFitsBooks ==
    donated = 0 => \A id \in Approved : remaining_principal(loans[id]) <= total_managed_assets

\* Every counter and balance agrees with the loans it stands for.
LoanBooks ==
    /\ LoanTypeOK /\ BooksBalance /\ OutstandingAgrees /\ LoanCountAgrees
    /\ CustodyMatches /\ LossFitsBooks

\* proportional_repayment_split on every debt that arises: a payment is used up, no bucket
\* gets more than is due or differs from its proportional share by a unit or more.
PaymentsSplitFairly ==
    \A id \in Approved : \A amount \in 1..debt(accrued(id)) :
        LET dues == dues_of(accrued(id))
            payment == proportional_repayment_split(dues, amount)
        IN  /\ payment[1] + payment[2] + payment[3] = amount
            /\ \A i \in Buckets :
                  /\ payment[i] <= dues[i]
                  /\ payment[i] * total_due(dues) < amount * dues[i] + total_due(dues)
                  /\ payment[i] * total_due(dues) > amount * dues[i] - total_due(dues)

\* While the NFT, the pool or the manager is paused, or the breaker stops the manager, no
\* loan is opened, paid or written off; only requests are closed.
PauseStopsLending ==
    lm_paused \/ pool_paused \/ nft_paused \/ "any" \in stopped =>
        /\ total_outstanding' = total_outstanding
        /\ \A id \in LoanIds : loans[id].status = "Approved" => loans'[id] = loans[id]

\* A default reaches the score: the borrower's token is burned, or marked as seized, in the
\* step that writes the loan off.
DefaultIsMarked ==
    \A id \in LoanIds : loans[id].status = "Approved" /\ loans'[id].status = "Defaulted" =>
        LET u == loans[id].borrower
        IN  has_active_nft(u) => /\ default_count'[u] = default_count[u] + 1
                                 /\ burned'[u] \/ seized'[u]

\* Under any order of pauses and stops of the three contracts no approved loan moves while
\* one of them is stopped, and a loan that is written off marks the borrower's token in the
\* same step (require_not_paused, check_default).
LendingStops == [][PauseStopsLending /\ DefaultIsMarked]_credit_vars

\* FORMAL_VERIFICATION.md, INV-3, and the comment on MAX_PENALTY_MULTIPLIER cap the debt.
DebtWithinCap ==
    \A id \in Approved : debt(accrued(id)) <= MAX_PENALTY_MULTIPLIER * loans[id].amount
=============================================================================
