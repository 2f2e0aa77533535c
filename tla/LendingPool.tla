----------------------------- MODULE LendingPool -----------------------------
(***************************************************************************)
(* contracts/lending_pool/src/lib.rs: providers deposit a token for shares *)
(* and redeem them at a price taken from the pool's own books, while the   *)
(* loan manager lends the cash out and reports income and losses back.     *)
(*                                                                         *)
(* Every stored quantity is kept per token and no operation touches two    *)
(* tokens, so one token is modelled.  A call runs alone and an error rolls *)
(* it back, so each entry point is one action whose guard is the           *)
(* conjunction of its checks.  The calls of the loan manager are open here *)
(* (any amount); LoanManager.tla closes them.                              *)
(***************************************************************************)
EXTENDS SorobanClock, FiniteSets, FiniteSetsExt

CONSTANTS
    Accounts,                        \* who can be admin
    NoAccount,
    Providers,
    VIRTUAL_OFFSET,                  \* VIRTUAL_SHARES and VIRTUAL_ASSETS, which are equal
    DEFAULT_WITHDRAWAL_COOLDOWN,
    MAX_WITHDRAWAL_COOLDOWN_LEDGERS,
    Amounts,                         \* amounts passed to deposit, distribute_yield and the callbacks
    Redemptions,                     \* numbers of shares passed to withdraw
    MinOuts,                         \* slippage bounds passed to deposit and withdraw
    Cooldowns, PoolSizes, Deltas,    \* arguments of the setters and of adjust_outstanding
    BlockedSets,                     \* answers of the circuit breaker: sets of blocked functions
    MAX_ASSETS,                      \* bound: tokens the pool ever holds, books or counts as principal
    MAX_YIELD                        \* bound: yield recorded in one behaviour

ASSUME PoolAssumption ==
    /\ NoAccount \notin Accounts
    /\ IsFiniteSet(Providers)
    /\ VIRTUAL_OFFSET \in Nat \ {0}
    /\ DEFAULT_WITHDRAWAL_COOLDOWN \in 0..MAX_WITHDRAWAL_COOLDOWN_LEDGERS
    /\ MAX_WITHDRAWAL_COOLDOWN_LEDGERS \in Nat
    /\ Amounts \subseteq Int /\ Redemptions \subseteq Int /\ MinOuts \subseteq Int
    /\ Cooldowns \subseteq Nat /\ PoolSizes \subseteq Int /\ Deltas \subseteq Int
    /\ MAX_ASSETS \in Nat /\ MAX_YIELD \in Nat

VARIABLES
    pool_admin, proposed_admin,      \* DataKey::Admin, ProposedAdmin
    pool_paused,                     \* Paused
    breaker,                         \* whether CircuitBreaker is configured
    loan_manager,                    \* whether LoanManager is configured
    withdrawal_cooldown,             \* WithdrawalCooldown
    max_pool_size,                   \* MaxPoolSize
    shares,                          \* Shares
    deposit_ledger,                  \* DepositTimestamp; 0 where no entry is stored
    depositor_count,                 \* DepositorCount
    total_shares,                    \* TotalShares
    total_deposits,                  \* TotalDeposits
    total_managed_assets,            \* TotalManagedAssets
    total_yield_distributed,         \* TotalYieldDistributed
    pool_outstanding,                \* TotalOutstanding
    pool_balance,                    \* the token's balance of the pool (external)
    blocked,                         \* functions the breaker blocks (external)
    lossy                            \* history: a loan loss was recorded

pool_config == <<pool_admin, proposed_admin, pool_paused, breaker, loan_manager,
                 withdrawal_cooldown, max_pool_size>>
positions == <<shares, deposit_ledger, depositor_count, total_shares, total_deposits>>
books == <<total_managed_assets, total_yield_distributed, pool_balance, lossy>>
pool_vars == <<pool_config, positions, books, pool_outstanding, blocked, ledger>>

PoolInit ==
    /\ pool_admin = NoAccount /\ proposed_admin = NoAccount
    /\ pool_paused = FALSE /\ breaker = FALSE /\ loan_manager = FALSE
    /\ withdrawal_cooldown = DEFAULT_WITHDRAWAL_COOLDOWN
    /\ max_pool_size = 0
    /\ shares = [p \in Providers |-> 0]
    /\ deposit_ledger = [p \in Providers |-> 0]
    /\ depositor_count = 0
    /\ total_shares = 0 /\ total_deposits = 0
    /\ total_managed_assets = 0 /\ total_yield_distributed = 0
    /\ pool_outstanding = 0
    /\ pool_balance = 0
    /\ blocked = {}
    /\ lossy = FALSE
    /\ LedgerInit

-----------------------------------------------------------------------------
(* Share pricing, on the pool's books and never on its token balance.      *)

\* MUTANT of calc_shares_to_mint: the exact rate is rounded up.
calc_shares_ceil(amount, m, s) ==
    (amount * (s + VIRTUAL_OFFSET) + m + VIRTUAL_OFFSET - 1) \div (m + VIRTUAL_OFFSET)

calc_shares_to_mint(amount, m, s) == (amount * (s + VIRTUAL_OFFSET)) \div (m + VIRTUAL_OFFSET)

calc_assets_to_redeem(n, m, s) == (n * (m + VIRTUAL_OFFSET)) \div (s + VIRTUAL_OFFSET)

assert_circuit_ok(fn) == breaker => fn \notin blocked

-----------------------------------------------------------------------------
(* Providers.                                                              *)

counts_as_new(p) == shares[p] = 0

\* A deposit restarts the cooldown of the whole position.
deposit(p, amount, min_shares_out) ==
    LET minted == calc_shares_to_mint(amount, total_managed_assets, total_shares)
    IN  /\ ~pool_paused
        /\ assert_circuit_ok("deposit")
        /\ amount > 0 /\ min_shares_out >= 0
        /\ max_pool_size > 0 => total_deposits + amount <= max_pool_size
        /\ minted > 0 /\ minted >= min_shares_out
        /\ depositor_count' = IF counts_as_new(p) THEN depositor_count + 1 ELSE depositor_count
        /\ shares' = [shares EXCEPT ![p] = @ + minted]
        /\ deposit_ledger' = [deposit_ledger EXCEPT ![p] = ledger]
        /\ total_shares' = total_shares + minted
        /\ total_deposits' = total_deposits + amount
        /\ total_managed_assets' = total_managed_assets + amount
        /\ pool_balance' = pool_balance + amount
        /\ UNCHANGED <<pool_config, total_yield_distributed, lossy, pool_outstanding, blocked, ledger>>

cooldown_elapsed(p) ==
    withdrawal_cooldown > 0 /\ deposit_ledger[p] > 0 =>
        ledger >= deposit_ledger[p] + withdrawal_cooldown

payable(assets) == assets <= pool_balance

\* total_deposits falls by the assets paid, which include yield; i128::saturating_sub
\* does not stop it at zero.
redeem_shares(p, n, min_assets_out) ==
    LET assets == calc_assets_to_redeem(n, total_managed_assets, total_shares)
        remaining == shares[p] - n
    IN  /\ n > 0 /\ min_assets_out >= 0
        /\ remaining >= 0
        /\ assets > 0 /\ assets >= min_assets_out
        /\ payable(assets)
        /\ shares' = [shares EXCEPT ![p] = remaining]
        /\ deposit_ledger' = [deposit_ledger EXCEPT ![p] = IF remaining = 0 THEN 0 ELSE @]
        /\ depositor_count' = IF remaining = 0 /\ depositor_count > 0
                              THEN depositor_count - 1 ELSE depositor_count
        /\ total_shares' = total_shares - n
        /\ total_deposits' = total_deposits - assets
        /\ total_managed_assets' = total_managed_assets - assets
        /\ pool_balance' = pool_balance - assets
        /\ UNCHANGED <<pool_config, total_yield_distributed, lossy, pool_outstanding, blocked, ledger>>

withdraw(p, n, min_assets_out) ==
    /\ ~pool_paused
    /\ assert_circuit_ok("withdraw")
    /\ cooldown_elapsed(p)
    /\ redeem_shares(p, n, min_assets_out)

emergency_withdraw(p, n, min_assets_out) ==
    /\ assert_circuit_ok("withdraw")
    /\ redeem_shares(p, n, min_assets_out)

distribute_yield(amount) ==
    /\ ~pool_paused
    /\ assert_circuit_ok("distribute_yield")
    /\ amount > 0
    /\ total_managed_assets' = total_managed_assets + amount
    /\ total_yield_distributed' = total_yield_distributed + amount
    /\ pool_balance' = pool_balance + amount
    /\ UNCHANGED <<pool_config, positions, lossy, pool_outstanding, blocked, ledger>>

-----------------------------------------------------------------------------
(* What a call of the loan manager does to the books.  The operators leave *)
(* the frame to the action that uses them.                                 *)

\* disburse: cash becomes a receivable, which the books go on counting.
disburse(amount) ==
    /\ loan_manager
    /\ ~pool_paused
    /\ assert_circuit_ok("disburse")
    /\ amount > 0 /\ amount <= pool_balance
    /\ pool_balance' = pool_balance - amount
    /\ UNCHANGED <<total_managed_assets, total_yield_distributed, lossy>>

\* Cash arrives, then record_loan_yield(gain) and record_loan_loss(loss); both
\* return early on zero.
settle(cash, gain, loss) ==
    /\ gain + loss > 0 => loan_manager
    /\ gain >= 0 /\ loss >= 0
    /\ loss > 0 => total_managed_assets + gain >= loss
    /\ pool_balance' = pool_balance + cash
    /\ total_managed_assets' = total_managed_assets + gain - loss
    /\ total_yield_distributed' = total_yield_distributed + gain
    /\ lossy' = (lossy \/ loss > 0)

other_than_books == <<pool_config, positions, pool_outstanding, blocked, ledger>>

record_loan_yield(gain) == settle(gain, gain, 0) /\ UNCHANGED other_than_books
record_loan_loss(loss) == loss > 0 /\ settle(0, 0, loss) /\ UNCHANGED other_than_books
disburse_to_borrower(amount) == disburse(amount) /\ UNCHANGED other_than_books

\* Tokens sent to the pool's address outside its entry points: repaid principal, a gift.
token_transfer(amount) == amount > 0 /\ settle(amount, 0, 0) /\ UNCHANGED other_than_books

\* The counter is kept by the admin and read by nothing but its getter.
adjust_outstanding(delta) ==
    /\ pool_admin # NoAccount
    /\ assert_circuit_ok("adjust_outstanding")
    /\ pool_outstanding + delta >= 0
    /\ pool_outstanding' = pool_outstanding + delta
    /\ UNCHANGED <<pool_config, positions, books, blocked, ledger>>

-----------------------------------------------------------------------------
(* Administration.                                                         *)

other_than_config == <<positions, books, pool_outstanding, blocked, ledger>>

pool_initialize(a) ==
    /\ pool_admin = NoAccount
    /\ pool_admin' = a
    /\ pool_paused' = FALSE
    /\ breaker' = FALSE
    /\ withdrawal_cooldown' = DEFAULT_WITHDRAWAL_COOLDOWN
    /\ UNCHANGED <<proposed_admin, loan_manager, max_pool_size, other_than_config>>

propose_admin(a) ==
    /\ pool_admin # NoAccount
    /\ proposed_admin' = a
    /\ UNCHANGED <<pool_admin, pool_paused, breaker, loan_manager, withdrawal_cooldown,
                   max_pool_size, other_than_config>>

accept_admin ==
    /\ proposed_admin # NoAccount
    /\ pool_admin' = proposed_admin
    /\ proposed_admin' = NoAccount
    /\ UNCHANGED <<pool_paused, breaker, loan_manager, withdrawal_cooldown, max_pool_size,
                   other_than_config>>

pool_set_admin(a) ==
    /\ pool_admin # NoAccount
    /\ pool_admin' = a
    /\ proposed_admin' = NoAccount
    /\ UNCHANGED <<pool_paused, breaker, loan_manager, withdrawal_cooldown, max_pool_size,
                   other_than_config>>

pool_set_paused(flag) ==
    /\ pool_admin # NoAccount
    /\ pool_paused' = flag
    /\ UNCHANGED <<pool_admin, proposed_admin, breaker, loan_manager, withdrawal_cooldown,
                   max_pool_size, other_than_config>>

set_circuit_breaker(flag) ==
    /\ pool_admin # NoAccount
    /\ breaker' = flag
    /\ UNCHANGED <<pool_admin, proposed_admin, pool_paused, loan_manager, withdrawal_cooldown,
                   max_pool_size, other_than_config>>

set_loan_manager ==
    /\ pool_admin # NoAccount
    /\ loan_manager' = TRUE
    /\ UNCHANGED <<pool_admin, proposed_admin, pool_paused, breaker, withdrawal_cooldown,
                   max_pool_size, other_than_config>>

set_withdrawal_cooldown(ledgers) ==
    /\ pool_admin # NoAccount
    /\ ledgers <= MAX_WITHDRAWAL_COOLDOWN_LEDGERS
    /\ withdrawal_cooldown' = ledgers
    /\ UNCHANGED <<pool_admin, proposed_admin, pool_paused, breaker, loan_manager, max_pool_size,
                   other_than_config>>

set_max_pool_size(max) ==
    /\ pool_admin # NoAccount
    /\ max >= 0
    /\ max_pool_size' = max
    /\ UNCHANGED <<pool_admin, proposed_admin, pool_paused, breaker, loan_manager,
                   withdrawal_cooldown, other_than_config>>

\* The breaker's answer changes (CircuitBreaker.tla is the contract behind it).
breaker_answers(fns) ==
    /\ blocked' = fns
    /\ UNCHANGED <<pool_config, positions, books, pool_outstanding, ledger>>

ledger_close ==
    /\ ledger_advances
    /\ UNCHANGED <<pool_config, positions, books, pool_outstanding, blocked>>

-----------------------------------------------------------------------------

room(amount) == total_managed_assets + amount <= MAX_ASSETS /\ pool_balance + amount <= MAX_ASSETS
room_for_deposit(amount) == room(amount) /\ total_deposits + amount <= MAX_ASSETS
room_for_yield(amount) == room(amount) /\ total_yield_distributed + amount <= MAX_YIELD

ProviderNext ==
    \/ \E p \in Providers, amount \in Amounts, min \in MinOuts :
          room_for_deposit(amount) /\ deposit(p, amount, min)
    \/ \E p \in Providers, n \in Redemptions, min \in MinOuts : withdraw(p, n, min)
    \/ \E p \in Providers, n \in Redemptions, min \in MinOuts : emergency_withdraw(p, n, min)
    \/ \E amount \in Amounts : room_for_yield(amount) /\ distribute_yield(amount)

PoolAdminNext ==
    \/ \E a \in Accounts : pool_initialize(a) \/ propose_admin(a) \/ pool_set_admin(a)
    \/ accept_admin
    \/ \E flag \in BOOLEAN : pool_set_paused(flag) \/ set_circuit_breaker(flag)
    \/ set_loan_manager
    \/ \E ledgers \in Cooldowns : set_withdrawal_cooldown(ledgers)
    \/ \E max \in PoolSizes : set_max_pool_size(max)
    \/ \E delta \in Deltas : pool_outstanding + delta <= MAX_ASSETS /\ adjust_outstanding(delta)
    \/ \E fns \in BlockedSets : breaker_answers(fns)

PoolNext ==
    \/ ProviderNext
    \/ PoolAdminNext
    \/ \E amount \in Amounts :
          \/ disburse_to_borrower(amount)
          \/ room_for_yield(amount) /\ record_loan_yield(amount)
          \/ record_loan_loss(amount)
          \/ room(amount) /\ token_transfer(amount)
    \/ ledger_close

PoolSpec == PoolInit /\ [][PoolNext]_pool_vars

-----------------------------------------------------------------------------
(* Properties.                                                             *)

\* The types of the pool's storage.
PoolTypeOK ==
    /\ pool_admin \in Accounts \cup {NoAccount} /\ proposed_admin \in Accounts \cup {NoAccount}
    /\ pool_paused \in BOOLEAN /\ breaker \in BOOLEAN /\ loan_manager \in BOOLEAN
    /\ withdrawal_cooldown \in 0..MAX_WITHDRAWAL_COOLDOWN_LEDGERS
    /\ max_pool_size \in Nat
    /\ shares \in [Providers -> Nat] /\ deposit_ledger \in [Providers -> Nat]
    /\ depositor_count \in Nat /\ total_shares \in Nat /\ total_deposits \in Int
    /\ total_managed_assets \in Int /\ total_yield_distributed \in Nat
    /\ pool_outstanding \in Nat /\ pool_balance \in Nat
    /\ lossy \in BOOLEAN /\ ledger \in Nat \ {0}

\* The aggregates deposit and redeem_shares maintain by increments agree with the
\* positions: total shares, the number of depositors, and a cooldown timestamp exactly
\* where there are shares.
AggregatesAgree ==
    /\ total_shares = SumFunctionOnSet(shares, Providers)
    /\ depositor_count = Cardinality({p \in Providers : shares[p] > 0})
    /\ \A p \in Providers : deposit_ledger[p] > 0 <=> shares[p] > 0

\* Whatever is lent, lost, given or redeemed, the divisor of calc_shares_to_mint stays
\* positive, so that a deposit can always be priced.
PricePositive == total_managed_assets + VIRTUAL_OFFSET > 0

\* Only record_loan_loss lowers the share price: rounding in deposit and redeem_shares
\* never takes value from the shares that stay.
SharePriceNeverFalls ==
    \/ total_managed_assets' < total_managed_assets /\ total_shares' = total_shares
    \/ (total_managed_assets' + VIRTUAL_OFFSET) * (total_shares + VIRTUAL_OFFSET) >=
       (total_managed_assets + VIRTUAL_OFFSET) * (total_shares' + VIRTUAL_OFFSET)

\* As long as no loss was recorded, what redeem_shares would pay the providers together is
\* within the assets under management: the virtual offset promises nothing to anyone.
ClaimsCovered ==
    ~lossy => SumFunctionOnSet([p \in Providers |-> calc_assets_to_redeem(shares[p], total_managed_assets,
                                                                         total_shares)], Providers)
              <= total_managed_assets

\* assert_circuit_ok and assert_not_paused cover every way out: while the breaker blocks
\* them no position changes and no cash leaves, and under a pause positions only shrink and
\* cash leaves only with the shares it redeems.
StoppedPoolHolds ==
    /\ breaker /\ {"deposit", "withdraw", "disburse"} \subseteq blocked =>
           positions' = positions /\ pool_balance' >= pool_balance
    /\ pool_paused =>
           /\ \A p \in Providers : shares'[p] <= shares[p]
           /\ pool_balance' < pool_balance => total_shares' < total_shares
=============================================================================
