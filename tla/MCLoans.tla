------------------------------- MODULE MCLoans -------------------------------
(* Lending on small instances.  LoansSpec: one loan through its whole life      *)
(* while the terms change, two loans of one borrower at once, and the credit    *)
(* NFT by itself with two holders.  StopsSpec: the switches that stop lending,  *)
(* with the manager, its pool and the NFT paused, reconfigured and stopped, and *)
(* the pool by itself with two providers and any call of a loan manager.  Each  *)
(* behaviour moves what part names.                                             *)
EXTENDS LoanManager, TLC

CONSTANTS key, NoKey, h1, h2, q1, q2

VARIABLE part

-----------------------------------------------------------------------------
(* Small units: rates in quarters, two ledgers to the rate period, half-unit     *)
(* precision.                                                                    *)
MCTerms ==
    [min_score |-> 1, max_loan_amount |-> 3, min_repayment |-> 2, max_loans |-> 2,
     grace |-> 1, window |-> 2, default_term |-> 1, min_term |-> 0, max_term |-> 9,
     interest_rate |-> 2, late_fee_rate |-> 4, min_rate |-> 1, max_rate |-> 3,
     liquidation_threshold |-> 6, liquidation_bonus |-> 2]

\* Loans that are due at the next ledger and default at the one after.
MCShortTerms == [MCTerms EXCEPT !.grace = 0, !.window = 0]

\* The rate bounds of the deployment: up to ten times the amount per rate period.
MCWideRates == [MCTerms EXCEPT !.max_rate = 40]

MCScoreDeltas == {}
\* A default window shortened, and a dust limit raised, while a loan runs.
MCSettings == {<<"window", 1>>, <<"min_repayment", 3>>}
\* Bounds that cross if both are set, and values that each setter refuses.
MCBounds == {<<"min_rate", 3>>, <<"max_rate", 2>>, <<"interest_rate", 0>>, <<"late_fee_rate", 5>>,
             <<"grace", 1>>, <<"window", 0>>, <<"min_term", 10>>, <<"default_term", 0>>,
             <<"liquidation_threshold", 3>>, <<"liquidation_bonus", 3>>,
             <<"min_score", 4>>, <<"max_loans", 0>>}
MCStopSets == {{}, {"any"}}

-----------------------------------------------------------------------------

\* Two short loans, no change of terms.
Two == INSTANCE LoanManager WITH
    HORIZON <- 3, Amounts <- {6}, Redemptions <- {3}, MAX_ASSETS <- 8, MAX_YIELD <- 2,
    MAX_LOANS <- 2, Terms <- MCShortTerms, LoanAmounts <- {2}, Prices <- {0}, Extras <- {},
    Settings <- {}

\* The NFT with two interchangeable holders; one key is admin and minter in turn.
Holders == {h1, h2}

Nft == INSTANCE RemittanceNFT WITH
    HORIZON <- 2, NftAccounts <- {key}, NoNftAccount <- NoKey, Users <- Holders, MAX_SCORE <- 2,
    MAX_AUTHORIZED_MINTERS <- 1, MintScores <- {3}, Penalties <- {1}, ScoreDeltas <- {-1, 2},
    Repayments <- {2}, Thresholds <- {0, 1}, MinRepayments <- {0}

HolderSymmetry == Permutations(Holders)

\* What the NFT leaves alone.
beside_nft == <<lm_state, lm_config, donated, pool_config, positions, books, pool_outstanding, blocked>>

LoansInit ==
    \/ part = "one" /\ DeployedInit
    \/ part = "two" /\ Two!DeployedInit
    \/ part = "nft" /\ Nft!NftInit /\ PoolInit /\ ManagerInit

LoansNext ==
    \/ part = "one" /\ ConfiguredNext /\ UNCHANGED part
    \/ part = "two" /\ Two!CreditNext /\ UNCHANGED part
    \/ part = "nft" /\ Nft!NftNext /\ UNCHANGED <<part, beside_nft>>

LoansSpec == LoansInit /\ [][LoansNext]_<<part, credit_vars>>

-----------------------------------------------------------------------------
\* Whatever is requested, approved, paid in part, extended, refinanced,
\* liquidated or written off, every counter and balance of the manager and of
\* the pool agrees with the loans it stands for.
LoanBooksAgree ==
    /\ part = "one" => LoanBooks
    /\ part = "two" => Two!LoanBooks

\* Defaults stay on a borrower's record through burns, transfers and re-mints,
\* marks go with the token they belong to, every count has a holder, and an
\* approval for a re-mint is given after the burn it answers (burn_internal,
\* transfer, admin_remint).
CreditHistoryStays ==
    [][part = "nft" =>
          /\ Nft!DefaultsKept /\ Nft!ApprovalFollowsBurn
          /\ (Nft!NftTypeOK /\ Nft!MarksGoWithTheToken /\ Nft!CountsHaveHolders)']_nft_vars

-----------------------------------------------------------------------------
\* Small amounts around the virtual offset; the providers are interchangeable.
Both == {q1, q2}

Pool == INSTANCE LendingPool WITH
    Providers <- Both, VIRTUAL_OFFSET <- 2, DEFAULT_WITHDRAWAL_COOLDOWN <- 1,
    Amounts <- {0, 1, 3}, Redemptions <- {1, 2, 3, 4}, MinOuts <- {0, 2}, Cooldowns <- {0, 2},
    PoolSizes <- {-1, 3}, Deltas <- {-3, 3},
    BlockedSets <- {{}, {"deposit", "withdraw", "disburse"}}, HORIZON <- 2, MAX_ASSETS <- 3,
    MAX_YIELD <- 1

ProviderSymmetry == Permutations(Both)

\* What the pool leaves alone.
beside_pool == <<lm_state, lm_config, donated, nft_config, nft_records>>

StopsInit ==
    \/ part = "lending" /\ DeployedInit
    \/ part = "pool" /\ Pool!PoolInit /\ NftInit /\ ManagerInit

StopsNext ==
    \/ part = "lending" /\ SwitchedNext /\ UNCHANGED part
    \/ part = "pool" /\ Pool!PoolNext /\ UNCHANGED <<part, beside_pool>>

StopsSpec == StopsInit /\ [][StopsNext]_<<part, credit_vars>>

-----------------------------------------------------------------------------
\* Every step of the pool keeps the aggregates, the claims and a price in
\* order, lets the share price fall by losses only, and lets nothing out
\* while the pool is stopped (deposit, redeem_shares, settle, assert_circuit_ok).
PoolKeepsItsBooks ==
    [][part = "pool" =>
          /\ Pool!SharePriceNeverFalls /\ Pool!StoppedPoolHolds
          /\ (Pool!PoolTypeOK /\ Pool!AggregatesAgree /\ Pool!PricePositive /\ Pool!ClaimsCovered)'
      ]_pool_vars
=============================================================================
