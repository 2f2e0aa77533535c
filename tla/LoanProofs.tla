------------------------------ MODULE LoanProofs ------------------------------
(* What the loan manager keeps true, with its pool and the credit NFT behind it, *)
(* for every set of users, of terms and of arguments.                            *)
EXTENDS LoanManager, CreditProofs

-----------------------------------------------------------------------------
(* The inductive invariant.                                                     *)

TermsInv == terms \in [DOMAIN Terms -> Nat] /\ TermsCoherent

\* The counters and balances are those of the loans that are stored; what the pool's books
\* have beyond its cash is, with the gifts, the principal that is out.
lent_out == receivable + donated

LoansInv ==
    /\ Books(loans, LoanIds, Users, ledger, loan_counter, loan_count, total_outstanding, custody,
             lent_out)
    /\ loan_counter <= MAX_LOANS /\ donated \in Nat

CreditInv == LoansInv /\ TermsInv /\ PoolInv /\ NftRecordsInv /\ nft_admin \in NftAccounts

LendingStep == PauseStopsLending /\ DefaultIsMarked

CreditKept == CreditInv' /\ LendingStep /\ PoolStep /\ NftRecordsStep

\* The time a leaf is given, by each of the two provers that try it.
USE SMTT(20), ZenonT(30)

\* The configuration's values.
LEMMA TermsTyped ==
    ASSUME TermsInv
    PROVE  /\ terms.grace \in Nat /\ terms.window \in Nat /\ terms.late_fee_rate \in Nat
           /\ terms.min_rate \in Nat /\ terms.max_rate \in Nat /\ terms.interest_rate \in Nat
           /\ terms.default_term \in Nat /\ terms.min_term \in Nat /\ terms.max_term \in Nat
           /\ terms.min_repayment \in Nat /\ terms.liquidation_bonus \in Nat
           /\ terms.liquidation_threshold \in Nat /\ terms.max_loan_amount \in Nat
<1>1. DOMAIN Terms = Limits \cup Windows \cup TermNames \cup RateNames \cup LiquidationNames
  BY ManagerAssumption, ZenonT(30)
<1>2. \A name \in DOMAIN Terms : terms[name] \in Nat
  BY ZenonT(30) DEF TermsInv
<1> QED BY <1>1, <1>2, ZenonT(30) DEF Limits, Windows, TermNames, RateNames, LiquidationNames

\* The quantities an operation on a loan computes with.
LEMMA Typed ==
    ASSUME CreditInv
    PROVE  /\ ledger \in Nat /\ donated \in Nat /\ receivable \in Int
           /\ custody \in Nat /\ total_outstanding \in Nat /\ lent_out \in Int
           /\ loan_counter \in Nat /\ loan_counter <= MAX_LOANS
<1>1. ledger \in Nat /\ receivable \in Int
  BY ReceivableTyped, ZenonT(30) DEF CreditInv, PoolInv, PositionsInv
<1>2. custody \in Nat /\ total_outstanding \in Nat
  BY Entry, ZenonT(30) DEF CreditInv, LoansInv
<1>3. donated \in Nat /\ loan_counter \in Nat /\ loan_counter <= MAX_LOANS
  BY ZenonT(30) DEF CreditInv, LoansInv, Books
<1> QED BY <1>1, <1>2, <1>3 DEF lent_out

\* The books as they stand.
LEMMA Booked ==
    ASSUME CreditInv
    PROVE  Books(loans, LoanIds, Users, ledger, loan_counter, loan_count, total_outstanding, custody,
                 lent_out)
  BY ZenonT(30) DEF CreditInv, LoansInv

\* A stored loan.
LEMMA StoredLoan ==
    ASSUME CreditInv, NEW id \in LoanIds
    PROVE  /\ Sound(loans[id], ledger) /\ loans[id].borrower \in Users
           /\ loans[id].amount \in Nat /\ loans[id].collateral_amount \in Nat
           /\ remaining_principal(loans[id]) \in Nat
<1>1. Sound(loans[id], ledger) /\ loans[id].borrower \in Users
  BY Entry, ZenonT(30) DEF CreditInv, LoansInv
<1> QED BY <1>1, Weights, ZenonT(30)

\* The same with its interest and late fees up to now.
LEMMA AccruedLoan ==
    ASSUME CreditInv, NEW id \in LoanIds
    PROVE  /\ UpToDate(loans[id], accrued(id), ledger) /\ Sound(accrued(id), ledger)
           /\ accrued(id).status = loans[id].status /\ accrued(id).borrower \in Users
           /\ accrued(id).amount \in Nat /\ accrued(id).collateral_amount \in Nat
           /\ remaining_principal(accrued(id)) \in Nat /\ debt(accrued(id)) \in Nat
<1> DEFINE due == accrued(id)
<1>1. UpToDate(loans[id], due, ledger)
  BY Typed, TermsTyped, ZenonT(30) DEF UpToDate, accrued, CreditInv
<1> HIDE DEF due
<1>2. Fresh(loans[id], due, ledger)
  BY <1>1, StoredLoan, Accruing, ZenonT(30)
<1>3. Sound(due, ledger) /\ debt(due) \in Nat /\ due.status = loans[id].status /\ due.borrower \in Users
  BY <1>2, StoredLoan, ZenonT(30) DEF Fresh
<1>4. due.amount \in Nat /\ due.collateral_amount \in Nat /\ remaining_principal(due) \in Nat
  BY <1>3, Weights, ZenonT(30)
<1> QED BY <1>1, <1>3, <1>4, ZenonT(30) DEF due

\* A loan that is replaced is one no pause protects, and is not written off unseen.
LEMMA ReplacedStep ==
    ASSUME CreditInv, NEW id \in LoanIds, NEW loan, loans' = [loans EXCEPT ![id] = loan],
           loan.status # "Defaulted" \/ DefaultIsMarked,
           \/ require_not_paused
           \/ loans[id].status # "Approved" /\ total_outstanding' = total_outstanding
    PROVE  LendingStep
<1>1. DOMAIN loans = LoanIds
  BY ZenonT(30) DEF CreditInv, LoansInv, Books, Stored
<1>2. loans'[id] = loan /\ \A j \in LoanIds \ {id} : loans'[j] = loans[j]
  BY <1>1, ZenonT(30)
<1>3. PauseStopsLending
  BY <1>2, ZenonT(30) DEF PauseStopsLending, require_not_paused
<1>4. DefaultIsMarked
  BY <1>2, ZenonT(30) DEF DefaultIsMarked
<1> QED BY <1>3, <1>4, ZenonT(30) DEF LendingStep

\* The books after an operation on one loan.
Rebooked(ls) ==
    Books(ls, LoanIds, Users, ledger, loan_counter', loan_count', total_outstanding', custody',
          lent_out')

\* The frame of an operation on one loan.
LEMMA LoanKept ==
    ASSUME CreditInv, NEW id \in LoanIds, NEW loan, loans' = [loans EXCEPT ![id] = loan],
           Rebooked([loans EXCEPT ![id] = loan]), loan_counter' <= MAX_LOANS,
           loan.status # "Defaulted" \/ DefaultIsMarked,
           \/ require_not_paused
           \/ loans[id].status # "Approved" /\ total_outstanding' = total_outstanding,
           UNCHANGED <<lm_config, donated, ledger, nft_config>>,
           PoolInv' /\ PoolStep, NftRecordsInv' /\ NftRecordsStep
    PROVE  CreditKept
<1>1. LoansInv'
  BY ZenonT(30) DEF Rebooked, CreditInv, LoansInv
<1>2. LendingStep
  BY ReplacedStep, ZenonT(30)
<1>3. TermsInv'
  BY ZenonT(30) DEF CreditInv, TermsInv, TermsCoherent, lm_config
<1>4. nft_admin' \in NftAccounts
  BY ZenonT(30) DEF CreditInv, nft_config
<1> QED BY <1>1, <1>2, <1>3, <1>4, ZenonT(30) DEF CreditKept, CreditInv

\* The same, for an operation that leaves pool and NFT alone.
LEMMA QuietKept ==
    ASSUME CreditInv, NEW id \in LoanIds, NEW loan, loans' = [loans EXCEPT ![id] = loan],
           Books([loans EXCEPT ![id] = loan], LoanIds, Users, ledger, loan_counter', loan_count',
                 total_outstanding, custody', lent_out),
           loan_counter' <= MAX_LOANS, loan.status # "Defaulted",
           require_not_paused \/ loans[id].status # "Approved",
           UNCHANGED <<total_outstanding, lm_config, donated, pool_vars, nft_vars>>
    PROVE  CreditKept
<1>1. UNCHANGED <<ledger, nft_config, nft_records>>
  BY ZenonT(30) DEF nft_vars
<1>2. PoolInv' /\ PoolStep /\ receivable' = receivable
  BY PoolAlone, ZenonT(30) DEF CreditInv
<1>3. NftRecordsInv' /\ NftRecordsStep
  BY <1>1, RecordsAlone, ZenonT(30) DEF CreditInv
<1>4. Rebooked([loans EXCEPT ![id] = loan])
  BY <1>2, ZenonT(30) DEF Rebooked, lent_out
<1> QED BY <1>1, <1>2, <1>3, <1>4, LoanKept, ZenonT(30)

-----------------------------------------------------------------------------
(* The operations on loans that touch neither the pool nor the NFT.             *)

\* An empty entry.
LEMMA NoLoan == Empty(no_loan) /\ no_loan.borrower \in Users
<1>1. no_loan.borrower \in Users
  BY ManagerAssumption, ZenonT(30) DEF no_loan
<1>2. DOMAIN no_loan = LoanFields
  BY ZenonT(30) DEF no_loan, LoanFields
<1>3. no_loan.status = "None" /\ \A f \in LoanFields \ {"status", "borrower"} : no_loan[f] = 0
  BY DEF no_loan, LoanFields
<1> QED BY <1>1, <1>2, <1>3, ZenonT(30) DEF Empty

\* compute_interest_rate: a quote within the bounds, or the configured rate.
LEMMA RateTyped ==
    ASSUME TermsInv, NEW quote \in Quotes
    PROVE  compute_interest_rate(quote) \in Nat
  BY TermsTyped, ManagerAssumption, ZenonT(30) DEF compute_interest_rate

\* A request.
LEMMA RequestKeeps ==
    ASSUME CreditInv, NEW u \in Users, NEW amount \in LoanAmounts, NEW quote \in Quotes,
           loan_counter < MAX_LOANS, request_loan(u, amount, quote)
    PROVE  CreditKept
<1> DEFINE rate == compute_interest_rate(quote)
           id == loan_counter + 1
           loan == [no_loan EXCEPT !.status = "Pending", !.borrower = u, !.amount = amount,
                                   !.interest_rate = rate]
<1>1. /\ require_not_paused /\ loan_counter' = loan_counter + 1
      /\ loans' = [loans EXCEPT ![id] = loan] /\ loan_count' = [loan_count EXCEPT ![u] = @ + 1]
      /\ UNCHANGED <<total_outstanding, custody, lm_config, donated, pool_vars, nft_vars>>
  BY ZenonT(30) DEF request_loan
<1>2. rate \in Nat /\ amount \in Nat
  BY RateTyped, ManagerAssumption, ZenonT(30) DEF CreditInv
<1> HIDE DEF rate
<1>3. id \in LoanIds /\ ledger \in Nat /\ loan_counter + 1 <= MAX_LOANS
  BY Typed, ManagerAssumption DEF LoanIds
<1>4. Books([loans EXCEPT ![id] = loan], LoanIds, Users, ledger, loan_counter + 1,
            [loan_count EXCEPT ![u] = @ + 1], total_outstanding, custody, lent_out)
  BY <1>2, <1>3, NoLoan, Requesting, ZenonT(30) DEF CreditInv, LoansInv
<1>5. loan.status = "Pending"
  BY NoLoan, ZenonT(30) DEF Empty, LoanFields
<1> HIDE DEF loan, id
<1> QED BY <1>1, <1>3, <1>4, <1>5, QuietKept, ZenonT(30)

\* Collateral that is deposited.
LEMMA CollateralKeeps ==
    ASSUME CreditInv, NEW id \in LoanIds, NEW amount \in Collaterals, deposit_collateral(id, amount)
    PROVE  CreditKept
<1> DEFINE loan == [loans[id] EXCEPT !.collateral_amount = @ + amount]
<1>1. /\ require_not_paused /\ loans[id].status = "Approved" /\ custody' = custody + amount
      /\ loans' = [loans EXCEPT ![id].collateral_amount = @ + amount]
      /\ UNCHANGED <<loan_counter, loan_count, total_outstanding, lm_config, donated, pool_vars, nft_vars>>
  BY ZenonT(30) DEF deposit_collateral
<1>2. amount \in Nat
  BY ManagerAssumption, ZenonT(30)
<1>3. Books([loans EXCEPT ![id].collateral_amount = @ + amount], LoanIds, Users, ledger, loan_counter,
            loan_count, total_outstanding, custody + amount, lent_out)
  BY <1>1, <1>2, Securing, ZenonT(30) DEF CreditInv, LoansInv
<1>4. [loans EXCEPT ![id].collateral_amount = @ + amount] = [loans EXCEPT ![id] = loan]
  BY ZenonT(30) DEF CreditInv, LoansInv, Books, Stored
<1>5. loan.status = "Approved"
  BY <1>1, StoredLoan, ZenonT(30) DEF Sound, LoanFields
<1> HIDE DEF loan
<1>6. /\ loans' = [loans EXCEPT ![id] = loan]
      /\ Books([loans EXCEPT ![id] = loan], LoanIds, Users, ledger, loan_counter', loan_count',
               total_outstanding, custody', lent_out)
  BY <1>1, <1>3, <1>4, ZenonT(30)
<1> QED BY <1>1, <1>5, <1>6, Typed, QuietKept, ZenonT(30)

\* Collateral of a repaid loan that is released.
LEMMA ReleaseKeeps ==
    ASSUME CreditInv, NEW id \in LoanIds, release_collateral(id)
    PROVE  CreditKept
<1> DEFINE loan == [loans[id] EXCEPT !.collateral_amount = 0]
<1>1. /\ loans[id].status = "Repaid" /\ custody' = custody - loans[id].collateral_amount
      /\ loans' = [loans EXCEPT ![id].collateral_amount = 0]
      /\ UNCHANGED <<loan_counter, loan_count, total_outstanding, lm_config, donated, pool_vars, nft_vars>>
  BY ZenonT(30) DEF release_collateral
<1>2. Books([loans EXCEPT ![id].collateral_amount = 0], LoanIds, Users, ledger, loan_counter,
            loan_count, total_outstanding, custody - loans[id].collateral_amount, lent_out)
  BY Releasing, ZenonT(30) DEF CreditInv, LoansInv
<1>3. [loans EXCEPT ![id].collateral_amount = 0] = [loans EXCEPT ![id] = loan]
  BY ZenonT(30) DEF CreditInv, LoansInv, Books, Stored
<1>4. loan.status = "Repaid"
  BY <1>1, StoredLoan, ZenonT(30) DEF Sound, LoanFields
<1> HIDE DEF loan
<1>5. /\ loans' = [loans EXCEPT ![id] = loan]
      /\ Books([loans EXCEPT ![id] = loan], LoanIds, Users, ledger, loan_counter', loan_count',
               total_outstanding, custody', lent_out)
  BY <1>1, <1>2, <1>3, ZenonT(30)
<1> QED BY <1>1, <1>4, <1>5, Typed, QuietKept, ZenonT(30)

\* A request withdrawn or refused.
LEMMA ClosingKeeps ==
    ASSUME CreditInv, NEW id \in LoanIds, cancel_loan(id) \/ reject_loan(id)
    PROVE  CreditKept
<1>1. PICK status \in {"Cancelled", "Rejected"} : close_request(id, status)
  BY ZenonT(30) DEF cancel_loan, reject_loan
<1> DEFINE loan == [loans[id] EXCEPT !.status = status, !.collateral_amount = 0]
<1>2. /\ loans[id].status = "Pending" /\ custody' = custody - loans[id].collateral_amount
      /\ loans' = [loans EXCEPT ![id] = loan]
      /\ UNCHANGED <<loan_counter, loan_count, total_outstanding, lm_config, donated, pool_vars, nft_vars>>
  BY <1>1, ZenonT(30) DEF close_request
<1>3. Books([loans EXCEPT ![id] = loan], LoanIds, Users, ledger, loan_counter, loan_count,
            total_outstanding, custody - loans[id].collateral_amount, lent_out)
  BY <1>2, Closing, ZenonT(30) DEF CreditInv, LoansInv
<1>4. loan.status # "Defaulted"
  BY StoredLoan, ZenonT(30) DEF Sound, LoanFields
<1> HIDE DEF loan
<1> QED BY <1>2, <1>3, <1>4, Typed, QuietKept, ZenonT(30)

\* A closed loan that is purged.
LEMMA PurgeKeeps ==
    ASSUME CreditInv, NEW id \in LoanIds, purge_loan(id)
    PROVE  CreditKept
<1> DEFINE counts == IF loans[id].status \in {"Cancelled", "Rejected"}
                     THEN count_down(loan_count, loans[id].borrower) ELSE loan_count
<1>1. /\ loans[id].status \in {"Repaid", "Cancelled", "Rejected"}
      /\ custody' = custody - loans[id].collateral_amount
      /\ loans' = [loans EXCEPT ![id] = no_loan] /\ loan_count' = counts
      /\ UNCHANGED <<loan_counter, total_outstanding, lm_config, donated, pool_vars, nft_vars>>
  BY ZenonT(30) DEF purge_loan, still_counted
<1>2. Books([loans EXCEPT ![id] = no_loan], LoanIds, Users, ledger, loan_counter, counts,
            total_outstanding, custody - loans[id].collateral_amount, lent_out)
  BY <1>1, Typed, NoLoan, Purging, ZenonT(30) DEF CreditInv, LoansInv
<1> HIDE DEF counts
<1>3. no_loan.status # "Defaulted"
  BY NoLoan, ZenonT(30) DEF Empty
<1> QED BY <1>1, <1>2, <1>3, Typed, QuietKept, ZenonT(30)

-----------------------------------------------------------------------------
(* The operations that move cash of the pool.                                   *)

\* An approval: the pool pays out what becomes outstanding.
LEMMA ApprovalKeeps ==
    ASSUME CreditInv, NEW id \in LoanIds, approve_loan(id)
    PROVE  CreditKept
<1> DEFINE old == loans[id]
           due == ledger + terms.default_term
           fees == due + terms.grace
           loan == [loans[id] EXCEPT !.status = "Approved", !.due_date = due,
                                     !.last_interest_ledger = ledger, !.last_late_fee_ledger = fees]
<1>1. /\ require_not_paused /\ loans[id].status = "Pending" /\ loans' = [loans EXCEPT ![id] = loan]
      /\ total_outstanding' = total_outstanding + loans[id].amount /\ disburse(loans[id].amount)
      /\ UNCHANGED <<loan_counter, loan_count, custody, lm_config, donated, pool_rest, nft_vars>>
  BY ZenonT(30) DEF approve_loan
<1>2. UNCHANGED <<donated, pool_config, positions, pool_outstanding, blocked, ledger, nft_config, nft_records>>
  BY <1>1, ZenonT(30) DEF pool_rest, nft_vars
<1>3. due \in Nat /\ fees \in Nat /\ loans[id].amount \in Nat
  BY Typed, TermsTyped, StoredLoan DEF CreditInv
<1> HIDE DEF due, fees
<1>4. Books([loans EXCEPT ![id] = loan], LoanIds, Users, ledger, loan_counter, loan_count,
            total_outstanding + loans[id].amount, custody, lent_out + loans[id].amount)
  BY <1>1, <1>3, Typed, Approving, ZenonT(30) DEF CreditInv, LoansInv
<1>5. loan.status = "Approved"
  BY StoredLoan, ZenonT(30) DEF Sound, LoanFields
<1> HIDE DEF loan
<1>6. PoolInv' /\ PoolStep /\ receivable' = receivable + loans[id].amount
  BY <1>1, <1>2, <1>3, Disbursed DEF CreditInv
<1>7. lent_out' = lent_out + loans[id].amount
  BY <1>2, <1>3, <1>6, Typed DEF lent_out
<1>8. Rebooked([loans EXCEPT ![id] = loan])
  BY <1>1, <1>4, <1>7, ZenonT(30) DEF Rebooked
<1>9. NftRecordsInv' /\ NftRecordsStep
  BY <1>2, RecordsAlone, ZenonT(30) DEF CreditInv
<1> QED BY <1>1, <1>2, <1>5, <1>6, <1>8, <1>9, Typed, LoanKept, ZenonT(30)

\* An extension: its fee is income of the pool.
LEMMA ExtensionKeeps ==
    ASSUME CreditInv, NEW id \in LoanIds, NEW extra \in Extras, extend_loan(id, extra)
    PROVE  CreditKept
<1> DEFINE fee == (remaining_principal(loans[id]) * EXTENSION_FEE_BPS) \div BPS
           loan == [loans[id] EXCEPT !.due_date = @ + extra, !.extension_count = @ + 1]
<1>1. /\ require_not_paused /\ loans[id].status = "Approved"
      /\ loans[id].extension_count < MAX_EXTENSIONS
      /\ loans' = [loans EXCEPT ![id] = loan] /\ settle(fee, fee, 0)
      /\ UNCHANGED <<loan_counter, loan_count, total_outstanding, custody, lm_config, donated,
                     pool_rest, nft_vars>>
  BY ZenonT(30) DEF extend_loan
<1>2. UNCHANGED <<donated, pool_config, positions, pool_outstanding, blocked, ledger, nft_config, nft_records>>
  BY <1>1, ZenonT(30) DEF pool_rest, nft_vars
<1>3. fee \in Nat /\ extra \in Nat
  BY StoredLoan, BasisPoints, ManagerAssumption, ZenonT(30)
<1> HIDE DEF fee
<1>4. Books([loans EXCEPT ![id] = loan], LoanIds, Users, ledger, loan_counter, loan_count,
            total_outstanding, custody, lent_out)
  BY <1>1, <1>3, Extending, ZenonT(30) DEF CreditInv, LoansInv
<1>5. loan.status = "Approved"
  BY <1>1, StoredLoan, ZenonT(30) DEF Sound, LoanFields
<1> HIDE DEF loan
<1>6. PoolInv' /\ PoolStep /\ receivable' = receivable + fee - 0 - fee
  BY <1>1, <1>2, <1>3, Settled, ZenonT(30) DEF CreditInv
<1>7. lent_out' = lent_out
  BY <1>2, <1>3, <1>6, Typed DEF lent_out
<1>8. Rebooked([loans EXCEPT ![id] = loan])
  BY <1>1, <1>4, <1>7, ZenonT(30) DEF Rebooked
<1>9. NftRecordsInv' /\ NftRecordsStep
  BY <1>2, RecordsAlone, ZenonT(30) DEF CreditInv
<1> QED BY <1>1, <1>2, <1>5, <1>6, <1>8, <1>9, Typed, LoanKept, ZenonT(30)

\* score_default: a holder's default is counted, and the token is seized or burned.
LEMMA DefaultScored ==
    ASSUME NftRecordsInv, NEW u \in Users, score_default(u)
    PROVE  /\ NftRecordsInv' /\ NftRecordsStep
           /\ has_active_nft(u) => /\ default_count'[u] = default_count[u] + 1
                                   /\ burned'[u] \/ seized'[u]
<1>1. CASE ~has_active_nft(u)
  BY <1>1, RecordsAlone, ZenonT(30) DEF score_default
<1>2. CASE has_active_nft(u) /\ default_count[u] + 1 >= burn_threshold
  <2>1. burn_internal(u) /\ default_count' = [default_count EXCEPT ![u] = @ + 1]
    BY <1>2, ZenonT(30) DEF score_default
  <2> QED BY <1>2, <2>1, DefaultBurns, ZenonT(30)
<1>3. CASE has_active_nft(u) /\ ~(default_count[u] + 1 >= burn_threshold)
  <2> DEFINE x == decreased(score[u], DEFAULT_SCORE_PENALTY_POINTS)
  <2>1. /\ default_count' = [default_count EXCEPT ![u] = @ + 1]
        /\ score' = [score EXCEPT ![u] = x] /\ seized' = [seized EXCEPT ![u] = TRUE]
        /\ UNCHANGED <<burned, remint_approved, transfer_after>>
    BY <1>3, ZenonT(30) DEF score_default
  <2>2. x \in 0..MAX_SCORE
    BY <1>3, HolderScores, ManagerAssumption, ZenonT(30)
  <2> HIDE DEF x
  <2> QED BY <1>3, <2>1, <2>2, DefaultMarks, ZenonT(30)
<1> QED BY <1>1, <1>2, <1>3, ZenonT(30)

\* score_repayment: the score of a holder moves within its range.
LEMMA RepaymentScored ==
    ASSUME NftRecordsInv, NEW u \in Users, NEW amount \in Nat, NEW late,
           score_repayment(u, amount, late),
           UNCHANGED <<seized, burned, default_count, remint_approved, transfer_after>>
    PROVE  NftRecordsInv' /\ NftRecordsStep
<1> DEFINE up == adjusted(score[u], amount \div STROOPS_PER_SCORE_POINT)
           down == decreased(score[u], LATE_REPAYMENT_SCORE_PENALTY)
<1>1. \/ score' = score
      \/ get_score(u) > 0 /\ score' = [score EXCEPT ![u] = up]
      \/ get_score(u) > 0 /\ score' = [score EXCEPT ![u] = down]
  BY ZenonT(30) DEF score_repayment
<1>2. get_score(u) > 0 => has_active_nft(u)
  BY DEF get_score
<1>3. amount \div STROOPS_PER_SCORE_POINT \in Int
  BY NftAssumption
<1>4. has_active_nft(u) => up \in 0..MAX_SCORE /\ down \in 0..MAX_SCORE
  BY <1>3, HolderScores, ManagerAssumption, ZenonT(30)
<1> HIDE DEF up, down
<1>5. CASE score' = score
  BY <1>5, RecordsAlone, ZenonT(30) DEF nft_records
<1> QED BY <1>1, <1>2, <1>4, <1>5, ScoreKeeps, ZenonT(30)

\* A default: the collateral covers what it can of the principal, and the score is marked.
LEMMA WriteOffKeeps ==
    ASSUME CreditInv, NEW id \in LoanIds, check_default(id)
    PROVE  CreditKept
<1> DEFINE loan == [loans[id] EXCEPT !.status = "Defaulted", !.collateral_amount = 0]
           rest == remaining_principal(loans[id])
           u == loans[id].borrower
<1>1. /\ require_not_paused /\ loans[id].status = "Approved" /\ loans' = [loans EXCEPT ![id] = loan]
      /\ total_outstanding' = total_outstanding - loans[id].amount
      /\ loan_count' = count_down(loan_count, u)
      /\ custody' = custody - loans[id].collateral_amount
      /\ record_pool_recovery(rest, loans[id].collateral_amount) /\ score_default(u)
      /\ UNCHANGED <<loan_counter, lm_config, donated, pool_rest, nft_config, ledger>>
  BY ZenonT(30) DEF check_default
<1>2. UNCHANGED <<donated, pool_config, positions, pool_outstanding, blocked>>
  BY <1>1, ZenonT(30) DEF pool_rest
<1>3. u \in Users /\ loans[id].collateral_amount \in Nat /\ rest \in Nat
  BY StoredLoan, ZenonT(30)
<1>4. Books([loans EXCEPT ![id] = loan], LoanIds, Users, ledger, loan_counter,
            count_down(loan_count, u), total_outstanding - loans[id].amount,
            custody - loans[id].collateral_amount, lent_out - rest)
  <2>1. loans[id].status = "Approved"
    BY <1>1, ZenonT(30)
  <2> QED BY <2>1, Booked, Defaulting, ZenonT(30)
<1> HIDE DEF loan, rest
<1>5. /\ NftRecordsInv' /\ NftRecordsStep
      /\ has_active_nft(u) => /\ default_count'[u] = default_count[u] + 1
                              /\ burned'[u] \/ seized'[u]
  <2> HIDE DEF u
  <2> QED BY <1>1, <1>3, DefaultScored, ZenonT(30) DEF CreditInv
<1>6. DefaultIsMarked
  <2>1. \A j \in LoanIds \ {id} : loans'[j] = loans[j]
    BY <1>1, ZenonT(30) DEF CreditInv, LoansInv, Books, Stored
  <2> QED BY <1>5, <2>1, ZenonT(30) DEF DefaultIsMarked
<1>7. PoolInv' /\ PoolStep /\ receivable' = receivable - rest
  BY <1>1, <1>2, <1>3, Recovered, ZenonT(30) DEF CreditInv, record_pool_recovery
<1>8. lent_out' = lent_out - rest
  BY <1>2, <1>3, <1>7, Typed DEF lent_out
<1>9. Rebooked([loans EXCEPT ![id] = loan])
  BY <1>1, <1>4, <1>8, ZenonT(30) DEF Rebooked
<1> QED BY <1>1, <1>5, <1>6, <1>7, <1>9, Typed, LoanKept, ZenonT(30)

\* liquidation_payout: the collateral is paid out whole, and no more than the debt to the pool.
LEMMA PayoutWhole ==
    ASSUME NEW c \in Nat, NEW owed \in Nat, NEW bonus \in Nat,
           NEW payout, payout = liquidation_payout(c, owed, bonus)
    PROVE  /\ payout.repaid \in Nat /\ payout.repaid <= owed
           /\ payout.bonus \in Nat /\ payout.refund \in Nat
           /\ payout.repaid + payout.bonus + payout.refund = c
  BY DEF liquidation_payout, smaller

\* A liquidation pays out the collateral once, whoever gets it.
LEMMA LiquidationKeeps ==
    ASSUME CreditInv, NEW id \in LoanIds, NEW price \in Prices, liquidate(id, price)
    PROVE  CreditKept
<1> DEFINE due == accrued(id)
           rest == remaining_principal(due)
           bonus == (due.collateral_amount * terms.liquidation_bonus) \div BPS
           payout == liquidation_payout(due.collateral_amount, debt(due), bonus)
           after == apply_debt_recovery(due, payout.repaid)
           loan == [after EXCEPT !.status = "Liquidated", !.collateral_amount = 0]
<1>1. /\ require_not_paused /\ due.status = "Approved" /\ loans' = [loans EXCEPT ![id] = loan]
      /\ total_outstanding' = total_outstanding - due.amount
      /\ loan_count' = count_down(loan_count, due.borrower)
      /\ record_pool_recovery(rest, payout.repaid)
      /\ custody' = custody - payout.repaid - payout.bonus - payout.refund
      /\ UNCHANGED <<loan_counter, lm_config, donated, pool_rest, nft_vars>>
  BY ZenonT(30) DEF liquidate
<1>2. UNCHANGED <<donated, pool_config, positions, pool_outstanding, blocked, ledger, nft_config, nft_records>>
  BY <1>1, ZenonT(30) DEF pool_rest, nft_vars
<1>3. /\ UpToDate(loans[id], due, ledger) /\ due.status = loans[id].status /\ Sound(due, ledger)
      /\ due.collateral_amount \in Nat /\ rest \in Nat /\ debt(due) \in Nat
  BY AccruedLoan, ZenonT(30)
<1> HIDE DEF due, rest
<1>4. bonus \in Nat
  BY <1>3, TermsTyped, BasisPoints, ZenonT(30) DEF CreditInv
<1> HIDE DEF bonus
<1>5. /\ payout.repaid \in Nat /\ payout.repaid <= debt(due)
      /\ payout.bonus \in Nat /\ payout.refund \in Nat
      /\ payout.repaid + payout.bonus + payout.refund = due.collateral_amount
  <2>1. payout = liquidation_payout(due.collateral_amount, debt(due), bonus)
    OBVIOUS
  <2>2. due.collateral_amount \in Nat /\ debt(due) \in Nat
    BY <1>3, ZenonT(30)
  <2> HIDE DEF payout
  <2> QED BY <1>4, <2>1, <2>2, PayoutWhole, ZenonT(30)
<1> HIDE DEF payout
<1>6. Books([loans EXCEPT ![id] = loan], LoanIds, Users, ledger, loan_counter,
            count_down(loan_count, due.borrower), total_outstanding - due.amount,
            custody - due.collateral_amount, lent_out - rest)
  <2>1. /\ loans[id].status = "Approved" /\ UpToDate(loans[id], due, ledger) /\ ledger \in Nat
        /\ payout.repaid \in Nat /\ payout.repaid <= debt(due)
    BY <1>1, <1>3, <1>5, Typed, ZenonT(30)
  <2> QED BY <2>1, Booked, Liquidating, ZenonT(30) DEF rest
<1>7. loan.status = "Liquidated"
  <2>1. DOMAIN after = LoanFields
    BY <1>3, ZenonT(30) DEF apply_debt_recovery, Sound
  <2> HIDE DEF after
  <2> QED BY <2>1, ZenonT(30) DEF LoanFields
<1> HIDE DEF loan
<1>8. PoolInv' /\ PoolStep /\ receivable' = receivable - rest
  BY <1>1, <1>2, <1>3, <1>5, Recovered, ZenonT(30) DEF CreditInv, record_pool_recovery
<1>9. lent_out' = lent_out - rest
  BY <1>2, <1>3, <1>8, Typed DEF lent_out
<1>10. custody' = custody - due.collateral_amount
  BY <1>1, <1>5, Typed
<1>11. Rebooked([loans EXCEPT ![id] = loan])
  BY <1>1, <1>6, <1>9, <1>10, ZenonT(30) DEF Rebooked
<1>12. NftRecordsInv' /\ NftRecordsStep
  BY <1>2, RecordsAlone, ZenonT(30) DEF CreditInv
<1> QED BY <1>1, <1>2, <1>7, <1>8, <1>11, <1>12, Typed, LoanKept, ZenonT(30)

\* A repayment: what is not principal is income, and forgiven dust a loss of the pool.
LEMMA RepaymentKeeps ==
    ASSUME CreditInv, NEW id \in LoanIds, NEW amount \in Nat, repay(id, amount)
    PROVE  CreditKept
<1> DEFINE due == accrued(id)
           rest == remaining_principal(due)
           payment == proportional_repayment_split(dues_of(due), amount)
           income == payment[2] + payment[3]
           dust == debt(due) <= terms.min_repayment
           paid == apply_debt_recovery(due, amount)
           left == remaining_principal(paid)
           completed == dust \/ debt(paid) = 0
           closed == [paid EXCEPT !.status = "Repaid", !.principal_paid = due.amount,
                                  !.accrued_interest = 0, !.accrued_late_fee = 0,
                                  !.collateral_amount = 0]
           forgiven == forgiven_principal(paid, dust)
           late == completed /\ ledger > due.due_date + terms.grace
<1>1. /\ require_not_paused /\ amount > 0 /\ loans[id].status = "Approved" /\ amount <= debt(due)
      /\ loans' = [loans EXCEPT ![id] = IF completed THEN closed ELSE paid]
      /\ total_outstanding' = total_outstanding - (IF completed THEN due.amount ELSE 0)
      /\ loan_count' = IF completed THEN count_down(loan_count, due.borrower) ELSE loan_count
      /\ settle(amount, income, forgiven)
      /\ custody' = custody - (IF completed THEN due.collateral_amount ELSE 0)
      /\ score_repayment(due.borrower, amount, late)
      /\ UNCHANGED <<loan_counter, lm_config, donated, pool_rest, nft_config, seized, burned,
                     default_count, remint_approved, transfer_after, ledger>>
  BY ZenonT(30) DEF repay
<1>2. UNCHANGED <<donated, pool_config, positions, pool_outstanding, blocked>>
  BY <1>1, ZenonT(30) DEF pool_rest
<1>3. /\ UpToDate(loans[id], due, ledger) /\ due.status = loans[id].status /\ Sound(due, ledger)
      /\ due.borrower \in Users /\ rest \in Nat /\ debt(due) \in Nat
  BY AccruedLoan, ZenonT(30)
<1> HIDE DEF due
<1>4. /\ income \in Nat /\ left \in Nat /\ (debt(paid) = 0 => left = 0)
      /\ left = rest - amount + income
  BY <1>1, <1>3, Paying
<1>5. forgiven \in Nat /\ (completed => forgiven = left) /\ (~completed => forgiven = 0)
  BY <1>4, ZenonT(30) DEF forgiven_principal
<1>6. /\ Books([loans EXCEPT ![id] = closed], LoanIds, Users, ledger, loan_counter,
               count_down(loan_count, due.borrower), total_outstanding - due.amount,
               custody - due.collateral_amount, lent_out - rest)
      /\ Books([loans EXCEPT ![id] = paid], LoanIds, Users, ledger, loan_counter, loan_count,
               total_outstanding, custody, lent_out - rest + left)
  <2>1. /\ loans[id].status = "Approved" /\ UpToDate(loans[id], due, ledger) /\ ledger \in Nat
        /\ amount <= debt(due)
    BY <1>1, <1>3, Typed, ZenonT(30)
  <2>2. Books([loans EXCEPT ![id] = closed], LoanIds, Users, ledger, loan_counter,
              count_down(loan_count, due.borrower), total_outstanding - due.amount,
              custody - due.collateral_amount, lent_out - rest)
    BY <2>1, Booked, Completing, ZenonT(30)
  <2>3. Books([loans EXCEPT ![id] = paid], LoanIds, Users, ledger, loan_counter, loan_count,
              total_outstanding, custody, lent_out - rest + left)
    BY <2>1, Booked, Reducing, ZenonT(30)
  <2> QED BY <2>2, <2>3, ZenonT(30)
<1> HIDE DEF rest, income, left, forgiven
<1>7. PoolInv' /\ PoolStep /\ lent_out' = lent_out - rest + left - forgiven
  <2>1. PoolInv' /\ PoolStep /\ receivable' + donated = receivable + donated - rest + left - forgiven
    BY <1>1, <1>2, <1>3, <1>4, <1>5, Typed, Collected DEF CreditInv
  <2>2. lent_out' = receivable' + donated /\ lent_out = receivable + donated
    BY <1>2, ZenonT(30) DEF lent_out
  <2>3. receivable \in Int /\ donated \in Nat /\ rest \in Nat /\ left \in Nat /\ forgiven \in Nat
    BY <1>3, <1>4, <1>5, Typed, ZenonT(30)
  <2> QED BY <2>1, <2>2, <2>3
<1>8. NftRecordsInv' /\ NftRecordsStep
  <2> HIDE DEF late
  <2> QED BY <1>1, <1>3, RepaymentScored, ZenonT(30) DEF CreditInv
<1>9. CASE completed
  <2>1. lent_out \in Int
    BY Typed, ZenonT(30)
  <2>2. lent_out' = lent_out - rest
    BY <1>3, <1>4, <1>5, <1>7, <1>9, <2>1
  <2>3. closed.status = "Repaid"
    <3>1. DOMAIN paid = LoanFields
      BY <1>3, ZenonT(30) DEF apply_debt_recovery, Sound
    <3> HIDE DEF paid
    <3> QED BY <3>1, ZenonT(30) DEF LoanFields
  <2>4. loans' = [loans EXCEPT ![id] = closed]
    BY <1>1, <1>9, ZenonT(30)
  <2>5. /\ total_outstanding' = total_outstanding - due.amount
        /\ loan_count' = count_down(loan_count, due.borrower)
        /\ custody' = custody - due.collateral_amount
    BY <1>1, <1>9, ZenonT(30)
  <2> HIDE DEF closed, completed
  <2>6. Rebooked([loans EXCEPT ![id] = closed])
    BY <1>1, <1>6, <2>2, <2>5, ZenonT(30) DEF Rebooked
  <2> QED BY <1>1, <1>7, <1>8, <2>3, <2>4, <2>6, Typed, LoanKept, ZenonT(30)
<1>10. CASE ~completed
  <2>1. lent_out \in Int
    BY Typed, ZenonT(30)
  <2>2. lent_out' = lent_out - rest + left
    BY <1>3, <1>4, <1>5, <1>7, <1>10, <2>1
  <2>3. paid.status = "Approved"
    BY <1>1, <1>3, ZenonT(30) DEF apply_debt_recovery, Sound, LoanFields
  <2>4. loans' = [loans EXCEPT ![id] = paid]
    BY <1>1, <1>10, ZenonT(30)
  <2>5. loan_count' = loan_count /\ total_outstanding' = total_outstanding /\ custody' = custody
    BY <1>1, <1>10, Typed
  <2> HIDE DEF paid, completed
  <2>6. Rebooked([loans EXCEPT ![id] = paid])
    BY <1>1, <1>6, <2>2, <2>5, ZenonT(30) DEF Rebooked
  <2> QED BY <1>1, <1>7, <1>8, <2>3, <2>4, <2>6, Typed, LoanKept, ZenonT(30)
<1> QED BY <1>9, <1>10, ZenonT(30)

\* A refinancing: the difference of the principals moves, and of a smaller loan the surplus
\* collateral.
LEMMA RefinanceKeeps ==
    ASSUME CreditInv, NEW id \in LoanIds, NEW amount \in LoanAmounts, NEW term \in NewTerms,
           NEW quote \in Quotes, refinance_loan(id, amount, term, quote)
    PROVE  CreditKept
<1> DEFINE due == accrued(id)
           rest == remaining_principal(due)
           returned == IF amount < rest
                       THEN (due.collateral_amount * (rest - amount)) \div rest ELSE 0
           rate == compute_interest_rate(quote)
           end == ledger + term
           loan == [due EXCEPT !.income_paid = @ + due.accrued_interest + due.accrued_late_fee,
                               !.accrued_interest = 0, !.accrued_late_fee = 0,
                               !.collateral_amount = @ - returned,
                               !.amount = amount, !.principal_paid = 0, !.interest_rate = rate,
                               !.last_interest_ledger = ledger, !.due_date = end,
                               !.last_late_fee_ledger = end]
<1>1. /\ require_not_paused /\ due.status = "Approved" /\ amount > 0
      /\ \/ amount > rest /\ disburse(amount - rest)
         \/ ~(amount > rest) /\ settle(rest - amount, 0, 0)
      /\ custody' = custody - returned
      /\ total_outstanding' = total_outstanding + (amount - due.amount)
      /\ loans' = [loans EXCEPT ![id] = loan]
      /\ UNCHANGED <<loan_counter, loan_count, lm_config, donated, pool_rest, nft_vars>>
  BY ZenonT(30) DEF refinance_loan, outstanding_delta
<1>2. UNCHANGED <<donated, pool_config, positions, pool_outstanding, blocked, ledger, nft_config, nft_records>>
  BY <1>1, ZenonT(30) DEF pool_rest, nft_vars
<1>3. /\ UpToDate(loans[id], due, ledger) /\ due.status = loans[id].status /\ Sound(due, ledger)
      /\ due.collateral_amount \in Nat /\ rest \in Nat
  BY AccruedLoan, ZenonT(30)
<1>4. rate \in Nat /\ amount \in Nat /\ end \in Nat
  BY Typed, RateTyped, ManagerAssumption DEF CreditInv
<1> HIDE DEF due, rate, end, rest
<1>5. returned \in Nat /\ returned <= due.collateral_amount
  BY <1>1, <1>3, <1>4, ReturnedShare
<1> HIDE DEF returned
<1>6. Books([loans EXCEPT ![id] = loan], LoanIds, Users, ledger, loan_counter, loan_count,
            total_outstanding + (amount - due.amount), custody - returned,
            lent_out + amount - rest)
  BY <1>1, <1>3, <1>4, <1>5, Typed, Refinancing, ZenonT(30) DEF CreditInv, LoansInv, rest
<1>7. loan.status = "Approved"
  BY <1>1, <1>3, ZenonT(30) DEF Sound, LoanFields
<1> HIDE DEF loan
<1>8. PoolInv' /\ PoolStep /\ lent_out' = lent_out + amount - rest
  <2>1. PoolInv /\ donated \in Nat
    BY Typed, ZenonT(30) DEF CreditInv
  <2>2. UNCHANGED <<pool_config, positions, pool_outstanding, blocked, ledger>>
    BY <1>2, ZenonT(30)
  <2>3. \/ amount > rest /\ disburse(amount - rest)
        \/ ~(amount > rest) /\ settle(rest - amount, 0, 0)
    BY <1>1, ZenonT(30)
  <2>4. PoolInv' /\ PoolStep /\ receivable' + donated = receivable + donated + amount - rest
    BY <1>3, <1>4, <2>1, <2>2, <2>3, Exchanged, ZenonT(30)
  <2> QED BY <1>2, <2>4, ZenonT(30) DEF lent_out
<1>9. Rebooked([loans EXCEPT ![id] = loan])
  BY <1>1, <1>6, <1>8, ZenonT(30) DEF Rebooked
<1>10. NftRecordsInv' /\ NftRecordsStep
  BY <1>2, RecordsAlone, ZenonT(30) DEF CreditInv
<1> QED BY <1>1, <1>2, <1>7, <1>8, <1>9, <1>10, Typed, LoanKept, ZenonT(30)

-----------------------------------------------------------------------------
(* The steps that touch no loan.                                                *)

\* The manager's books, where only the ledger, the pool's books or the switches move.
LEMMA LoansStay ==
    ASSUME CreditInv, UNCHANGED lm_state, donated' \in Nat, ledger' \in Nat, ledger <= ledger',
           lent_out' = lent_out
    PROVE  LoansInv' /\ LendingStep
<1>1. UNCHANGED <<loans, loan_counter, loan_count, total_outstanding, custody>>
  BY ZenonT(30) DEF lm_state
<1>2. Books(loans, LoanIds, Users, ledger', loan_counter, loan_count, total_outstanding, custody, lent_out)
  BY Typed, Booked, Passing, ZenonT(30)
<1>3. LoansInv'
  BY <1>1, <1>2, ZenonT(30) DEF CreditInv, LoansInv
<1>4. PauseStopsLending
  BY <1>1, ZenonT(30) DEF PauseStopsLending
<1>5. DefaultIsMarked
  BY <1>1, ZenonT(30) DEF DefaultIsMarked
<1> QED BY <1>3, <1>4, <1>5, ZenonT(30) DEF LendingStep

\* A step of the admins, that moves no cash.
LEMMA SwitchKept ==
    ASSUME CreditInv, UNCHANGED <<lm_state, donated, ledger, total_managed_assets, pool_balance>>,
           TermsInv', nft_admin' \in NftAccounts,
           PoolInv' /\ PoolStep, NftRecordsInv' /\ NftRecordsStep
    PROVE  CreditKept
<1>1. donated' \in Nat /\ ledger' \in Nat /\ ledger <= ledger'
  BY Typed
<1>2. lent_out' = lent_out
  BY ZenonT(30) DEF lent_out, receivable
<1>3. LoansInv' /\ LendingStep
  BY <1>1, <1>2, LoansStay, ZenonT(30)
<1> QED BY <1>3, ZenonT(30) DEF CreditKept, CreditInv

\* A setter: the value passes the test of its own key, and the bounds stay in order.
LEMMA SettingKeeps ==
    ASSUME CreditInv, NEW setting \in Settings, configure(setting[1], setting[2])
    PROVE  CreditKept
<1> DEFINE name == setting[1]
           v == setting[2]
<1>1. name \in DOMAIN Terms /\ v \in Nat
  BY ManagerAssumption, ZenonT(30)
<1>2. /\ acceptable_rate(name, v) /\ acceptable_window(name, v) /\ acceptable_term(name, v)
      /\ terms' = [terms EXCEPT ![name] = v]
      /\ UNCHANGED other_than_lm_config
  BY ZenonT(30) DEF configure
<1> HIDE DEF name, v
<1>3. UNCHANGED <<lm_state, donated, pool_vars, nft_vars>>
  BY <1>2, ZenonT(30) DEF other_than_lm_config
<1>4. /\ UNCHANGED <<ledger, nft_admin, nft_records, total_managed_assets, pool_balance>>
  BY <1>3, ZenonT(30) DEF pool_vars, nft_vars, nft_config, books
<1>5. terms' \in [DOMAIN Terms -> Nat]
  BY <1>1, <1>2, ZenonT(30) DEF CreditInv, TermsInv
<1>6. /\ \A n \in DOMAIN Terms : n # name => terms'[n] = terms[n]
      /\ terms'[name] = v
  BY <1>1, <1>2, ZenonT(30) DEF CreditInv, TermsInv
<1>7. {"grace", "window", "min_rate", "max_rate", "min_term", "max_term", "default_term"}
        \subseteq DOMAIN Terms
  BY ManagerAssumption, ZenonT(30) DEF Limits, Windows, TermNames, RateNames, LiquidationNames
<1>8. TermsCoherent
  BY ZenonT(30) DEF CreditInv, TermsInv
<1>9. /\ terms.grace \in Nat /\ terms.window \in Nat /\ terms.min_rate \in Nat /\ terms.max_rate \in Nat
      /\ terms.min_term \in Nat /\ terms.max_term \in Nat /\ terms.default_term \in Nat
  BY TermsTyped, ZenonT(30) DEF CreditInv
<1>10. terms'.grace <= terms'.window
  BY <1>1, <1>2, <1>6, <1>7, <1>8, <1>9, ZenonT(30) DEF TermsCoherent, acceptable_window
<1>11. 0 < terms'.min_rate /\ terms'.min_rate <= terms'.max_rate
  BY <1>1, <1>2, <1>6, <1>7, <1>8, <1>9 DEF TermsCoherent, acceptable_rate
<1>12. terms'.min_term <= terms'.max_term /\ terms'.default_term > 0
  BY <1>1, <1>2, <1>6, <1>7, <1>8, <1>9 DEF TermsCoherent, acceptable_term, TermNames
<1>13. TermsInv'
  BY <1>5, <1>10, <1>11, <1>12, ZenonT(30) DEF TermsInv, TermsCoherent
<1>14. nft_admin' \in NftAccounts
  BY <1>4, ZenonT(30) DEF CreditInv
<1>15. PoolInv' /\ PoolStep
  BY <1>3, PoolAlone, ZenonT(30) DEF CreditInv
<1>16. NftRecordsInv' /\ NftRecordsStep
  BY <1>4, RecordsAlone, ZenonT(30) DEF CreditInv
<1> QED BY <1>3, <1>4, <1>13, <1>14, <1>15, <1>16, SwitchKept, ZenonT(30)

\* The pool's own operations beside the manager's; a gift is cash that the books do not see.
LEMMA PoolSideKeeps ==
    ASSUME CreditInv, PoolSideNext
    PROVE  CreditKept
<1>1. UNCHANGED <<lm_state, lm_config, nft_vars>>
  BY ZenonT(30) DEF PoolSideNext
<1>2. UNCHANGED <<terms, nft_admin, nft_records, ledger>>
  BY <1>1, ZenonT(30) DEF lm_config, nft_vars, nft_config
<1>3. TermsInv' /\ nft_admin' \in NftAccounts
  BY <1>2, ZenonT(30) DEF CreditInv, TermsInv, TermsCoherent
<1>4. NftRecordsInv' /\ NftRecordsStep
  BY <1>2, RecordsAlone, ZenonT(30) DEF CreditInv
<1>5. PoolInv /\ donated \in Nat /\ receivable \in Int
  BY Typed, ZenonT(30) DEF CreditInv
<1>6. PoolInv' /\ PoolStep /\ donated' \in Nat /\ lent_out' = lent_out
  <2>1. CASE ProviderNext /\ donated' = donated
    <3>1. PoolInv' /\ PoolStep
      BY <1>5, <2>1, ProvidersKeep, ZenonT(30)
    <3>2. receivable' = receivable
      BY <1>5, <2>1, ProvidersBalance, ZenonT(30)
    <3> QED BY <1>5, <2>1, <3>1, <3>2, ZenonT(30) DEF lent_out
  <2>2. ASSUME NEW amount \in Amounts, token_transfer(amount), donated' = donated + amount
        PROVE  PoolInv' /\ PoolStep /\ donated' \in Nat /\ lent_out' = lent_out
    <3>1. amount \in Nat
      BY <2>2, PoolAssumption DEF token_transfer
    <3>2. settle(amount, 0, 0)
          /\ UNCHANGED <<pool_config, positions, pool_outstanding, blocked, ledger>>
      BY <2>2, ZenonT(30) DEF token_transfer, other_than_books
    <3>3. PoolInv' /\ PoolStep /\ receivable' = receivable + 0 - 0 - amount
      BY <1>5, <3>1, <3>2, Settled, ZenonT(30)
    <3> QED BY <1>5, <2>2, <3>1, <3>3 DEF lent_out
  <2> QED BY <2>1, <2>2, ZenonT(30) DEF PoolSideNext
<1>7. LoansInv' /\ LendingStep
  BY <1>1, <1>2, <1>6, Typed, LoansStay
<1> QED BY <1>3, <1>4, <1>6, <1>7, ZenonT(30) DEF CreditKept, CreditInv

\* The switches of the three contracts.
LEMMA PauseKeeps ==
    ASSUME CreditInv, PauseNext
    PROVE  CreditKept
<1>1. CASE \/ \E flag \in BOOLEAN : lm_set_paused(flag)
           \/ \E fns \in StopSets : lm_set_circuit_breaker(fns)
  <2>1. UNCHANGED <<terms, other_than_lm_config>>
    BY <1>1, ZenonT(30) DEF lm_set_paused, lm_set_circuit_breaker
  <2>2. UNCHANGED <<lm_state, donated, pool_vars, nft_vars>>
    BY <2>1, ZenonT(30) DEF other_than_lm_config
  <2>3. UNCHANGED <<ledger, nft_admin, nft_records, total_managed_assets, pool_balance>>
    BY <2>2, ZenonT(30) DEF pool_vars, nft_vars, nft_config, books
  <2>4. TermsInv' /\ nft_admin' \in NftAccounts
    BY <2>1, <2>3, ZenonT(30) DEF CreditInv, TermsInv, TermsCoherent
  <2>5. PoolInv' /\ PoolStep
    BY <2>2, PoolAlone, ZenonT(30) DEF CreditInv
  <2>6. NftRecordsInv' /\ NftRecordsStep
    BY <2>3, RecordsAlone, ZenonT(30) DEF CreditInv
  <2> QED BY <2>2, <2>3, <2>4, <2>5, <2>6, SwitchKept, ZenonT(30)
<1>2. ASSUME NEW flag \in BOOLEAN, pool_set_paused(flag),
             UNCHANGED <<lm_state, lm_config, donated, nft_vars>>
      PROVE  CreditKept
  <2>1. PoolInv' /\ PoolStep
    BY <1>2, PoolAdminKeeps, ZenonT(30) DEF CreditInv, PoolAdminNext
  <2>2. UNCHANGED <<terms, ledger, nft_admin, nft_records, total_managed_assets, pool_balance>>
    BY <1>2, ZenonT(30) DEF pool_set_paused, other_than_config, books, lm_config, nft_vars, nft_config
  <2>3. TermsInv' /\ nft_admin' \in NftAccounts
    BY <2>2, ZenonT(30) DEF CreditInv, TermsInv, TermsCoherent
  <2>4. NftRecordsInv' /\ NftRecordsStep
    BY <2>2, RecordsAlone, ZenonT(30) DEF CreditInv
  <2> QED BY <1>2, <2>1, <2>2, <2>3, <2>4, SwitchKept, ZenonT(30)
<1>3. ASSUME NEW flag \in BOOLEAN, nft_set_paused(flag),
             UNCHANGED <<lm_state, lm_config, donated, pool_vars>>
      PROVE  CreditKept
  <2>1. UNCHANGED <<terms, ledger, nft_admin, nft_records, total_managed_assets, pool_balance>>
    BY <1>3, ZenonT(30) DEF nft_set_paused, pool_vars, books, lm_config
  <2>2. TermsInv' /\ nft_admin' \in NftAccounts
    BY <2>1, ZenonT(30) DEF CreditInv, TermsInv, TermsCoherent
  <2>3. PoolInv' /\ PoolStep
    BY <1>3, PoolAlone, ZenonT(30) DEF CreditInv
  <2>4. NftRecordsInv' /\ NftRecordsStep
    BY <2>1, RecordsAlone, ZenonT(30) DEF CreditInv
  <2> QED BY <1>3, <2>1, <2>2, <2>3, <2>4, SwitchKept, ZenonT(30)
<1> QED BY <1>1, <1>2, <1>3, ZenonT(30) DEF PauseNext

\* The NFT's admin beside the manager: the same operations the NFT has on its own.
LEMMA NftSideKeeps ==
    ASSUME CreditInv, NftSideNext
    PROVE  CreditKept
<1>1. UNCHANGED <<lm_state, lm_config, donated, pool_vars>>
  BY ZenonT(30) DEF NftSideNext
<1>2. UNCHANGED <<terms, ledger, total_managed_assets, pool_balance>>
  BY <1>1, ZenonT(30) DEF pool_vars, books, lm_config
<1>3. nft_admin \in NftAccounts /\ Manager \in NftAccounts /\ ledger \in Nat
  BY ManagerAssumption, ZenonT(30) DEF CreditInv, PoolInv, PositionsInv
<1>4. NftNext
  <2>1. \/ \E u \in Users : seize_collateral(nft_admin, u) \/ burn(nft_admin, u)
        \/ \E u \in Users, s \in MintScores : mint(nft_admin, u, s)
        \/ \E u \in Users : approve_remint(u) \/ \E s \in MintScores : admin_remint(u, s)
        \/ revoke_minter(Manager) \/ authorize_minter(Manager)
    BY ZenonT(30) DEF NftSideNext
  <2>2. CASE \/ \E u \in Users : seize_collateral(nft_admin, u) \/ burn(nft_admin, u)
             \/ \E u \in Users, s \in MintScores : mint(nft_admin, u, s)
    BY <1>3, <2>2, ZenonT(30) DEF NftNext, NftUserNext
  <2>3. CASE \/ \E u \in Users : approve_remint(u) \/ \E s \in MintScores : admin_remint(u, s)
             \/ revoke_minter(Manager) \/ authorize_minter(Manager)
    BY <1>3, <2>3, ZenonT(30) DEF NftNext, NftAdminNext
  <2> QED BY <2>1, <2>2, <2>3, ZenonT(30)
<1>5. NftRecordsInv' /\ NftRecordsStep
  BY <1>3, <1>4, NftRecordsKept, ZenonT(30) DEF CreditInv
<1>6. nft_admin' = nft_admin
  BY ZenonT(30) DEF NftSideNext, seize_collateral, burn, approve_remint, mint, admin_remint, revoke_minter,
         authorize_minter, nft_config
<1>7. TermsInv' /\ nft_admin' \in NftAccounts
  BY <1>2, <1>3, <1>6, ZenonT(30) DEF CreditInv, TermsInv, TermsCoherent
<1>8. PoolInv' /\ PoolStep
  BY <1>1, PoolAlone, ZenonT(30) DEF CreditInv
<1> QED BY <1>1, <1>2, <1>5, <1>7, <1>8, SwitchKept, ZenonT(30)

\* The ledger closes: what is stored stays, and is accrued no later than now.
LEMMA ClockKeeps ==
    ASSUME CreditInv, ledger_closes
    PROVE  CreditKept
<1>1. /\ UNCHANGED <<lm_state, terms, donated, positions, books, nft_admin, nft_records,
                     pool_config, pool_outstanding>>
      /\ ledger' = ledger + 1
  BY ZenonT(30) DEF ledger_closes, ledger_advances, lm_config, nft_config
<1>2. ledger' \in Nat \ {0} /\ ledger <= ledger' /\ donated' \in Nat
  BY <1>1, Typed
<1>3. ConfigTyped'
  BY <1>1, ZenonT(30) DEF CreditInv, PoolInv, ConfigTyped, pool_config
<1>4. PoolInv' /\ PoolStep
  BY <1>1, <1>2, <1>3, BooksAlone, ZenonT(30) DEF CreditInv, PoolInv
<1>5. lent_out' = lent_out
  BY <1>1, ZenonT(30) DEF lent_out, receivable, books
<1>6. LoansInv' /\ LendingStep
  BY <1>1, <1>2, <1>5, LoansStay, ZenonT(30)
<1>7. TermsInv' /\ nft_admin' \in NftAccounts
  BY <1>1, ZenonT(30) DEF CreditInv, TermsInv, TermsCoherent
<1>8. NftRecordsInv' /\ NftRecordsStep
  BY <1>1, RecordsAlone, ZenonT(30) DEF CreditInv
<1> QED BY <1>4, <1>6, <1>7, <1>8, ZenonT(30) DEF CreditKept, CreditInv

-----------------------------------------------------------------------------
(* All steps, and the theorems.                                                 *)

\* Every operation on a loan.
LEMMA LoansKeep ==
    ASSUME CreditInv, LoanNext
    PROVE  CreditKept
<1>1. ASSUME NEW u \in Users, NEW amount \in LoanAmounts, NEW quote \in Quotes,
             loan_counter < MAX_LOANS /\ request_loan(u, amount, quote)
      PROVE  CreditKept
  BY <1>1, RequestKeeps, ZenonT(30)
<1>2. ASSUME NEW id \in LoanIds, approve_loan(id)
      PROVE  CreditKept
  BY <1>2, ApprovalKeeps, ZenonT(30)
<1>3. ASSUME NEW id \in LoanIds, NEW amount \in 1..MAX_ASSETS, repay(id, amount)
      PROVE  CreditKept
  <2>1. amount \in Nat
    BY PoolAssumption
  <2> QED BY <1>3, <2>1, RepaymentKeeps, ZenonT(30)
<1>4. ASSUME NEW id \in LoanIds, NEW amount \in Collaterals, deposit_collateral(id, amount)
      PROVE  CreditKept
  BY <1>4, CollateralKeeps, ZenonT(30)
<1>5. ASSUME NEW id \in LoanIds, NEW price \in Prices, liquidate(id, price)
      PROVE  CreditKept
  BY <1>5, LiquidationKeeps, ZenonT(30)
<1>6. ASSUME NEW id \in LoanIds, release_collateral(id) \/ cancel_loan(id) \/ reject_loan(id)
      PROVE  CreditKept
  BY <1>6, ReleaseKeeps, ClosingKeeps, ZenonT(30)
<1>7. ASSUME NEW id \in LoanIds, purge_loan(id)
      PROVE  CreditKept
  BY <1>7, PurgeKeeps, ZenonT(30)
<1>8. ASSUME NEW id \in LoanIds, NEW amount \in LoanAmounts, NEW term \in NewTerms, NEW quote \in Quotes,
             refinance_loan(id, amount, term, quote)
      PROVE  CreditKept
  BY <1>8, RefinanceKeeps, ZenonT(30)
<1>9. ASSUME NEW id \in LoanIds, check_default(id)
      PROVE  CreditKept
  BY <1>9, WriteOffKeeps, ZenonT(30)
<1>10. ASSUME NEW id \in LoanIds, NEW extra \in Extras, extend_loan(id, extra)
       PROVE  CreditKept
  BY <1>10, ExtensionKeeps, ZenonT(30)
<1> QED BY <1>1, <1>2, <1>3, <1>4, <1>5, <1>6, <1>7, <1>8, <1>9, <1>10, ZenonT(30) DEF LoanNext

\* Every step.
LEMMA CreditKeeps ==
    ASSUME CreditInv, [SwitchedNext]_credit_vars
    PROVE  CreditInv' /\ [LendingStep /\ PoolStep /\ NftRecordsStep]_credit_vars
<1>1. CASE SwitchedNext
  <2>1. CreditKept
    BY <1>1, LoansKeep, PoolSideKeeps, ClockKeeps, SettingKeeps, PauseKeeps, NftSideKeeps, ZenonT(30)
       DEF SwitchedNext, ConfiguredNext, CreditNext, SettingNext
  <2> QED BY <2>1, ZenonT(30) DEF CreditKept
<1>2. CASE UNCHANGED credit_vars
  <2>1. UNCHANGED <<lm_state, terms, donated, pool_vars, nft_vars>>
    BY <1>2, ZenonT(30) DEF credit_vars, lm_config
  <2>2. UNCHANGED <<ledger, nft_admin, nft_records, total_managed_assets, pool_balance>>
    BY <2>1, ZenonT(30) DEF pool_vars, nft_vars, nft_config, books
  <2>3. TermsInv' /\ nft_admin' \in NftAccounts
    BY <2>1, <2>2, ZenonT(30) DEF CreditInv, TermsInv, TermsCoherent
  <2>4. PoolInv' /\ PoolStep /\ NftRecordsInv' /\ NftRecordsStep
    BY <2>1, <2>2, PoolAlone, RecordsAlone, ZenonT(30) DEF CreditInv
  <2>5. CreditKept
    BY <2>1, <2>2, <2>3, <2>4, SwitchKept, ZenonT(30)
  <2> QED BY <1>2, <2>5, ZenonT(30) DEF CreditKept
<1> QED BY <1>1, <1>2, ZenonT(30)

\* The deployment.
LEMMA DeployedSound ==
    ASSUME DeployedInit
    PROVE  CreditInv
<1>1. PoolInv
  <2>1. ConfigTyped
    BY PoolAssumption, ZenonT(30) DEF DeployedInit, ConfigTyped
  <2> QED BY <2>1, EmptyPool, ZenonT(30) DEF DeployedInit, LedgerInit
<1>2. NftRecordsInv
  <2>1. score \in [Users -> NoNft..MAX_SCORE]
    BY ManagerAssumption, ZenonT(30) DEF DeployedInit
  <2>2. /\ seized = [u \in Users |-> FALSE] /\ burned = [u \in Users |-> FALSE]
        /\ remint_approved = [u \in Users |-> FALSE]
        /\ default_count = [u \in Users |-> 0] /\ transfer_after = [u \in Users |-> 0]
    BY ZenonT(30) DEF DeployedInit
  <2>3. NftRecordsTyped
    BY <2>1, <2>2, ZenonT(30) DEF NftRecordsTyped
  <2>4. MarksGoWithTheToken /\ CountsHaveHolders
    BY <2>2 DEF MarksGoWithTheToken, CountsHaveHolders
  <2> QED BY <2>3, <2>4, ZenonT(30) DEF NftRecordsInv
<1>3. TermsInv
  <2>1. terms = Terms
    BY ZenonT(30) DEF DeployedInit, ManagerInit
  <2> QED BY <2>1, ManagerAssumption, ZenonT(30) DEF TermsInv, TermsCoherent
<1>4. nft_admin \in NftAccounts
  BY ZenonT(30) DEF DeployedInit
<1>5. /\ loans = [id \in LoanIds |-> no_loan] /\ loan_counter = 0 /\ loan_count = [u \in Users |-> 0]
      /\ total_outstanding = 0 /\ custody = 0 /\ donated = 0 /\ ledger = 1
      /\ total_managed_assets = 0 /\ pool_balance = 0
  BY ZenonT(30) DEF DeployedInit, ManagerInit, LedgerInit
<1>6. IsFiniteSet(LoanIds) /\ LoanIds \subseteq Nat
  <2>1. MAX_LOANS \in Int
    BY ManagerAssumption
  <2>2. IsFiniteSet(1..MAX_LOANS)
    BY <2>1, FS_Interval
  <2> QED BY <2>1, <2>2 DEF LoanIds
<1>7. Books(loans, LoanIds, Users, ledger, loan_counter, loan_count, total_outstanding, custody, 0)
  <2>1. Books([id \in LoanIds |-> no_loan], LoanIds, Users, 1, 0, [u \in Users |-> 0], 0, 0, 0)
    BY <1>6, NoLoan, Starting, ZenonT(30)
  <2> QED BY <1>5, <2>1, ZenonT(30)
<1>8. lent_out = 0
  BY <1>5 DEF lent_out, receivable
<1>9. loan_counter <= MAX_LOANS /\ donated \in Nat
  BY <1>5, ManagerAssumption
<1>10. LoansInv
  BY <1>7, <1>8, <1>9, ZenonT(30) DEF LoansInv
<1> QED BY <1>1, <1>2, <1>3, <1>4, <1>10, ZenonT(30) DEF CreditInv

\* The inductive invariant of lending: the counters and balances that the manager, the pool
\* and the token keep by increments are those of the loans that are stored, whatever the
\* borrowers, providers, admins and liquidators call and in which order.
THEOREM LendingInvariant == LendingSpec => []CreditInv
<1>1. DeployedInit => CreditInv
  BY DeployedSound, ZenonT(30)
<1>2. CreditInv /\ [SwitchedNext]_credit_vars => CreditInv'
  BY CreditKeeps, ZenonT(30)
<1> QED BY <1>1, <1>2, PTL DEF LendingSpec

\* The invariant, read as the statements on the books.
LEMMA InvAgrees ==
    ASSUME CreditInv
    PROVE  LoanBooks
<1>1. LoanTypeOK
  <2>1. custody \in Nat /\ total_outstanding \in Nat
    BY Typed, ZenonT(30)
  <2>2. loan_counter \in 0..MAX_LOANS /\ loan_count \in [Users -> Nat]
    <3>1. loan_counter \in Nat /\ loan_counter <= MAX_LOANS /\ MAX_LOANS \in Nat
      BY Typed, ManagerAssumption, ZenonT(30)
    <3>2. loan_count \in [Users -> Nat]
      BY Booked, ZenonT(30) DEF Books, Counted
    <3> QED BY <3>1, <3>2
  <2>3. ASSUME NEW id \in LoanIds
        PROVE  /\ loans[id].status \in {"None", "Pending", "Approved", "Repaid", "Defaulted",
                                        "Liquidated", "Cancelled", "Rejected"}
               /\ loans[id].borrower \in Users
               /\ loans[id].principal_paid \in 0..loans[id].amount
               /\ loans[id].collateral_amount \in Nat
               /\ loans[id].accrued_interest \in Nat /\ loans[id].accrued_late_fee \in Nat
               /\ loans[id].interest_residual \in 0..PRECISION - 1 /\ loans[id].income_paid \in Nat
               /\ loans[id].last_interest_ledger <= ledger
               /\ loans[id].extension_count \in 0..MAX_EXTENSIONS
    <3>1. Sound(loans[id], ledger) /\ loans[id].borrower \in Users
      BY StoredLoan, ZenonT(30)
    <3> QED BY <3>1, DebtAssumption DEF Sound, Statuses
  <2> QED BY <2>1, <2>2, <2>3, ZenonT(30) DEF LoanTypeOK
<1>2. BooksBalance
  <2>1. receivable + donated = principals(loans, LoanIds) /\ principals(loans, LoanIds) \in Nat
    BY Booked, Entry, ZenonT(30) DEF Books, lent_out
  <2>2. total_managed_assets \in Int /\ pool_balance \in Int /\ donated \in Nat
    BY Typed DEF CreditInv, PoolInv, BooksInv
  <2>3. total_managed_assets + donated = pool_balance + principals(loans, LoanIds)
    BY <2>1, <2>2 DEF receivable
  <2> QED BY <2>3, ZenonT(30) DEF BooksBalance, principals
<1>3. OutstandingAgrees
  BY Booked, ZenonT(30) DEF Books, OutstandingAgrees, amounts
<1>4. LoanCountAgrees
  BY Booked, ZenonT(30) DEF Books, Counted, LoanCountAgrees, slots
<1>5. CustodyMatches
  <2>1. custody = SumFunctionOnSet([id \in LoanIds |-> loans[id].collateral_amount], LoanIds)
    BY Booked, ZenonT(30) DEF Books, collaterals
  <2>2. \A id \in LoanIds : loans[id].collateral_amount > 0 => id \in Approved
    BY Booked, Entry, ZenonT(30) DEF Kept, Approved
  <2> QED BY <2>1, <2>2, ZenonT(30) DEF CustodyMatches
<1>6. LossFitsBooks
  <2> SUFFICES ASSUME donated = 0, NEW id \in Approved
               PROVE  remaining_principal(loans[id]) <= total_managed_assets
    BY ZenonT(30) DEF LossFitsBooks
  <2>1. id \in LoanIds /\ principal_out(loans[id]) = remaining_principal(loans[id])
    BY ZenonT(30) DEF Approved, principal_out
  <2>2. remaining_principal(loans[id]) <= lent_out /\ remaining_principal(loans[id]) \in Nat
    <3>1. \A j \in LoanIds : principal_out(loans[j]) <= lent_out
      BY Booked, Entry, ZenonT(30)
    <3>2. remaining_principal(loans[id]) \in Nat
      BY <2>1, StoredLoan, ZenonT(30)
    <3> QED BY <2>1, <3>1, <3>2, ZenonT(30)
  <2>3. total_managed_assets \in Int /\ pool_balance \in Nat
    BY ZenonT(30) DEF CreditInv, PoolInv, BooksInv
  <2> QED BY <2>2, <2>3 DEF lent_out, receivable
<1> QED BY <1>1, <1>2, <1>3, <1>4, <1>5, <1>6, ZenonT(30) DEF LoanBooks

\* The invariant makes the debts such that every payment on them is split fairly.
LEMMA InvSplits ==
    ASSUME CreditInv
    PROVE  PaymentsSplitFairly
<1> SUFFICES ASSUME NEW id \in Approved, NEW amount \in 1..debt(accrued(id))
             PROVE  LET dues == dues_of(accrued(id))
                        payment == proportional_repayment_split(dues, amount)
                    IN  /\ payment[1] + payment[2] + payment[3] = amount
                        /\ \A i \in Buckets :
                              /\ payment[i] <= dues[i]
                              /\ payment[i] * total_due(dues) < amount * dues[i] + total_due(dues)
                              /\ payment[i] * total_due(dues) > amount * dues[i] - total_due(dues)
  BY ZenonT(30) DEF PaymentsSplitFairly
<1> DEFINE due == accrued(id)
           dues == dues_of(due)
           payment == proportional_repayment_split(dues, amount)
<1>1. Sound(due, ledger)
  BY AccruedLoan, ZenonT(30) DEF Approved
<1>2. amount \in 1..debt(due)
  OBVIOUS
<1> HIDE DEF due
<1>3. Fair(dues, amount, payment)
  BY <1>1, <1>2, DebtSplits, ZenonT(30)
<1> HIDE DEF payment, dues
<1>4. /\ payment[1] + payment[2] + payment[3] = amount
      /\ \A i \in Buckets :
            /\ payment[i] <= dues[i]
            /\ payment[i] * total_due(dues) < amount * dues[i] + total_due(dues)
            /\ payment[i] * total_due(dues) > amount * dues[i] - total_due(dues)
  BY <1>3, ZenonT(30) DEF Fair
<1> QED BY <1>4, ZenonT(30) DEF payment, dues, due

\* Every counter and balance agrees with the loans it stands for: the pool's books with its
\* cash and the principal out, TotalOutstanding with the amounts, the count against the limit
\* with the open requests, the token's balance of the manager with the collateral.
THEOREM LoanBooksHold == LendingSpec => []LoanBooks
<1>1. CreditInv => LoanBooks
  BY InvAgrees, ZenonT(30)
<1> QED BY <1>1, LendingInvariant, PTL

\* On every debt that arises a payment is used up, and each of principal, interest and late
\* fee gets its proportional share to less than a unit, and no more than is due
\* (proportional_repayment_split).
THEOREM SplitsAreFair == LendingSpec => []PaymentsSplitFairly
<1>1. CreditInv => PaymentsSplitFairly
  BY InvSplits, ZenonT(30)
<1> QED BY <1>1, LendingInvariant, PTL

\* While one of the three contracts is paused, or the breaker stops the manager, no approved
\* loan moves; and a default marks the borrower's token in the step that writes the loan off
\* (require_not_paused, check_default).
THEOREM PausesHold == LendingSpec => LendingStops
<1>1. CreditInv /\ [SwitchedNext]_credit_vars => [PauseStopsLending /\ DefaultIsMarked]_credit_vars
  BY CreditKeeps, ZenonT(30) DEF LendingStep
<1> QED BY <1>1, LendingInvariant, PTL DEF LendingSpec, LendingStops

\* The setters keep the bounds usable in whatever order they are called (configure).
THEOREM TermsStayCoherent == LendingSpec => []TermsCoherent
<1>1. CreditInv => TermsCoherent
  BY ZenonT(30) DEF CreditInv, TermsInv
<1> QED BY <1>1, LendingInvariant, PTL

\* The pool and the NFT keep their own promises with the real manager as the caller: the
\* price of a share falls by recorded losses only, claims are covered until then, and the
\* defaults of a borrower stay on record.
THEOREM PromisesCompose ==
    LendingSpec =>
        /\ [](AggregatesAgree /\ PricePositive /\ ClaimsCovered)
        /\ [](MarksGoWithTheToken /\ CountsHaveHolders)
        /\ [][SharePriceNeverFalls /\ StoppedPoolHolds /\ DefaultsKept /\ ApprovalFollowsBurn]_credit_vars
<1>1. CreditInv => AggregatesAgree /\ PricePositive /\ ClaimsCovered
  BY InvCoversClaims, ZenonT(30) DEF CreditInv, PoolInv, PositionsInv, BooksInv
<1>2. CreditInv => MarksGoWithTheToken /\ CountsHaveHolders
  BY ZenonT(30) DEF CreditInv, NftRecordsInv
<1>3. CreditInv /\ [SwitchedNext]_credit_vars =>
          [SharePriceNeverFalls /\ StoppedPoolHolds /\ DefaultsKept /\ ApprovalFollowsBurn]_credit_vars
  BY CreditKeeps, ZenonT(30) DEF PoolStep, NftRecordsStep
<1> QED BY <1>1, <1>2, <1>3, LendingInvariant, PTL DEF LendingSpec
=============================================================================
