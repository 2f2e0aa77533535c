------------------------------ MODULE LoanDebt ------------------------------
(***************************************************************************)
(* The part of contracts/loan_manager/src/lib.rs that computes with one    *)
(* loan: how interest and late fees accrue, how a payment is divided over  *)
(* what is due, and what the loan counts for in the books of the three     *)
(* contracts.  income_paid is interest_paid and late_fee_paid together.    *)
(* i128 overflow is out of reach of any amount max_loan_amount admits.     *)
(***************************************************************************)
EXTENDS Integers, FiniteSets

CONSTANTS
    BPS,                         \* 10_000
    DEFAULT_TERM_LEDGERS,        \* the period rates are quoted for
    PRECISION,
    MAX_PENALTY_MULTIPLIER,
    MAX_EXTENSIONS

ASSUME DebtAssumption ==
    /\ BPS \in Nat \ {0} /\ DEFAULT_TERM_LEDGERS \in Nat \ {0} /\ PRECISION \in Nat \ {0}
    /\ MAX_PENALTY_MULTIPLIER \in Nat \ {0} /\ MAX_EXTENSIONS \in Nat

remaining_principal(loan) == loan.amount - loan.principal_paid

debt(loan) == remaining_principal(loan) + loan.accrued_interest + loan.accrued_late_fee

\* Interest is computed in 1/PRECISION of a unit; what does not fill a unit is carried.
accrue_interest(loan, now) ==
    LET total == (remaining_principal(loan) * loan.interest_rate * (now - loan.last_interest_ledger)
                    * PRECISION) \div (BPS * DEFAULT_TERM_LEDGERS)
        carried == loan.interest_residual + (total % PRECISION)
    IN  IF loan.status # "Approved" \/ now <= loan.last_interest_ledger THEN loan
        ELSE IF remaining_principal(loan) = 0 THEN [loan EXCEPT !.last_interest_ledger = now]
        ELSE [loan EXCEPT !.accrued_interest = @ + total \div PRECISION + carried \div PRECISION,
                          !.interest_residual = carried % PRECISION,
                          !.last_interest_ledger = now]

\* The fee is charged on the original amount, up to the room under the debt cap.
accrue_late_fee(loan, now, grace, rate) ==
    LET grace_ends == loan.due_date + grace
        start == IF loan.last_late_fee_ledger > grace_ends THEN loan.last_late_fee_ledger
                 ELSE grace_ends
        fee == (loan.amount * rate * (now - start)) \div (BPS * DEFAULT_TERM_LEDGERS)
        capacity == MAX_PENALTY_MULTIPLIER * loan.amount - debt(loan)
        charged == IF capacity <= 0 THEN 0 ELSE IF fee <= capacity THEN fee ELSE capacity
    IN  IF loan.status # "Approved" \/ now <= start THEN loan
        ELSE IF remaining_principal(loan) = 0 THEN [loan EXCEPT !.last_late_fee_ledger = now]
        ELSE [loan EXCEPT !.accrued_late_fee = @ + charged, !.last_late_fee_ledger = now]

-----------------------------------------------------------------------------
(* The buckets of a payment: 1 principal, 2 interest, 3 late fee.          *)

Buckets == 1..3
total_due(dues) == dues[1] + dues[2] + dues[3]
dues_of(loan) == <<remaining_principal(loan), loan.accrued_interest, loan.accrued_late_fee>>

floor_share(dues, amount, i) == (amount * dues[i]) \div total_due(dues)
remainder(dues, amount, i) == (amount * dues[i]) % total_due(dues)
unallocated(dues, amount) ==
    amount - floor_share(dues, amount, 1) - floor_share(dues, amount, 2) - floor_share(dues, amount, 3)

\* The buckets that can take one unit more.
open_buckets(dues, amount) == {i \in Buckets : dues[i] > floor_share(dues, amount, i)}

\* The order in which the loop selects them: the largest remainder, then the first.
served_before(dues, amount, i, j) ==
    \/ remainder(dues, amount, i) > remainder(dues, amount, j)
    \/ remainder(dues, amount, i) = remainder(dues, amount, j) /\ i < j

\* MUTANT of proportional_repayment_split: the units left over all go to the principal.
split_rest_to_principal(dues, amount) ==
    [i \in Buckets |-> floor_share(dues, amount, i)
                       + (IF i = 1 THEN unallocated(dues, amount) ELSE 0)]

proportional_repayment_split(dues, amount) ==
    LET open == open_buckets(dues, amount)
        selected(i) == /\ i \in open
                       /\ Cardinality({j \in open : served_before(dues, amount, j, i)})
                            < unallocated(dues, amount)
    IN  [i \in Buckets |-> floor_share(dues, amount, i) + (IF selected(i) THEN 1 ELSE 0)]

apply_debt_recovery(loan, amount) ==
    LET payment == proportional_repayment_split(dues_of(loan), amount)
    IN  IF amount <= 0 THEN loan
        ELSE [loan EXCEPT !.principal_paid = @ + payment[1],
                          !.accrued_interest = @ - payment[2],
                          !.accrued_late_fee = @ - payment[3],
                          !.income_paid = @ + payment[2] + payment[3]]

-----------------------------------------------------------------------------
(* A loan in the counters and balances.                                    *)

\* What a loan counts for in the pool's books, in TotalOutstanding and against the limit on
\* the loans of u.
principal_out(loan) == IF loan.status = "Approved" THEN remaining_principal(loan) ELSE 0
amount_out(loan) == IF loan.status = "Approved" THEN loan.amount ELSE 0
takes_slot(loan, u) ==
    loan.borrower = u /\ loan.status \in {"Pending", "Approved", "Cancelled", "Rejected"}

count_down(counts, u) == [counts EXCEPT ![u] = IF @ = 0 THEN 0 ELSE @ - 1]
=============================================================================
