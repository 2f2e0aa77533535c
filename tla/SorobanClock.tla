---- MODULE SorobanClock ----
(* env.ledger().sequence(), which lending_pool, remittance_nft and loan_manager *)
(* all read: one number for the three contracts, and it only grows (external).  *)
EXTENDS Integers

CONSTANT HORIZON        \* bound: last ledger explored

ASSUME LedgerAssumption == HORIZON \in Nat

VARIABLE ledger

\* Number 0 is left to stand for an absent timestamp.
LedgerInit == ledger = 1

ledger_advances == ledger < HORIZON /\ ledger' = ledger + 1
====
