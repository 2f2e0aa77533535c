SPECIFICATION MigrationsSpec
INVARIANT LoanEventsServed
CHECK_DEADLOCK FALSE
