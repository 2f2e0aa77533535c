SPECIFICATION Spec
CONSTANTS
  Runs <- MCRuns
  Book <- MCBook
  TERM_LEDGERS = 1
  BATCH_SIZE = 1
  CONCURRENCY = 2
  MAX_LOANS_PER_RUN = 2
  Named <- MCNamed
  MAX_LEDGER = 2
  MAX_MISHAPS = 1
  Borrowers = {"ana"}
  ChainScores = {450}
  MAX_EVENTS = 2
  MAX_FAULTS = 1
  STALE_ATTEMPTS = 2
  MAX_ROWS = 2
  THRESHOLD = 50
  Schedules <- MCSchedules
PROPERTIES
  OverdueIsMarked
  ReleasesOwnLock
  
  
CHECK_DEADLOCK FALSE
