SPECIFICATION Spec
CONSTANTS
  k1 = k1
  k2 = k2
  Accounts = {k1, k2}
  NoAccount = NoAccount
  MIN_TIMELOCK_SECONDS = 2
  PROPOSAL_TTL_SECONDS = 4
  REPROPOSAL_COOLDOWN_SECONDS = 1
  MAX_SIGNERS = 2
  MAX_U64 = 20
  SignerLists <- MCSignerLists
  Thresholds = {0, 1, 2, 3}
  Delays = {1, 2, 5}
  HORIZON = 8
  MAX_PROPOSALS = 2
  Nodes = {1, 2}
  Indexers = {1}
  MAX_TURNS = 3
  MAX_RESTARTS = 1
PROPERTIES
  AdminMovesByQuorum
  
  
CHECK_DEADLOCK FALSE
