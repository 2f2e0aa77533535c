SPECIFICATION ServicesSpec
CONSTANTS
  Handlers = {1, 2}
  Asks <- MCAsks
  TX_TIMEOUT = 1
  PENDING_TTL = 2
  ANALYTICS_TTL = 3
  MAX_CLOCK = 1
  MAX_SEQUENCE = 1
  Callers <- MCCallers
  Asked <- MCAsked
  LIMIT = 1
  MAX_REQUESTS = 1
  Attempts = {1, 2, 3}
  KeyOf <- MCKeyOf
  NoKey = "none"
  THRESHOLD = 2
  FAULTS = 2
  Desks = {1, 2}
  Agents = {"ana", "ben"}
  Admins = {"admin"}
  Pairs <- MCPairs
  MAX_TRANSFERS = 1
  MAX_AMOUNT = 2
  DEFAULT_DAILY_LIMIT = 2
  DEFAULT_WEEKLY_LIMIT = 3
  Limits <- MCLimits
  Clerks = {1, 2}
  Remitters = {"ana"}
  MAX_REMITTANCES = 2
  Sums = {1, 4}
  REPORTING_THRESHOLD = 5
  DAILY_TX_LIMIT = 2
  MAX_SCREENINGS = 1
  Processes = {1}
  Clients = {1, 2}
  MAX_NONCES = 1
  MAX_PAIRS = 2
  MAX_ROLES = 1
  FreighterAccounts = {"ana", "ben"}
  MAX_SWITCHES = 2
  Accounts = {"ana", "ben"}
  ADAPTER = "freighter"
  MAX_RETRIES = 2
  MAX_RUNS = 3
  MAX_LOGINS = 3
INVARIANTS
  HandedOutAsAsked
  OkMeansSettled
  ConfirmedNeedsTwo
  
  
  
  SessionsHold
  NoOptimisticResidue
  ShownAndSentOnce
  EarlierWorkKept
PROPERTIES
  OneAtATime
  
CHECK_DEADLOCK FALSE
