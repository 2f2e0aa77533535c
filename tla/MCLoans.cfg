SPECIFICATION LoansSpec
CONSTANTS
  q2 = q2
  q1 = q1
  HORIZON = 5
  Accounts = {adm}
  NoAccount = NoAccount
  Providers = {p1}
  VIRTUAL_OFFSET = 1
  DEFAULT_WITHDRAWAL_COOLDOWN = 0
  MAX_WITHDRAWAL_COOLDOWN_LEDGERS = 1
  Amounts = {4}
  Redemptions = {4}
  MinOuts = {0}
  Cooldowns = {}
  PoolSizes = {}
  Deltas = {}
  BlockedSets = {}
  MAX_ASSETS = 6
  MAX_YIELD = 3
  NftAccounts = {adm, mgr}
  NoNftAccount = NoNftAccount
  Users = {u1}
  MIN_CREDIT_SCORE = 1
  MAX_SCORE = 3
  STROOPS_PER_SCORE_POINT = 2
  DEFAULT_BURN_THRESHOLD = 2
  MAX_ALLOWED_BURN_THRESHOLD = 2
  MAX_AUTHORIZED_MINTERS = 2
  TRANSFER_COOLDOWN_LEDGERS = 1
  MintScores = {}
  Penalties = {}
  ScoreDeltas <- MCScoreDeltas
  Repayments = {}
  Thresholds = {}
  MinRepayments = {}
  MAX_DEFAULTS = 2
  BPS = 4
  DEFAULT_TERM_LEDGERS = 2
  PRECISION = 2
  MAX_PENALTY_MULTIPLIER = 2
  Manager = mgr
  MAX_LOANS = 1
  Terms <- MCTerms
  MIN_DEFAULT_WINDOW = 1
  MAX_LATE_FEE_CAP_BPS = 4
  MIN_COLLATERAL_RATIO_BPS = 4
  MAX_LIQUIDATION_BONUS_BPS = 2
  LATE_REPAYMENT_SCORE_PENALTY = 1
  DEFAULT_SCORE_PENALTY_POINTS = 1
  MAX_EXTENSIONS = 1
  EXTENSION_FEE_BPS = 2
  PRICE_SCALE = 2
  LoanAmounts = {2, 3}
  Collaterals = {3}
  Quotes = {0}
  Prices = {0, 1}
  NewTerms = {1}
  Extras = {1}
  Settings <- MCSettings
  StopSets = {}
  InitialScores = {2}
  MAX_COLLATERAL = 3
  key = key
  h1 = h1
  h2 = h2
  NoKey = NoKey
INVARIANTS
  LoanBooksAgree
  PaymentsSplitFairly
PROPERTY
  CreditHistoryStays
SYMMETRY
  HolderSymmetry
CHECK_DEADLOCK FALSE
