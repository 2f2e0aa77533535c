SPECIFICATION ContractsSpec
CONSTANTS
  a1 = a1
  a2 = a2
  k1 = k1
  k2 = k2
  VaultCode = VaultCode
  mint = mint
  Agents = {a1, a2}
  Endowment <- MCEndowment
  BPS = 4
  MAX_I128 = 63
  BATCH_MAX = 3
  Amounts <- MCAmounts
  Haircuts = {0, 2, 3, 4, 5}
  Floors <- MCFloors
  Batches <- MCBatches
  MAX_TIME = 1
  MAX_VERSION = 2
  Registrants = {a1, a2}
  NoKyc = NoKyc
  KycRefs = {NoKyc, kyc}
  BondAmounts <- MCBondAmounts
  Expiries = {0, 1}
  Reputations = {0, 1}
  MAX_BOND = 3
  MAX_REGISTRY_VERSION = 2
  Accounts = {k1, k2}
  NoAccount = NoAccount
  MIN_TIMELOCK_SECONDS = 1
  PROPOSAL_TTL_SECONDS = 2
  REPROPOSAL_COOLDOWN_SECONDS = 1
  MAX_SIGNERS = 2
  MAX_U64 = 20
  SignerLists <- MCSignerLists
  Thresholds = {1}
  Delays = {1}
  HORIZON = 2
  MAX_PROPOSALS = 1
  UpgradeSignerLists <- MCUpgradeSignerLists
  UpgradeThresholds = {0, 2, 3}
  Contracts = {VaultCode}
  Target = TargetCode
  Self = GovernanceCode
  Hashes = {1}
  UPGRADE_TIMELOCK_SECONDS = 1
  UPGRADE_TTL_SECONDS = 2
  MAX_UPGRADE_SIGNERS = 2
  MAX_UPGRADES = 2
INVARIANTS
  Solvency
  CollateralIsOwners
  StorageSound
PROPERTIES
  SuspensionIsFinal
  CodeChangesByQuorum
  LiftedByOverride
