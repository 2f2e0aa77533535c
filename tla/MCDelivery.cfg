SPECIFICATION Spec
CONSTANTS
  Hooks = {"h1"}
  HookEvents = {"e1", "huge"}
  Oversized = {"huge"}
  Ticks = {"t1", "t2"}
  HOOK_FAULTS = 1
  Instances = {"i1", "i2"}
  Streams = {"a1", "a2", "a3", "op"}
  StreamOf <- MCStreamOf
  AddressOf <- MCAddressOf
  MAX_CONNECTIONS_PER_USER = 1
  REPLAY_LIMIT = 1
  NoteTypes = {"loan_approved"}
  OpenLoans = {1}
  Preferences <- MCPreferences
  MAX_NOTES = 2
  RETENTION_DAYS = 1
  READ_RETENTION_DAYS = 0
  LAST_DAY = 2
  MAX_RECONNECT_ATTEMPTS = 3
  MAX_CHANGES = 2
  MAX_ENDS = 2
INVARIANTS
  DeliveriesAccountedFor
  
PROPERTIES
  NotificationsSettle
  
  ConnectingEnds
CHECK_DEADLOCK FALSE
