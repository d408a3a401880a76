SPECIFICATION HistorySpec
CONSTANTS
  Account = {a1, a2}
  Request = {r1}
  NoAccount = NoAccount
  TicksPerSecond = 1
  RetryAfters = {1, 3}
  DefaultCooldown = 2
  CursorModulus = 2
PROPERTIES EarliestRecoveryReported
