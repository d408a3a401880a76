SPECIFICATION HistorySpec
CONSTANTS
  Account = {a1, a2, a3}
  Request = {r1}
  NoAccount = NoAccount
  TicksPerSecond = 1
  RetryAfters = {0, 1}
  DefaultCooldown = 2
  CursorModulus = 6
PROPERTIES FailoverMovesOn
