\* Two accounts and two concurrent requests: every interleaving of two
\* failover loops with each other, the clock and the console.
SPECIFICATION HistorySpec
CONSTANTS
  Account = {a1, a2}
  Request = {r1, r2}
  NoAccount = NoAccount
  TicksPerSecond = 1
  RetryAfters = {0, 1}
  DefaultCooldown = 2
  CursorModulus = 2
SYMMETRY Symmetry
INVARIANTS HistoryTypeOK RotationBound BlameIsReal LoneFailoverVisitsAll
PROPERTIES NobodyOverlooked
