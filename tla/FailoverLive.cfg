\* A cooldown takes two ticks, so that requests in flight can start it again
\* after the first.
SPECIFICATION LiveSpec
CONSTANTS
  Account = {a1, a2}
  Kept = {a1}
  Request = {r1, r2}
  NoAccount = NoAccount
  TicksPerSecond = 2
  RetryAfters = {0}
  DefaultCooldown = 1
  CursorModulus = 2
PROPERTIES EveryRequestAnswered CooldownEnds
