\* Three slots and five lines: the ring wraps.
SPECIFICATION Spec
CONSTANTS
  Capacity = 3
  Line = {x}
  NoEntry = NoEntry
  Poll = {p, q}
  MaxLines = 5
  MaxBoots = 1
  Account = {a1, a2}
  Cred = {c1, c2, c3}
  NoCred = NoCred
  Workers = 1
  Answers <- SomeAnswers
  MaxEdits = 1
INVARIANTS LogTypeOK RingIsTail AfterIsSuffix NoLineSkipped QuotaTypeOK QuotasOnlyForPool
PROPERTIES CursorRecovers ForeignHeals
