CONSTANTS
  Client = {c1, c2, c3}
  FailLimit = 3
  FailWindow = 2
  LockoutTime = 3
  MaxNow = 6
  Flow = {f1, f2}
  ApiKey = {k1}
  Caller = {h1, h2}
  Transport = {"web", "local"}
  NoFlow = NoFlow
  NoKey = NoKey
  MaxEvent = 2
  MaxLines = 4
  RefuseAts = {1, 2, 5}
  Message <- SomeMessages
  TokenLimit <- SomeLimits
  DefaultBudget = 2
  MaximumBudget = 3
  MaxMessages = 3
  Model <- SomeModels
  Entry <- SomeEntries
  Base <- BaseName
  StartsWith <- SomeStarts
  FirstExcludes = {"gpt-", "claude-"}
SPECIFICATION Spec
INVARIANTS FrontDoorTypeOK FramingIsBlockwise ResultsNameTheirCall SaveKeepsExposure
PROPERTIES FlowSettles LockoutHolds
CHECK_DEADLOCK FALSE
