CONSTANTS
  Flow = {f1, f2}
  ApiKey = {k1}
  Caller = {h1, h2}
  Transport = {"web", "local"}
  NoFlow = NoFlow
  NoKey = NoKey
SPECIFICATION OAuthSpec
INVARIANTS AnswerReachesFlow
CHECK_DEADLOCK FALSE
