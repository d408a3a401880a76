\* Two call ids with two argument values each, so that ids are repeated with
\* other arguments; one finish reason of every class.
SPECIFICATION Spec
CONSTANTS
  CallId = {c1, c2}
  NoId = NoId
  Args = {x, y}
  BadArgs = BadArgs
  Text = {"", "t"}
  Usage <- MCUsage
  NoUsage = NoUsage
  NoDetails = NoDetails
  FinishWords = {"", "end_turn", "tool_use", "max_tokens", "content_filter", "other"}
  NoReply = NoReply
  Open = Open
  Failed = Failed
  MaxEvents = 5
SYMMETRY Symmetry
INVARIANTS TypeOK ClosedOnce RoleOnce ChargedAsTold ModesAgree
PROPERTIES StreamKeepsPromise WholeKeepsPromise
CHECK_DEADLOCK FALSE
