SPECIFICATION KeyboardSpec
CONSTANTS
  Display = {"x11", "wpe"}
  Client = {c1, c2}
  Key = {kText, kMove}
  TextKey = {kText}
  NoClient = NoClient
  NoKey = NoKey
  MaxCalls = 3
  MaxKeys = 3
INVARIANTS StateMatchesWindow
PROPERTY ExitReturns
CHECK_DEADLOCK FALSE
