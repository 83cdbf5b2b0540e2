SPECIFICATION KeyboardSpec
CONSTANTS
  Display = {"x11", "wpe"}
  Client = {c1, c2}
  Key = {kText, kMove}
  TextKey = {kText}
  NoClient = NoClient
  NoKey = NoKey
  MaxCalls = 2
  MaxKeys = 1
PROPERTY ExitNeverBlocks
CHECK_DEADLOCK FALSE
