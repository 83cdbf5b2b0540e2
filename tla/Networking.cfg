SPECIFICATION Spec
CONSTANTS
  Request = {1, 2}
  Url = {aged, empty, file}
  NoBody = {empty}
  NoStore = {}
  MaxAge = {aged}
  Local = {file}
  Sender = {"main", "js", "callback"}
  None = None
  MaxChanges = 2
INVARIANTS AbortSilences WorkerAwake
PROPERTY Answered
CHECK_DEADLOCK FALSE
