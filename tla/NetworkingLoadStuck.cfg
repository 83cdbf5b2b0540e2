SPECIFICATION Spec
CONSTANTS
  Request = {1, 2}
  Url = {aged, other}
  NoBody = {}
  NoStore = {}
  MaxAge = {aged}
  Local = {}
  Sender = {"main", "js", "callback"}
  None = None
  MaxChanges = 2
PROPERTY ChangedSourceLoads
CHECK_DEADLOCK FALSE
