SPECIFICATION Spec
CONSTANTS
  Client = {c1}
  Notifier = notifier
  NoThread = noThread
  Event = {e1}
  MaxListeners = 2
  MaxRemoves = 1
  MaxEmits = 1
INVARIANT ErasedNotListed
\* A center that nobody calls is at rest.
CHECK_DEADLOCK FALSE
