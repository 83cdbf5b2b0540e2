SPECIFICATION Spec
CONSTANTS
  Client = {c1, c2}
  Notifier = notifier
  NoThread = noThread
  Event = {e1}
  MaxListeners = 2
  MaxRemoves = 1
  MaxEmits = 2
INVARIANT DeliveryComplete
PROPERTY QueueServed
\* A center that nobody calls is at rest.
CHECK_DEADLOCK FALSE
