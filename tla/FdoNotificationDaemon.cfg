SPECIFICATION Spec
CONSTANTS
  Sender = {p, q}
  App = {p}
  Hints = {{"transient"}, {"resident"}}
  MaxId = 3
  MAX_NOTIFICATIONS_PER_SOURCE = 2
INVARIANTS
  FdoSound
PROPERTIES
  LeaversAreForgotten
CHECK_DEADLOCK FALSE
