SPECIFICATION Spec
CONSTANTS
  Browsers = {f1, f2}
  Nobody = Nobody
  MaxEvents = 1
INVARIANT SentToAll
CHECK_DEADLOCK FALSE
