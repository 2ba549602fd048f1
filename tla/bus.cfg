SPECIFICATION Spec
CONSTANTS
  early = early
  unheard = e3
  Events = {e1, e2, e3}
  Subscribers = {once, early}
  Once = {once}
  Priority <- MCPriority
  Interest <- MCInterest
  Publishers = {p1}
  Worker = worker
INVARIANTS
  EveryoneIsCalled
  QueueOrder
PROPERTIES
  KeepsBusContract
  Drains
CHECK_DEADLOCK FALSE
