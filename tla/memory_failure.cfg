SPECIFICATION Spec
CONSTANTS
  Calls = {c1, c2}
  Phones = {p, unknown_client}
  Unknown = unknown_client
  NoCall = NoCall
PROPERTY FailureKeepsTheSummary
CHECK_DEADLOCK FALSE
