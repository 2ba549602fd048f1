SPECIFICATION FairSpec
CONSTANTS
  Calls = {c1, c2}
  Phones = {p, unknown_client}
  Unknown = unknown_client
  NoCall = NoCall
INVARIANTS
  MemoryIsComplete
PROPERTIES
  SavesKeepWhatWasKnown
  WebhookAnswers
CHECK_DEADLOCK FALSE
