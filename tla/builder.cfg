SPECIFICATION Spec
CONSTANTS
  mic = mic
  llm = llm
  tts = tts
  speaker = speaker
  Ids <- MCIds
  RolesOf <- MCRolesOf
  Threads = {t1, t2}
  NoPipeline = NoPipeline
INVARIANTS
  GraphMatchesProcessors
  NoCycle
  BuiltCanBeScheduled
PROPERTIES
  SplicesKeepTheWays
  RaisingChangesNothing
  BuildReturnsAValidPipeline
