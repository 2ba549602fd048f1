SPECIFICATION FairSpec
CONSTANTS
  MaxRequests = 2
  MaxTokens = 1
  MaxErrors = 2
  MaxInterrupts = 1
INVARIANTS
  
  BackupMadeOnce
  AnsweredOnce
PROPERTIES
  EachEndWasAsked
  TurnSurvivesFailover
CHECK_DEADLOCK FALSE
