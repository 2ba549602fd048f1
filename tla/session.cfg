SPECIFICATION FairSpec
CONSTANTS
  Browsers = {f1, f2}
  Nobody = Nobody
  MaxEvents = 2
INVARIANTS
  SummarySeesWholeCall
  EndsClean
  ShownInOrder
PROPERTY TeardownCompletes
CHECK_DEADLOCK FALSE
