SPECIFICATION MachineSpec
CONSTANT MaxRecords = 6
INVARIANTS HistoryIsAWalk ClosedIsFinal StopsAreResolved
\* the machine stops: CLOSED has no successor
CHECK_DEADLOCK FALSE
