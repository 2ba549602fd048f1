SPECIFICATION StreamFairSpec
CONSTANTS
  Workers = {w1, w2}
  Conns = {c1, c2, c3}
  Streams = {s1, s2}
  NoStream = NoStream
  NoConn = NoConn
  MaxStops = 1
INVARIANTS
  OneSessionPerStream
PROPERTY OrphansAreCleaned
CHECK_DEADLOCK FALSE
