SPECIFICATION BrokerSpec
CONSTANTS
  n1 = n1
  n2 = n2
  n3 = n3
  g1 = g1
  Name <- MCName
  Group <- MCGroup
  Absent = Absent
  Truncated = Truncated
  MaxDirs = 4
  MaxOffset = 1
  MaxFaults = 2
  MaxCrashes = 2
SYMMETRY NameSymmetry
CHECK_DEADLOCK FALSE
INVARIANTS
  BrokerTypeOK
  TopicsDistinct
  TopicsHaveDirectories
  AckedServed
  ReachedSaved
  LeaksBounded
  AckedReadable
PROPERTIES
  OnlyUnseenForgotten
