SPECIFICATION TopicFairSpec
CONSTANTS
  g1 = g1
  g2 = g2
  Group <- MCGroup
  Byte <- MCByte
  ZeroByte = "0"
  Messages <- MCMessages
  NoFile = NoFile
  OffsetSpan = 8
  MaxSegmentBytes = 3
  RetentionBytes = 4
  MaxAppends = 5
  MaxCrashes = 0
CHECK_DEADLOCK FALSE
INVARIANTS
  Intact
  PassedAccountedFor
PROPERTIES
  GroupsCatchUp
  ImplementsEventLog
