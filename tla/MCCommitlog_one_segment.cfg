SPECIFICATION Spec
CONSTANTS
  Byte <- MCByte
  ZeroByte = "0"
  Messages <- MCMessages
  NoFile = NoFile
  OffsetSpan = 20
  MaxSegmentBytes = 3
  RetentionBytes = 2
  MaxAppends = 6
  MaxCrashes = 2
CHECK_DEADLOCK FALSE
PROPERTIES
  OpenServesEveryPair
