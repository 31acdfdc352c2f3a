SPECIFICATION LifeSpec
CONSTANTS
  Byte <- MCByte
  ZeroByte = "0"
  Messages <- MCMessages
  NoFile = NoFile
  OffsetSpan = 9
  MaxSegmentBytes = 4
  RetentionBytes = 5
  MaxAppends = 8
  MaxCrashes = 0
CHECK_DEADLOCK FALSE
INVARIANTS
  TypeOK
  Contiguous
  SegmentsMirrorFiles
  OffsetsConsecutive
  EntriesDescribeMessages
  NoHoles
  RetentionRespected
PROPERTIES
  FlushedReadsStable
