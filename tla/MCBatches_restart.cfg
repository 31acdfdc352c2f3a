SPECIFICATION BatchesSpec
CONSTANTS
  g1 = g1
  Group <- MCGroup
  Byte <- MCByte
  ZeroByte = "0"
  Messages <- MCMessages
  Batch <- MCBatch
  NoFile = NoFile
  NoRequest = NoRequest
  OffsetSpan = 32
  MaxSegmentBytes = 2
  RetentionBytes = 2
  MaxAppends = 5
  MaxCrashes = 2
  MaxFaults = 1
  MaxRequests = 4
CHECK_DEADLOCK FALSE
INVARIANTS
  BatchesTypeOK
  NeverRedelivered
  AnsweredServed
  LogIsRequests
  LoneOrphanIsEmpty
  CrashLeavesChain
PROPERTIES
  SavedNeverBack
  CleaningCatchesUp
  OpenServesFlushed
