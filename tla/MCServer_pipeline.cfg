SPECIFICATION ServerSpec
CONSTANTS
  c1 = c1
  c2 = c2
  Conn <- MCConn
  Message <- MCMessage
  Oversized <- MCOversized
  ByteSpan = 4
  ChannelSize = 1
  AnswerSize = 2
  SocketRoom = 3
  Fragments = FALSE
  MaxSends = 2
SYMMETRY ConnSymmetry
CHECK_DEADLOCK FALSE
INVARIANTS
  CommandsAreMessages
  AnswersToOwner
  AnswerFindsPeer
  NothingLostInside
