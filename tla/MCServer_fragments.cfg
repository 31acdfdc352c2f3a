SPECIFICATION ServerSpec
CONSTANTS
  c1 = c1
  c2 = c2
  Conn <- MCOneConn
  Message <- MCMessage
  Oversized <- MCOversized
  ByteSpan = 4
  ChannelSize = 1
  AnswerSize = 2
  SocketRoom = 3
  Fragments = TRUE
  MaxSends = 2
CHECK_DEADLOCK FALSE
INVARIANTS
  CommandsAreMessages
