SPECIFICATION ServerFairSpec
CONSTANTS
  c1 = c1
  c2 = c2
  Conn <- MCConn
  Message <- MCMessage
  Oversized <- MCOversized
  ByteSpan = 4
  ChannelSize = 1
  AnswerSize = 2
  SocketRoom = 3
  Fragments = FALSE
  MaxSends = 1
CHECK_DEADLOCK FALSE
PROPERTIES
  HarmlessAnswered
