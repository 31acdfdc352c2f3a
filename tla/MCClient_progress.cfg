SPECIFICATION ClientFairSpec
CONSTANTS
  c1 = c1
  c2 = c2
  Conn <- MCConn
  Cli <- MCCli
  Workers = 2
  Quit = Quit
  Message <- MCMessage
  Oversized <- NoMessage
  ByteSpan = 4
  ChannelSize = 1
  AnswerSize = 3
  SocketRoom = 6
  Fragments = FALSE
  MaxSends = 2
CHECK_DEADLOCK FALSE
INVARIANTS
  ClientTypeOK
  ShownInOrder
PROPERTIES
  PipelineMoves
  EveryMessageAnswered
  GoneIsForgotten
  AskedIsAnswered
  QuitEnds
