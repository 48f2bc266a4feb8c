CONSTANTS
  Conns = {c1, c2}
  Pids = {p1}
  None = None
  x = x
  f = f
  g = g
  Byte <- MCByte
  end_flag <- ShortFlag
  Streams <- MCStreams
  Q_SIZE_LIMIT = 2
  MAXLINE = 2
  MaxAcceptFails = 1
  MaxCrashes = 1
  MaxKills = 0
SPECIFICATION FairSpec
PROPERTIES Decides Reaped BacklogMoves ConnectionsEnd
CHECK_DEADLOCK FALSE
