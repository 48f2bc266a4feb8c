CONSTANTS
  Threads = {t1, t2}
  Parsers = {t1}
  Hosts = {h1, blank}
  Ports = {9529, 9530}
  Blank = blank
  x = x
  g = g
  Byte <- MCByte
  end_flag <- MCFlag
  Texts <- MCTexts
  MaxRetry = 2
  MaxCalls = 1
  Q_SIZE_LIMIT = 2
  MAXLINE = 2
SPECIFICATION FairSpec
INVARIANTS Copies AsksOwnServer
PROPERTY Returns
CHECK_DEADLOCK FALSE
