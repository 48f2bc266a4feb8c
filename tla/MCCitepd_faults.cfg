CONSTANTS
  Conns = {c1, c2}
  Pids = {p1, p2}
  None = None
  x = x
  f = f
  g = g
  Byte <- MCByte
  end_flag <- LongFlag
  Streams <- MixedStreams
  Q_SIZE_LIMIT = 2
  MAXLINE = 2
  MaxAcceptFails = 1
  MaxCrashes = 1
  MaxKills = 1
SPECIFICATION Spec
SYMMETRY MCSymmetry
INVARIANTS DescriptorsPrivate ZombiesAnnounced AnswersFirstQuery
PROPERTY KeepsPromise
CHECK_DEADLOCK FALSE
