\* A ring of four slots, three snapshots: every position of front and rear,
\* full and empty, with every content.
SPECIFICATION RingSpec
CONSTANTS
  CNSQSIZE = 4
  Elem = {a, b, c}
  NULL = NULL
PROPERTIES IsWindow HeldIntact
