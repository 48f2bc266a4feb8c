\* All callers in both builds: blocks for one refused text, one in use and one of the
\* rest of the program.  The model stops where a block is freed twice.
SPECIFICATION Spec
CONSTANTS
  Blocks = {b1, b2, b3, b4, b5, b6, b7, b8, b9}
  NULL = NULL
  Callers = {"PredictFile", "PredictString", "trainer"}
  MaxRefusals = 1
CHECK_DEADLOCK FALSE
INVARIANTS NamesOwnBlocks OnlyRefusalsLeak
