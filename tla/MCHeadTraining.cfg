CONSTANTS
  Stacks = {0, 1}
  TextSize = 4
  Contents <- MCContents
  Width = 2
  Garbage = {0, 1}
  MaxRuns = 4
  MaxKills = 2
  MaxFailures = 1
  MaxCleans = 1
SPECIFICATION Spec
INVARIANTS EveryHeadingOnce HitIsTruth StoreSettles OneOffsetEach
CHECK_DEADLOCK FALSE
