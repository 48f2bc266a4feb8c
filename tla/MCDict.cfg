CONSTANTS
  primes <- MCprimes
  Keys <- MCWords
  Chars = {1, 2}
  Names <- MCNames
  Words <- MCWords
  Vals = {0, 1}
  Hashes <- MCHashes
  Absent = Absent
  MaxRows = 5
SPECIFICATION MapSpec
INVARIANTS LongestBeginning ProbesEnd
PROPERTY LoadsTable
CHECK_DEADLOCK FALSE
