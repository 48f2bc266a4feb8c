\* Two tags in base three; three bits hold two open tags, or wrap at the second.
\* Texts of up to five pieces, stray brackets and unknown tags among them, and of up
\* to seven tags and characters: deep enough to run out of room and close again.
SPECIFICATION Spec
CONSTANTS
  TOKEN_MAX_LEN = 3
  MaxUint = 7
  Tokens <- MCTokens
  MAX_TOKEN_LENGTH = 3
  RefA = 1
  Texts <- MCTexts
CHECK_DEADLOCK FALSE
INVARIANTS StoredIsText TagsAreOpen RefusedOrLeftOpen
           ReferenceAreaFound
