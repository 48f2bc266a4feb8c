\* Texts of up to six characters, words of up to four; abbreviations of at most two
\* letters after a capital, one else; room for two parts of a word.
SPECIFICATION Spec
CONSTANTS
  Texts <- MCTexts
  SINGLEWORDLEN = 4
  SPSTR = 3
  ABBRUPPER = 2
  ABBRLOWER = 1
CHECK_DEADLOCK FALSE
INVARIANTS WordsCover StopsEarlyOnly PredeliIsLast WordsNoted
