\* Rings of five slots and texts of up to five words of each kind, six with quotation
\* marks: both rings fill, turn, drop and run empty, and every kind of word meets
\* every place.
SPECIFICATION Spec
CONSTANTS
  Texts <- MCTexts
  MaxWords = 6
  rest = 1
  CNSQSIZE = 5
  QUOTTIME = 3
  NULL = NULL
CHECK_DEADLOCK FALSE
INVARIANTS RowsAreTheWords Neighbourhood KeywordsOfTheSentence BracketsInSight CarriedOver
           CrashesOnlyAtEdges
