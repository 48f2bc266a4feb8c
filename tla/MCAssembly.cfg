\* Up to four words of each kind, two citations and a label past the end, under the
\* labels that are treated differently: none, author, editor, note (not stored),
\* pages (blank in another way) and title.
SPECIFICATION Spec
CONSTANTS
  Label = {0, 3, 6, 10, 11, 14}
  Text = {"word", "number", "sign"}
  MaxWords = 4
CHECK_DEADLOCK FALSE
INVARIANTS PiecesAreTheRuns OnlyLastEmpty LostOnlyWhenOverwritten
PROPERTIES EarlierFrozen
