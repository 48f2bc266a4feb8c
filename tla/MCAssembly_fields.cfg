\* The comments on labels 6 and 12.
SPECIFICATION Spec
CONSTANTS
  Label = {3, 6, 12, 14}
  Text = {"word"}
  MaxWords = 3
CHECK_DEADLOCK FALSE
INVARIANTS FieldsApart
