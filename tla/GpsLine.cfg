SPECIFICATION FairSpec
CONSTANTS
  Chars = {"R", "x", ",", "*"}
  BufLen = 5
  argcMax = 3
  Starts <- KnownStarts
INVARIANTS HoldsLine FieldsOfLine
PROPERTIES ErrorOnlyWhenMany ReadsOn
