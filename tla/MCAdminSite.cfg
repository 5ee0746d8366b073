CONSTANTS
  A = A
  B = B
  Name <- MCName
  NoName = NoName
  MaxTest = 2
  FirstProblems <- MCProblems
  Filter = {f1, bad}
  NoFilter = NoFilter
  Malformed = bad
  MaxPage = 2
  MaxVisits = 2
  MaxFetches = 2
  MaxWrites = 2
  Start <- MCStart
  MaxEdits = 1
  MaxTests = 2
  TestBox = {input}
  SourceBox = {source}
SPECIFICATION Spec
INVARIANTS OnlyImportedIsUnmet SavedIsTestable ViewIsOfLocation
PROPERTY ShownPanelsAreFilled
CHECK_DEADLOCK FALSE
