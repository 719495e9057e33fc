SPECIFICATION Spec
CONSTANTS
  Events = 2
  Limit = 3
  MaxFaults = 5
INVARIANTS
  BooksAreTrue
  RepeatsAreExplained
CHECK_DEADLOCK FALSE
