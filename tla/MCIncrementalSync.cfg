SPECIFICATION IncrementalSpec
CONSTANTS
  Folders = {f1, f2}
  Files = {x1}
  Root = Root
  Gone = Gone
  Outside = Outside
  None = None
  MaxClock = 3
  MaxFrontier = 3
  CanExpire = TRUE
SYMMETRY Symmetry
INVARIANTS
  BatchHoldsItsCursor
  KnownEntriesAreExact
PROPERTIES
  KnownItemsStayPut
CHECK_DEADLOCK FALSE
