SPECIFICATION Spec
CONSTANTS
  Snaps = {1, 2, 3}
  Runs = {1, 2}
  Created <- Times
  Lineage <- Notes
  Size <- Sizes
  Nows = {2, 5}
  MaxAge = 4
  MaxPerLineage = 1
  MaxBytes = 2
  MaxCandidates = 2
  Budget = 3
  MaxRuns = 2
  MaxTries = 2
  MaxFaults = 1
  None = None
CHECK_DEADLOCK FALSE
INVARIANTS GoneForAReason
PROPERTIES CapacityIsAchieved DeletionConverges
