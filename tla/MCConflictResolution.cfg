SPECIFICATION Spec
CONSTANTS
  LocalAtoms = {l1}
  RemoteAtoms = {r1}
  Claims <- MCClaims
  Rungs = 2
  MaxFeed = 2
  MaxEdits = 1
  MaxPlans = 2
  MaxCrashes = 1
INVARIANTS AppliedOnce CursorIsEarned EditsSurvive
CHECK_DEADLOCK FALSE
