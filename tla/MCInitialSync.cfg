SPECIFICATION FairSpec
CONSTANTS
  Folders = {f1, f2}
  Files = {x1}
  Root = Root
  Gone = Gone
  Outside = Outside
  None = None
  MaxClock = 2
  MaxFrontier = 2
  CanExpire = TRUE
INVARIANTS
  ReadyMirrorIsExact
  ReadyMirrorHasNoOrphans
  PathsFollowParents
PROPERTIES
  CursorLeavesByRescan
  EventuallyReady
