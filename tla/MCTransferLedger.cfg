SPECIFICATION FairSpec
CONSTANTS
  Uploads = {u1}
  Downloads = {d1}
  NoOp = NoOp
  MaxTime = 2
  MaxOperations = 2
INVARIANTS
  RunningIsOwned
  LedgerAgrees
  OutcomeIsAccepted
  ClaimedOncePerDrain
PROPERTIES
  UpdatedNeverGoesBack
  BatchDownloadsFinish
