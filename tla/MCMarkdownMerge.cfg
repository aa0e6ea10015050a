SPECIFICATION MergeSpec
CONSTANTS
  BaseTexts <- MCBaseTexts
  SideTexts <- MCSideTexts
  Fence = "---"
  Blank = ""
  Bom = "bom"
  Word = "w"
  MaxBase = 2
  MaxSide = 3
  MaxLogicalLines = 3
  MaxDiffWork = 6
INVARIANTS
  MergeIsSymmetric
  EveryEditIsMerged
CHECK_DEADLOCK FALSE
