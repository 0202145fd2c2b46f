SPECIFICATION FairSpec
CONSTANTS
  Docs <- MCShort
  CharSizes = {2}
  Indent = 2
  WordMax = 1
  MaxPage = 2
  MaxHeld = 1
  LookBack = TRUE
  JumpAhead = TRUE
  CountAll = TRUE
  Modes = {"plain"}
  PWidth = 8
  PHeight = 7
  VMargin = 1
  HMargin = 1
  LineSpacing = 1
  WordSpacing = 0
  CtorSpacing = 1
CHECK_DEADLOCK FALSE
INVARIANTS ReplayStarts CountedPagesComplete AssertHolds
PROPERTIES CallsReturn
