SPECIFICATION Spec
CONSTANTS
  Docs <- MCAgain
  CharSizes = {2}
  Indent = 0
  WordMax = 12
  MaxPage = 2
  MaxHeld = 1
  LookBack = TRUE
  JumpAhead = FALSE
  CountAll = FALSE
  Modes = {"plain","serial"}
  PWidth = 8
  PHeight = 9
  VMargin = 1
  HMargin = 1
  LineSpacing = 1
  WordSpacing = 0
  CtorSpacing = 1
CHECK_DEADLOCK FALSE
INVARIANTS SamePage
