SPECIFICATION Spec
CONSTANTS
  Docs <- MCDocs
  CharSizes = {2}
  Indent = 2
  WordMax = 1
  MaxPage = 4
  MaxHeld = 1
  LookBack = FALSE
  JumpAhead = FALSE
  CountAll = FALSE
  Modes = {"plain","serial"}
  PWidth = 8
  PHeight = 8
  VMargin = 1
  HMargin = 1
  LineSpacing = 1
  WordSpacing = 0
  CtorSpacing = 1
CHECK_DEADLOCK FALSE
INVARIANTS TypeOK TextKept FilesTile NoOrphans
PROPERTIES ShowsBook LastPageStays
