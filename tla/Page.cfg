SPECIFICATION Spec
CONSTANTS
  Documents <- MCPages
  MaxPages = 4
  MaxLeft = 3
  ImageGuard = 2
  PWidth = 14
  PHeight = 24
  VMargin = 4
  HMargin = 4
  LineSpacing = 1
  WordSpacing = 0
  CtorSpacing = 1
CHECK_DEADLOCK FALSE
INVARIANTS TypeOK PageShowsItsPart NoOverprint OnPaper DrawsLive PagesAdvance
