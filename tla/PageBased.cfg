SPECIFICATION Spec
CONSTANTS
  Docs <- MCDocs
  OldSize = 1
  NewSizes = {1, 2}
  Indent = 0
  WordMax = 2
  MaxPage = 3
  MaxSub = 3
  PWidth = 7
  PHeight = 5
  VMargin = 1
  HMargin = 1
  LineSpacing = 1
  WordSpacing = 0
  CtorSpacing = 1
\* An engine whose process died stays so.
CHECK_DEADLOCK FALSE
INVARIANTS TypeOK SubPagesShowPage SubPageAgain
