SPECIFICATION Spec
CONSTANTS
  Tables <- MCTables
  Leads <- MCLeads
  CellSpacing = 2
  CellMargin = 2
  MaxPages = 3
  PWidth = 40
  PHeight = 40
  VMargin = 2
  HMargin = 2
  LineSpacing = 1
  WordSpacing = 0
  CtorSpacing = 1
CHECK_DEADLOCK FALSE
INVARIANTS TypeOK GlyphsInPlace SameAgain
