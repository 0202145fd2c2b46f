SPECIFICATION Spec
CONSTANTS
  MaxLen = 5
  MaxPush = 2
  Lag = 0
  Background = {TRUE, FALSE}
  PgBased = {TRUE, FALSE}
  SeekFrom = {"pipe"}
INVARIANTS Faithful StaysInPage BgOffIsParsingOffset
PROPERTIES EndDiscoveredAtEnd SeekNeverRefused
CHECK_DEADLOCK FALSE
