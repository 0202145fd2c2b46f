SPECIFICATION Spec
CONSTANTS
  MaxLen = 5
  MaxPush = 3
  Lag = 0
  Background = {FALSE}
  PgBased = {FALSE}
  SeekFrom = {"pipe", "file"}
INVARIANTS TypeOK
PROPERTIES IsCursor
CHECK_DEADLOCK FALSE
