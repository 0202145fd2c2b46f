SPECIFICATION Spec
CONSTANTS
  MaxLen = 4
  MaxPush = 2
  Lag = 2
  Background = {TRUE}
  PgBased = {FALSE}
  SeekFrom = {"pipe", "file"}
INVARIANTS NoReadAhead NeverBehind
CHECK_DEADLOCK FALSE
