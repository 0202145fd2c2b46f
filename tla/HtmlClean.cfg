SPECIFICATION FairSpec
CONSTANTS
  Documents <- MCDocuments
\* The walk ends.
CHECK_DEADLOCK FALSE
INVARIANTS TreeIsWhole
PROPERTIES WalkCleans
