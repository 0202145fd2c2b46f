SPECIFICATION Spec
CONSTANTS
  Docs <- MCDocs
  WordMax = 1
  LineLen = 2
  MaxPages = 3
  MaxBack = 2
\* The client stops at the end of a page.
CHECK_DEADLOCK FALSE
INVARIANTS TypeOK Labelled FontAsWritten StyleAsWritten ReplaySame ReplayKeepsText
