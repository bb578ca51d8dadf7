\* One document, one save, one write or deletion, one failure, one commit.
CONSTANTS
  d1 = d1  d2 = d2  e1 = e1  e2 = e2  w1 = w1
  Docs = {d1}
  Edits = {e1}
  Writes = {w1}
  Target <- SameTarget
  Absent = Absent  None = None  All = All  Ext = Ext
  Attempts = 2
  MaxFail = 1
  MaxHead = 1
  MaxExt = 0
SPECIFICATION FairSpec
\* The store stops when it is closed.
CHECK_DEADLOCK FALSE
PROPERTIES Converges CommitIsNoticed CallsReturn
