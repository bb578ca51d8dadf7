\* One or two documents, one or two saves, one write or deletion by another program, one failed refresh, one change of the external sources.
CONSTANTS
  d1 = d1  d2 = d2  e1 = e1  e2 = e2  w1 = w1
  Docs = {d1, d2}
  Edits = {e1, e2}
  Writes = {w1}
  Target <- SameTarget
  Absent = Absent  None = None  All = All  Ext = Ext
  Attempts = 2
  MaxFail = 1
  MaxHead = 0
  MaxExt = 1
SPECIFICATION Spec
\* The store stops when it is closed.
CHECK_DEADLOCK FALSE
CONSTRAINT OneEditOrOneDocument
SYMMETRY SameEdits
INVARIANTS StaleIsCovered AcknowledgedEditsSurvive
PROPERTIES ReadYourWrites GenerationsIdentifySnapshots
