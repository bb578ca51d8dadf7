CONSTANTS
  s1 = s1  s2 = s2  r1 = r1
  Procs = {s1, s2, r1}
  Reindexers = {r1}
  Models = {local, hosted}
  NoFile = NoFile
  Partial = Partial
  None = None
  MaxVersion = 1
  MaxKills = 1
SPECIFICATION Spec
CHECK_DEADLOCK FALSE
SYMMETRY SameProgram
INVARIANTS AnswersMatchAnalysis
PROPERTIES UsesAccessLock FilesStayInOrder
