CONSTANTS
  s1 = s1  s2 = s2  r1 = r1
  Procs = {s1, s2, r1}
  Reindexers = {r1}
  Models = {local}
  NoFile = NoFile
  Partial = Partial
  None = None
  MaxVersion = 0
  MaxKills = 1
SPECIFICATION FairSpec
CHECK_DEADLOCK FALSE
PROPERTIES WaitersAreAdmitted WriteLockIsReleased
