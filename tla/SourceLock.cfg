CONSTANTS
  p1 = p1  p2 = p2
  t1 = t1  t2 = t2  t3 = t3  t4 = t4
  Procs = {p1, p2}
  Tasks = {t1, t2, t3, t4}
  Proc <- ThreeAndOne
  NoLock = NoLock
  NoTask = NoTask
  MaxAge = 2
  MaxCrashes = 1
  MaxRefusals = 1
SPECIFICATION FairSpec
CHECK_DEADLOCK FALSE
CONSTRAINT InOrder
INVARIANTS ExclusiveUnlessRobbed LocksAreReleased
PROPERTIES CallsTakeTurns
