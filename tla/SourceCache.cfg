SPECIFICATION FairSpec
CONSTANTS
    Resolvers = {t1, t2}
    Commits = {c1, c2}
    First = c1
    None = None
    Invalid = Invalid
    Absent = Absent
    Nobody = Nobody
    MaxEdits = 2
    MaxFaults = 1
CHECK_DEADLOCK FALSE
INVARIANTS AnswersAreOfTheirCommit RemovalIsFinal
PROPERTIES UnownedCachesGo
