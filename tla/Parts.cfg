SPECIFICATION PartsSpec
CONSTANTS
  Absent = Absent
  All = All
  Asked = Asked
  Gitignore = Gitignore
  None = None
  NoFile = NoFile
  NoIndex = NoIndex
  Nothing = Nothing
  Unset = Unset
  Unwritten = Unwritten
\* Two documents, two pieces of text, two saves, one move, one piece of another program.
  Paths = {"p1", "p2"}
  Typed = {"k1", "k2"}
  Others = {"w1"}
  MaxSaves = 2  MaxMoves = 1  MaxFaults = 1
\* Two files, one content each, three changes by other programs.
  Files = {"f1", "f2"}
  Contents = {"c1"}
  MaxChanges = 3
\* Three files, two workers, batches of two, one change during a scan.
  ProjectFiles = {"f", "g", "h"}
  Kinds <- ScannedKinds  DirOf <- ScannedDirOf  Sub <- ScannedSub  Means <- ScannedMeans
  Root = "."  Barred = {"d"}
  Workers = 2  MaxBatch = 2  MaxWrites = 1
\* Files of two lines, two different comment lines, two calls.
  Prose = {"c1", "c2"}
  OtherLines = {"k"}
  MaxLines = 2  MaxCalls = 2  MaxRewrites = 1
\* Two texts, two words, two edits.
  Bodies <- PolicyBodies  Words = {"x", "y"}  MaxText = 2  MaxRevisions = 2
\* A file whose line is read back and one whose line is not, two upstream commits.
  TreePaths = {"a", "#b"}  Unreadable = {"#b"}
  MaxCommits = 2  MaxOwnCommits = 2  MaxHandEdits = 1  MaxEntries = 2
\* Four worlds, one retry of a move, one change of the project, one kill, one rival.
  Docs = {"index", "guide", "late", "graph"}
  Previews = {"@/readme", "@/notes"}
  Sources = {"s1", "s2"}
  Resources = {"logo"}
  Externals = {"x1", "x2"}
  Worlds <- SiteWorlds  Projects <- SiteProjects
  MaxRetries = 1  MaxProjectChanges = 1  MaxKills = 1
\* Two runs, two documents and one in a subdirectory, six indexes, one edit, one kill.
  Fixers = {"r1", "r2"}
  RootDocs = {"a", "b"}  SubDocs = {"c"}
  Titles <- RunTitles  Alphabet <- RunAlphabet  HandWritten <- HandWrittenIndexes
  MaxEdits = 1  MaxRuns = 2  MaxFixKills = 1
CHECK_DEADLOCK FALSE
INVARIANTS DraftsAreSafe ScopeIsCurrent HalvesAgree FixSettles SymbolsAreSound SiteIsWhole GuardHolds PolicyHolds ScansAreComplete
PROPERTIES BlocksPassUnseen AuthorsKeepTheirText
