\* Three runs for two agents or none, one cut short, one event in between.
CONSTANTS
  Selections = {{}, {"claude", "antigravity"}}
  Keys = {"A"}
  Trackable = {".claude"}
  ModeCount = 2
  Versions = 2
  MaxRuns = 3
  MaxCuts = 1
  MaxEvents = 1
SPECIFICATION Spec
\* The runs are bounded.
CHECK_DEADLOCK FALSE
INVARIANTS SetupIsSound
PROPERTIES EditsSurvive RerunsChangeNothing
