SPECIFICATION Spec
CONSTANTS
  A = A
  B = B
  C = C
  U = U
  Hooks = {h1, h2}
  Docs <- MCDocs
  Tagged <- MCTagged
  Prompts <- MCPrompts
  Concurrency = 2
  MaxEmitted = 1
  MaxAttempts = 2
  Lifetime = 1
  None = None
  Torn = Torn
  Target = C
  MaxEvents = 2
INVARIANTS ShownOnce
PROPERTIES AcceptsLikeSequential Surfaces
CHECK_DEADLOCK FALSE
