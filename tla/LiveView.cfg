\* One page, the search page and a query, one restart, three snapshots, one fault, one move.
SPECIFICATION FairSpec
CONSTANTS
    Paths = {p1}
    Queries = {q1}
    Search = Search
    None = None
    Closed = Closed
    MaxInstance = 2
    MaxGeneration = 2
    MaxFaults = 1
    MaxMoves = 1
\* The tab is at rest once everything is shown.
CHECK_DEADLOCK FALSE
INVARIANTS ShowsWhatIsAsked SearchSeesKnownChanges
PROPERTIES CatchesUp
