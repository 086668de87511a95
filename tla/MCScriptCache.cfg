SPECIFICATION FairSpec
CONSTANTS
  Requests = {r1, r2}
  Paths = {a, b}
  MaxVersion = 2
  MaxEntries = 1
  Windowed = TRUE
  CounterSpan = 8
  Clears = TRUE
CHECK_DEADLOCK FALSE
INVARIANTS OneCompilePerPath EntriesAreNotStale
PROPERTIES ServesFreshScripts RequestsEnd
