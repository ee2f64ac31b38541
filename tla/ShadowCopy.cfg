CONSTANTS
  Callers = {cron, operator}
  NRows = 2
  Tracked = TRUE
  PageSize = 1
  MaxPages = 1
  BatchSize = 1
  MaxWrites = 2
  MaxFaults = 1
SPECIFICATION Spec
INVARIANTS TypeOK ParityIsWhole
PROPERTIES ReplayCovers RowsArrive
