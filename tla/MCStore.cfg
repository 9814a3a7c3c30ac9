SPECIFICATION Spec
CONSTANTS
  maxHistory = 2
  MaxDecisions = 4
  MaxRestarts = 2
  NoFile = NoFile
  Corrupt = Corrupt
\* The decisions or the restarts are used up.
CHECK_DEADLOCK FALSE
INVARIANTS TypeOK HistoryIsLatest PairedInFile SameNumbers NewestDecisionRead
