SPECIFICATION ContextSpec
CONSTANTS
  CycleWindow = 4
  SnapWindow = 3
  RecentLimit = 2
  Actions = {"alert", "log"}
  CpuValues = {10}
  RamValues = {40}
  CpuThreshold = 85
  RamThreshold = 90
INVARIANT RecentAlertsAreLatest
