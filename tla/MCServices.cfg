SPECIFICATION ServicesSpec
CONSTANTS
  Streak = {"CPU"}
  Direct = {"DISK"}
  MinCycles = 2
  Cooldown = 3
  NeverAlerted <- MCNeverAlerted
  MaxCycles = 6
  MaxBackups = 3
  MaxSize = 2
  LogCalls = 10
  LogSpoils = 2
  Seconds = {0, 2, 3, 9}
  MinSeconds = 1
  Second = 1
  Width = 4
  FirstInterval = 1
  MaxObserve = 2
  MaxAge = 6
  Scheduled = 1
  Day = 4
  RecentMinutes = 2
  Notifiers <- MCNotifiers
  ReportLimit = 4
  HistoryLimit = 4
  CyclesPerMinute = 1
  WithSQLite = TRUE
  DailyMinutes = 6
  Requests = 2
  Corrections = 1
  DailyRestarts = 1
  Containers = {"db", "job"}
  Watched = {"db"}
  Paths = {"log"}
  Sizes = {0, 1, 2, 3}
  MaxSizeMB = 3
  MaxRuns = 5
  Clients = {c1, c2, c3}
  PerSecond = 2
  Burst = 1
  WebTime = 5
  CycleWindow = 4
  SnapWindow = 3
  RecentLimit = 2
  Actions = {"alert", "log"}
  CpuValues = {10, 11, 75, 90}
  RamValues = {40, 60}
  CpuThreshold = 85
  RamThreshold = 90
  Amounts = {0, 5, 101, 3601}
  Inf = 99999
  EnvLines = 2
CHECK_DEADLOCK FALSE
INVARIANTS ServicesTypeOK AlertsExactly LogKeepsLatest RateCoversItsTime OneReportADay ChangesReported TogglesTakeEffect ContextConsistent ConfigSound
PROPERTIES SchedulerObeys
