SPECIFICATION DailySpec
CONSTANTS
  Scheduled = 1
  Day = 4
  RecentMinutes = 2
  Notifiers <- MCNotifiers
  ReportLimit = 4
  HistoryLimit = 1
  CyclesPerMinute = 1
  WithSQLite = FALSE
  DailyMinutes = 6
  Requests = 1
  Corrections = 0
  DailyRestarts = 0
CHECK_DEADLOCK FALSE
INVARIANT ReportCoversDay
