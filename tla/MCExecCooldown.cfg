SPECIFICATION HistorySpec
CONSTANTS
  Commands <- MCCommands
  NoCommand = ""
  Garbage = Garbage
  NoRecord = NoRecord
  NoSnapshot = NoSnapshot
  Handlers = {h1, h2}
  NoHandler = NoHandler
  Metrics <- MCMetrics
  Snapshots <- MCSnapshots
  Answers <- MCAnswers
  Trim <- MCTrim
  Cooldown = 1
  InboxCap = 1
PROPERTY CooldownPerCommand
