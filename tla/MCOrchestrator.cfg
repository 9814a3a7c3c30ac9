SPECIFICATION FairSpec
CONSTANTS
  Commands <- MCCommands
  NoCommand = ""
  Garbage = Garbage
  NoRecord = NoRecord
  NoSnapshot = NoSnapshot
  Handlers = {h1, h2}
  NoHandler = NoHandler
  Metrics <- MCMetrics
  Snapshots <- MCSnapshots
  Answers <- MCAnswers
  Trim <- MCTrim
  Cooldown = 2
  InboxCap = 1
INVARIANTS TypeOK OneCycleAtATime CycleSeesItsSnapshot ResultOfLastAllowed OnlyDecidedCommandsRun ConditionStillHolds
PROPERTIES StandingDecisionRuns
