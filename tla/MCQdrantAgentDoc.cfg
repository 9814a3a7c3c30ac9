SPECIFICATION Spec
CONSTANTS
  MaxFailures = 1
  ResetTimeout = 1
  maxHistory = 1
  MaxDecisions = 2
  MaxRestarts = 1
  NoFile = NoFile
  Corrupt = Corrupt
  similarDecisionsK = 1

PROPERTY NoCollision
