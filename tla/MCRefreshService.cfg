CONSTANTS
  Weeks <- MCWeeks
  Jobs <- MCJobs
  ManualIds <- MCManualIds
  PredictionAnswers <- MCPredictionAnswers
  Base = base
  NoJob = nojob
  NoGeneration = nogeneration
  Initial = initial
  Requests = 1
  Horizon = 5
  MaxFaults = 2
SPECIFICATION FairSpec
INVARIANTS
  TypeOK
  ServedPairIsWhole
  CalendarTellsTruth
  NoOrphans
  OneAcceptedSlotPerWeek
  RecoveryNeverConflicts
PROPERTIES
  PendingLeavesOnlyWhenDone
  ImplementsPublication
  EveryJobFinishes
