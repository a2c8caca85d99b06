CONSTANTS
  Weeks <- MCWeeks
  Jobs <- MCJobs
  ManualIds <- MCManualIds
  PredictionAnswers <- MCPredictionAnswers
  Base = base
  NoJob = nojob
  NoGeneration = nogeneration
  Initial = initial
  Requests = 1
  Horizon = 4
  MaxFaults = 1
SPECIFICATION FairSpec
PROPERTY
  RefusedJobCloses
