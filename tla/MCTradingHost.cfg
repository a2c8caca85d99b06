SPECIFICATION FairSpec
CONSTANTS
    MaxStarts = 2
    MaxCycles = 3
    MaxPublications = 2
    MaxCrashes = 1
INVARIANTS
    AnswerIsOneCycle
    FinishedCycleIsOnDisk
    OngoingFailureShown
PROPERTIES
    StatusNeverGoesBack
    NothingRunsAlone
CHECK_DEADLOCK FALSE
